---------------------------- MODULE BlindedMatch ----------------------------
(***************************************************************************)
(* The blinded comparison of names: modified Paillier (crypto/Paillier.cpp)*)
(* behind HEPS (crypto/Heps.cpp), executeMatch of the broker, and the way  *)
(* of its keys: a root generates them and writes the full key file, clients*)
(* blind with that file, and the broker that compares - the root, or a leaf*)
(* with the public half it loaded when it started - may hold another key.  *)
(*                                                                         *)
(* A name is the integer stringToMpz hashes it to. Hexadecimal text stands *)
(* for the same integer on both sides and is left out. Random draws are    *)
(* choices; encrypt's is among the units of Z_n, which in the code it is   *)
(* except with probability about 2^-1023.                                  *)
(***************************************************************************)
EXTENDS Integers, FiniteSetsExt

CONSTANTS Names,        \* hashes of service names
          Primes,       \* pairs of primes gen_prime may return
          Masks,        \* choices of e_m
          Scalars,      \* choices of r_m
          Nonces,       \* choices of encrypt's randomness
          MaxRuns,      \* bound: how often a root is started
          NoKey, NoSub, NoPub

\* Every stretched difference of two names, and of a name and the next one
\* after another, stays within half of every modulus.
ASSUME MatchAssumption ==
    /\ Names \subseteq Nat
    /\ Scalars \subseteq Nat \ {0, 1}
    /\ \A pq \in Primes :
         /\ pq[1] * pq[2] \in Nat \ {0}
         /\ \A r_m \in Scalars, x, v \in Names :
              r_m * (x - v + 1) < (pq[1] * pq[2]) \div 2

VARIABLES file,         \* dnspp_heps_full.key
          matcher,      \* he_n_ and he_mu_ of the broker that compares
          sub,          \* the first subscriber of the group
          pub,          \* the last publication compared with it
          verdict,      \* what executeMatch returned for it
          runs          \* root runs so far

vars == <<file, matcher, sub, pub, verdict, runs>>

(***************************************************************************)
(* Arithmetic.                                                             *)
(***************************************************************************)

\* b^e modulo m, by repeated squaring.
PowMod(b, e, m) ==
    LET pow[i \in 0 .. e] ==
          IF i = 0 THEN 1 % m
          ELSE IF i % 2 = 1 THEN (pow[i - 1] * b) % m
          ELSE LET half == pow[i \div 2] IN (half * half) % m
    IN  pow[e]

CommonMultiples(a, b) == {c \in 1 .. a * b : c % a = 0 /\ c % b = 0}
Lcm(a, b) == Min(CommonMultiples(a, b))
InverseMod(a, n) == CHOOSE i \in 1 .. n - 1 : (a * i) % n = 1
Units(n) == {i \in 1 .. n - 1 : \E j \in 1 .. n - 1 : (i * j) % n = 1}

\* What two different primes of one length give, as gen_prime makes them: lambda
\* has an inverse modulo n, which keyGen's mpz_invert finds, and Carmichael's
\* theorem for n^2.
ASSUME KeyAssumption ==
    /\ Masks \subseteq Nat
    /\ \A pq \in Primes :
         LET n == pq[1] * pq[2]
             lambda == Lcm(pq[1] - 1, pq[2] - 1)
         IN  /\ pq[1] \in Nat \ {0, 1} /\ pq[2] \in Nat \ {0, 1}
             /\ \E i \in 1 .. n - 1 : (lambda * i) % n = 1
             /\ \A u \in Units(n) : PowMod(u, n * lambda, n * n) = 1

\* The exact quotient for x congruent to 1; otherwise rounded towards zero.
L(x, n) == IF x = 0 THEN 0 ELSE (x - 1) \div n

(***************************************************************************)
(* Keys.                                                                   *)
(***************************************************************************)

\* Mutant: the masks do not cancel.
keyGenEqualMasks(p, q, e_m, r_m) ==
    LET n == p * q
        lambda == Lcm(p - 1, q - 1)
    IN  [n |-> n, lambda |-> lambda,
         mu |-> InverseMod(L(PowMod(n + 1, lambda, n * n), n), n),
         e_m |-> e_m % n, d_m |-> e_m % n, r_m |-> r_m]

keyGen(p, q, e_m, r_m) ==
    LET n == p * q
        lambda == Lcm(p - 1, q - 1)
    IN  [n |-> n, lambda |-> lambda,
         mu |-> InverseMod(L(PowMod(n + 1, lambda, n * n), n), n),
         e_m |-> e_m % n, d_m |-> n - (e_m % n), r_m |-> r_m]

Keys == {keyGen(pq[1], pq[2], e, r) :
            pq \in Primes, e \in Masks, r \in Scalars}

\* A client's Heps has a usable key: the file is there and complete.
loadState == file # NoKey

\* What a broker keeps of a key.
Public(k) == [n |-> k.n, mu |-> k.mu]

\* blindNotification: r_rand is below r_m, and 1 where 0 was drawn.
Spreads(r_m) == {IF r = 0 THEN 1 ELSE r : r \in 0 .. r_m - 1}

(***************************************************************************)
(* Blinding and comparing.                                                 *)
(***************************************************************************)

encrypt(k, m, r) ==
    (((1 + m * k.n) % (k.n * k.n)) * PowMod(r, k.n, k.n * k.n)) % (k.n * k.n)

blindNotification(k, x, r) ==
    LET square == k.n * k.n
    IN  (PowMod(k.n + 1, k.e_m, square)
           * PowMod(k.n + 1, (k.r_m * x + r) * k.lambda, square)) % square

\* Paillier::blindSubscription of the encrypted -v.
blindCipher(k, c) ==
    LET square == k.n * k.n
    IN  (PowMod(k.n + 1, k.d_m, square)
           * PowMod(c, k.r_m * k.lambda, square)) % square

\* Heps::blindSubscription: the bounds v and v + 1.
blindSubscription(k, v, r1, r2) ==
    [m1 |-> blindCipher(k, encrypt(k, (k.n - v) % k.n, r1)),
     m2 |-> blindCipher(k, encrypt(k, (k.n - (v + 1)) % k.n, r2))]

\* The difference a broker recovers from two blinded values.
Recovered(b, bval_n, bval_m) ==
    (L((bval_n * bval_m) % (b.n * b.n), b.n) * b.mu) % b.n

\* Mutant: only x >= v is tested.
ThresholdOnce(n, diff1, diff2) == diff1 < n \div 2

\* The two threshold tests on the recovered differences.
Threshold(n, diff1, diff2) == diff1 < n \div 2 /\ diff2 > n \div 2

executeMatch(b, bval_n, m1, m2) ==
    Threshold(b.n, Recovered(b, bval_n, m1), Recovered(b, bval_n, m2))

\* What is recovered when one key blinds both sides: the difference of the
\* names, stretched by r_m and spread by r.
Difference(n, r_m, r, x, v) == (r_m * (x - v) + r) % n

(***************************************************************************)
(* The way of keys and values.                                             *)
(***************************************************************************)

Init ==
    /\ file = NoKey /\ matcher = NoKey
    /\ sub = NoSub /\ pub = NoPub /\ verdict = FALSE
    /\ runs = 0

GroupGone == sub' = NoSub /\ pub' = NoPub /\ verdict' = FALSE

\* A root starts and replaces the key files. The broker that compares is that
\* root, or a leaf that keeps what it has; which of the two is left open, so
\* that every mix of keys is reached.
RootRun(k) ==
    /\ runs < MaxRuns
    /\ runs' = runs + 1
    /\ file' = k
    /\ \/ matcher' = Public(k) /\ GroupGone
       \/ UNCHANGED <<matcher, sub, pub, verdict>>

\* The broker that compares is a leaf that starts.
LeafRun ==
    /\ file # NoKey
    /\ matcher' = Public(file) /\ GroupGone
    /\ UNCHANGED <<file, runs>>

\* A client blinds a subscription; it becomes the group's first.
Subscribe(v, r1, r2) ==
    /\ loadState /\ matcher # NoKey /\ sub = NoSub
    /\ {r1, r2} \subseteq Units(file.n)
    /\ LET b == blindSubscription(file, v, r1, r2)
       IN  sub' = [v |-> v, key |-> file, m1 |-> b.m1, m2 |-> b.m2]
    /\ UNCHANGED <<file, matcher, pub, verdict, runs>>

\* A publisher blinds a publication; the broker compares it with the group.
Publish(x, r) ==
    /\ loadState /\ sub # NoSub
    /\ r \in Spreads(file.r_m)
    /\ LET bval_n == blindNotification(file, x, r)
       IN  /\ pub' = [x |-> x, key |-> file, r |-> r, bval_n |-> bval_n]
           /\ verdict' = executeMatch(matcher, bval_n, sub.m1, sub.m2)
    /\ UNCHANGED <<file, matcher, sub, runs>>

GroupExpires ==
    /\ sub # NoSub
    /\ GroupGone
    /\ UNCHANGED <<file, matcher, runs>>

Next ==
    \/ \E k \in Keys : RootRun(k)
    \/ LeafRun
    \/ \E v \in Names, r1, r2 \in Nonces : Subscribe(v, r1, r2)
    \/ \E x \in Names, r \in UNION {Spreads(s) : s \in Scalars} : Publish(x, r)
    \/ GroupExpires

Spec == Init /\ [][Next]_vars

(***************************************************************************)
(* Properties.                                                             *)
(***************************************************************************)

\* Publisher, subscriber and broker are of one root run.
OneKey ==
    /\ sub # NoSub /\ pub # NoPub
    /\ sub.key = pub.key /\ matcher = Public(sub.key)

\* With one key, the broker recovers exactly the stretched and spread
\* difference of the names, from either bound: the masks cancel, encrypt's
\* randomness disappears and the division in executeMatch is exact (the
\* lemma of the matching protocol in main_fixed.tex, on the code's own steps).
DifferenceExact ==
    OneKey =>
      LET n == matcher.n
          k == sub.key
      IN  /\ Recovered(matcher, pub.bval_n, sub.m1)
               = Difference(n, k.r_m, pub.r, pub.x, sub.v)
          /\ Recovered(matcher, pub.bval_n, sub.m2)
               = Difference(n, k.r_m, pub.r, pub.x, sub.v + 1)

\* With one key, executeMatch says yes exactly for equal names, although it
\* sees neither: what the broker's model takes executeMatch for.
VerdictIsEquality == OneKey => (verdict <=> pub.x = sub.v)
=============================================================================
