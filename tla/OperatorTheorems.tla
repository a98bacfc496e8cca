-------------------------- MODULE OperatorTheorems --------------------------
(***************************************************************************)
(* What the pure operators of the broker return, for every input: the      *)
(* geographic helpers of module Geo, and the sliding window of the brake   *)
(* of module BrakeWindow, for every limit, length and history.             *)
(***************************************************************************)
EXTENDS Geo, BrakeWindow, SequenceTheorems, WellFoundedInduction, TLAPS

-----------------------------------------------------------------------------
\* Geography.

\* A square is a natural number.
LEMMA SquareNat == ASSUME NEW x \in Int PROVE x * x \in Nat
OBVIOUS

\* The cosine factor is an integer.
LEMMA CosPctInt == ASSUME NEW s \in Int PROVE CosPct(s) \in Int
<1>1. s * s \in Nat
  BY SquareNat
<1>2. 129600 + s * s \in Int /\ 129600 + s * s > 0
  BY <1>1
<1>3. 400 * (32400 - s * s) \in Int
  BY <1>1
<1> QED
  BY <1>2, <1>3 DEF CosPct

\* Distances are natural numbers, so the initial cached_closest_dist and every
\* later one can be compared (geoDistance).
LEMMA GeoDistanceNat ==
  ASSUME NEW p \in Points, NEW q \in Points
  PROVE  GeoDistance(p, q) \in Nat
<1> DEFINE dlat == 100 * (p.lat - q.lat)
           dlon == (p.lon - q.lon) * CosPct(p.lat + q.lat)
<1>1. /\ p.lat \in Int /\ q.lat \in Int /\ p.lon \in Int /\ q.lon \in Int
  BY DEF Points, Latitudes, Longitudes
<1>2. CosPct(p.lat + q.lat) \in Int
  BY <1>1, CosPctInt
<1>3. dlat \in Int
  BY <1>1
<1>4. dlon \in Int
  <2> DEFINE c == CosPct(p.lat + q.lat)
  <2> HIDE DEF c
  <2>1. (p.lon - q.lon) * c \in Int
    BY <1>1, <1>2 DEF c
  <2> QED
    BY <2>1 DEF c
<1>5. GeoDistance(p, q) = dlat * dlat + dlon * dlon
  BY DEF GeoDistance
<1> HIDE DEF dlat, dlon
<1>6. dlat * dlat \in Nat /\ dlon * dlon \in Nat
  BY <1>3, <1>4, SquareNat
<1> QED
  BY <1>5, <1>6

\* A product with a natural number keeps the order.
LEMMA ScaledOrder ==
  ASSUME NEW x \in Int, NEW y \in Int, x <= y, NEW n \in Nat
  PROVE  x * n <= y * n
OBVIOUS

\* A square is at most the square of a bound.
LEMMA SquareBound ==
  ASSUME NEW n \in Nat, NEW x \in Int, -n <= x, x <= n
  PROVE  x * x <= n * n
<1>1. CASE x >= 0
  BY <1>1
<1>2. CASE x < 0
  BY <1>2
<1> QED BY <1>1, <1>2

\* A cosine of at most 90 degrees lies between 0 and 100 percent.
LEMMA CosPctBounds ==
  ASSUME NEW s \in Int, -180 <= s, s <= 180
  PROVE  0 <= CosPct(s) /\ CosPct(s) <= 100
<1>1. PICK sq \in Nat : sq = s * s
  BY SquareNat
<1>2. sq <= 32400
  BY <1>1, SquareBound, 180 * 180 = 32400
<1>3. PICK k \in Nat : k = 400 * (32400 - sq)
  BY <1>2
<1>4. PICK d \in Nat \ {0} : d = 129600 + sq
  OBVIOUS
<1>5. k <= 100 * d
  BY <1>3, <1>4
<1>6. 0 <= k \div d /\ k \div d <= 100
  BY <1>5
<1> QED BY <1>1, <1>3, <1>4, <1>6 DEF CosPct

\* The sum and the difference of two latitudes, the difference of two longitudes.
LEMMA LatitudeSums ==
  ASSUME NEW x \in Latitudes, NEW y \in Latitudes
  PROVE  /\ x + y \in Int /\ -180 <= x + y /\ x + y <= 180
         /\ 100 * (x - y) \in Int
         /\ -18000 <= 100 * (x - y) /\ 100 * (x - y) <= 18000
BY DEF Latitudes
LEMMA LongitudeDifference ==
  ASSUME NEW x \in Longitudes, NEW y \in Longitudes
  PROVE  x - y \in Int /\ -360 <= x - y /\ x - y <= 360
BY DEF Longitudes

\* Every distance is less than std::numeric_limits<double>::max(), so whatever
\* is offered first to a new subscriber or child is nearer than nothing.
LEMMA GeoDistanceBound ==
  ASSUME NEW p \in Points, NEW q \in Points
  PROVE  GeoDistance(p, q) < DoubleMax
<1>1. /\ p.lat \in Latitudes /\ q.lat \in Latitudes
      /\ p.lon \in Longitudes /\ q.lon \in Longitudes
  BY DEF Points
<1>2. /\ CosPct(p.lat + q.lat) \in Int
      /\ 0 <= CosPct(p.lat + q.lat) /\ CosPct(p.lat + q.lat) <= 100
  BY <1>1, LatitudeSums, CosPctInt, CosPctBounds
<1>3. PICK c \in Int : c = CosPct(p.lat + q.lat) /\ 0 <= c /\ c <= 100
  BY <1>2
<1>4. PICK south \in Int :
        south = 100 * (p.lat - q.lat) /\ -18000 <= south /\ south <= 18000
  <2>1. /\ 100 * (p.lat - q.lat) \in Int
        /\ -18000 <= 100 * (p.lat - q.lat) /\ 100 * (p.lat - q.lat) <= 18000
    BY <1>1, LatitudeSums
  <2> QED BY <2>1
<1>5. PICK across \in Int : across = p.lon - q.lon /\ -360 <= across /\ across <= 360
  <2>1. /\ p.lon - q.lon \in Int
        /\ -360 <= p.lon - q.lon /\ p.lon - q.lon <= 360
    BY <1>1, LongitudeDifference
  <2> QED BY <2>1
<1>6. PICK east \in Int : east = across * c
  OBVIOUS
<1>7. -36000 <= east /\ east <= 36000
  <2>1. (-360) * c <= across * c /\ across * c <= 360 * c
    BY <1>3, <1>5, ScaledOrder
  <2> QED BY <1>3, <1>6, <2>1
<1>8. south * south <= 18000 * 18000 /\ east * east <= 36000 * 36000
  <2>1. south * south <= 18000 * 18000
    BY <1>4, SquareBound
  <2>2. east * east <= 36000 * 36000
    BY <1>7, SquareBound
  <2> QED BY <2>1, <2>2
<1>9. south * south + east * east < DoubleMax
  <2>1. PICK u \in Int : u = south * south
    OBVIOUS
  <2>2. PICK w \in Int : w = east * east
    OBVIOUS
  <2>3. u + w < DoubleMax
    BY <1>8, <2>1, <2>2 DEF DoubleMax
  <2> QED BY <2>1, <2>2, <2>3
<1>10. GeoDistance(p, q) = south * south + east * east
  BY <1>3, <1>4, <1>5, <1>6 DEF GeoDistance
<1> QED BY <1>9, <1>10

\* The distance between two places does not depend on which of them asks: what
\* a query computes (subscriber, publication) and what a push computes
\* (publication, subscriber) may be compared with one another.
THEOREM GeoDistanceSymmetric ==
  ASSUME NEW p \in Points, NEW q \in Points
  PROVE  GeoDistance(p, q) = GeoDistance(q, p)
<1>1. /\ p.lat \in Int /\ q.lat \in Int /\ p.lon \in Int /\ q.lon \in Int
  BY DEF Points, Latitudes, Longitudes
<1> DEFINE c == CosPct(p.lat + q.lat)
           dlon == (p.lon - q.lon) * c
           dlat == 100 * (p.lat - q.lat)
<1>2. c \in Int
  BY <1>1, CosPctInt
<1>3. c = CosPct(q.lat + p.lat)
  <2>1. p.lat + q.lat = q.lat + p.lat
    BY <1>1
  <2> QED
    BY <2>1
<1>4. /\ GeoDistance(p, q) = dlat * dlat + dlon * dlon
      /\ GeoDistance(q, p) = (100 * (q.lat - p.lat)) * (100 * (q.lat - p.lat))
                               + ((q.lon - p.lon) * c) * ((q.lon - p.lon) * c)
  BY <1>3 DEF GeoDistance
<1> HIDE DEF c
<1>5. /\ (q.lon - p.lon) * c = -dlon /\ dlon \in Int
      /\ 100 * (q.lat - p.lat) = -dlat /\ dlat \in Int
  BY <1>1, <1>2
<1> HIDE DEF dlat, dlon
<1>6. (-dlon) * (-dlon) = dlon * dlon /\ (-dlat) * (-dlat) = dlat * dlat
  BY <1>5
<1> QED
  BY <1>4, <1>5, <1>6

\* The box of one point is a region.
LEMMA RegionOfType == ASSUME NEW p \in Points PROVE RegionOf(p) \in RegionType
BY DEF RegionOf, Points, RegionType

\* Merging two regions gives a region (Region::merge).
LEMMA MergeType ==
  ASSUME NEW a \in RegionType, NEW b \in RegionType
  PROVE  Merge(a, b) \in RegionType
BY DEF Merge, RegionType, Lower, Higher, Latitudes, Longitudes

\* Merging loses nothing: a subscriber or child covered by either region is
\* covered by the merged one (Region::merge, Region::contains).
THEOREM MergeCovers ==
  ASSUME NEW a \in RegionType, NEW b \in RegionType, NEW p \in Points,
         Contains(a, p) \/ Contains(b, p)
  PROVE  Contains(Merge(a, b), p)
<1>1. /\ a.min_lat \in Int /\ a.max_lat \in Int /\ a.min_lon \in Int /\ a.max_lon \in Int
      /\ b.min_lat \in Int /\ b.max_lat \in Int /\ b.min_lon \in Int /\ b.max_lon \in Int
      /\ p.lat \in Int /\ p.lon \in Int
  <2>1. \A r \in RegionType : /\ r.min_lat \in Int /\ r.max_lat \in Int
                             /\ r.min_lon \in Int /\ r.max_lon \in Int
    BY DEF RegionType, Latitudes, Longitudes
  <2>2. p.lat \in Int /\ p.lon \in Int
    BY DEF Points, Latitudes, Longitudes
  <2> QED BY <2>1, <2>2
<1>2. \A x, y, z \in Int : /\ x <= z \/ y <= z => Lower(x, y) <= z
                           /\ z <= x \/ z <= y => z <= Higher(x, y)
  BY DEF Lower, Higher
<1>3. /\ Merge(a, b).min_lat = Lower(a.min_lat, b.min_lat)
      /\ Merge(a, b).max_lat = Higher(a.max_lat, b.max_lat)
      /\ Merge(a, b).min_lon = Lower(a.min_lon, b.min_lon)
      /\ Merge(a, b).max_lon = Higher(a.max_lon, b.max_lon)
  BY DEF Merge
<1>4. /\ a.min_lat <= p.lat \/ b.min_lat <= p.lat
      /\ p.lat <= a.max_lat \/ p.lat <= b.max_lat
      /\ a.min_lon <= p.lon \/ b.min_lon <= p.lon
      /\ p.lon <= a.max_lon \/ p.lon <= b.max_lon
  BY DEF Contains
<1>5. /\ Lower(a.min_lat, b.min_lat) <= p.lat
      /\ p.lat <= Higher(a.max_lat, b.max_lat)
      /\ Lower(a.min_lon, b.min_lon) <= p.lon
      /\ p.lon <= Higher(a.max_lon, b.max_lon)
  BY <1>1, <1>2, <1>4
<1> QED
  BY <1>3, <1>5 DEF Contains

\* A merge with the box of a point covers the point, so after a SUBSCRIBE the
\* leaf's own region covers the subscriber.
COROLLARY MergeCoversPoint ==
  ASSUME NEW a \in RegionType, NEW p \in Points
  PROVE  Contains(Merge(a, RegionOf(p)), p)
<1>1. Contains(RegionOf(p), p)
  BY DEF Contains, RegionOf, Points, Latitudes, Longitudes
<1> QED
  BY <1>1, RegionOfType, MergeCovers

\* Every point falls into one of the four quadrants of a region.
LEMMA QuadrantOfType ==
  ASSUME NEW r \in RegionType, NEW p \in Points
  PROVE  QuadrantOf(r, p) \in Quadrants
<1>1. /\ r.min_lat \in Int /\ r.max_lat \in Int
      /\ r.min_lon \in Int /\ r.max_lon \in Int
      /\ p.lat \in Int /\ p.lon \in Int
  BY DEF RegionType, Points, Latitudes, Longitudes
<1> QED
  BY <1>1 DEF QuadrantOf, Quadrants

\* The brake has a window for every point on the globe.
LEMMA HemisphereType ==
  ASSUME NEW p \in Points PROVE Hemisphere(p) \in Quadrants
BY DEF Hemisphere, Quadrants, Points, Latitudes, Longitudes

\* The centre of a quadrant lies in its region, and is a point on the globe
\* (Region::quadrantCenters).
THEOREM QuadrantCenterInside ==
  ASSUME NEW r \in RegionType, NEW q \in Quadrants,
         r.min_lat <= r.max_lat, r.min_lon <= r.max_lon
  PROVE  Contains(r, QuadrantCenter(r, q))
<1>1. /\ r.min_lat \in Int /\ r.max_lat \in Int
      /\ r.min_lon \in Int /\ r.max_lon \in Int
  BY DEF RegionType, Latitudes, Longitudes
<1>2. \A x, y \in Int : x <= y =>
        /\ x <= (x + 3 * y) \div 4 /\ (x + 3 * y) \div 4 <= y
        /\ x <= (3 * x + y) \div 4 /\ (3 * x + y) \div 4 <= y
  OBVIOUS
<1> QED
  BY <1>1, <1>2 DEF QuadrantCenter, Contains

\* Whatever the corners of the region, its quadrant centres are on the globe.
LEMMA QuadrantCenterType ==
  ASSUME NEW r \in RegionType, NEW q \in Quadrants
  PROVE  QuadrantCenter(r, q) \in Points
<1>1. /\ r.min_lat \in Latitudes /\ r.max_lat \in Latitudes
      /\ r.min_lon \in Longitudes /\ r.max_lon \in Longitudes
  BY DEF RegionType
<1>2. \A x, y \in Latitudes : (x + 3 * y) \div 4 \in Latitudes
                              /\ (3 * x + y) \div 4 \in Latitudes
  BY DEF Latitudes
<1>3. \A x, y \in Longitudes : (x + 3 * y) \div 4 \in Longitudes
                               /\ (3 * x + y) \div 4 \in Longitudes
  BY DEF Longitudes
<1> QED
  BY <1>1, <1>2, <1>3 DEF QuadrantCenter, Points

-----------------------------------------------------------------------------
\* The window of the brake.

Less == {ss \in Nat \X Nat : ss[1] < ss[2]}

\* The order of the naturals is well-founded.
LEMMA LessWellFounded == IsWellFoundedOn(Less, Nat)
<1>1. Less = OpToRel(<, Nat)
  BY DEF Less, OpToRel
<1> QED
  BY <1>1, NatLessThanWellFounded

\* A nonempty set of natural numbers has a least element.
LEMMA LeastElement ==
  ASSUME NEW T \in SUBSET Nat, T # {}
  PROVE  \E m \in T : \A n \in T : m <= n
<1>1. \A x, y \in Nat : <<y, x>> \in Less <=> y < x
  BY DEF Less
<1>2. PICK m \in T : \A n \in T : ~ (<<n, m>> \in Less)
  BY LessWellFounded, WFMin
<1>3. \A n \in T : m <= n
  <2> TAKE n \in T
  <2>1. m \in Nat /\ n \in Nat
    OBVIOUS
  <2>2. ~(n < m)
    BY <1>1, <1>2, <2>1
  <2> QED
    BY <2>1, <2>2
<1> QED
  BY <1>3

\* What brakeAllows leaves of a window is a suffix of it that starts at the
\* first entry still within the window, and nothing when there is none.
LEMMA DropStaleSuffix ==
  ASSUME NEW w \in Seq(Nat), NEW t \in Nat
  PROVE  \/ Fresh(w, t) = {} /\ DropStale(w, t) = << >>
         \/ \E first \in Fresh(w, t) :
              /\ \A j \in Fresh(w, t) : first <= j
              /\ DropStale(w, t) = SubSeq(w, first, Len(w))
<1>1. CASE Fresh(w, t) = {}
  BY <1>1 DEF DropStale
<1>2. CASE Fresh(w, t) # {}
  <2>1. Fresh(w, t) \in SUBSET Nat
    BY DEF Fresh
  <2>2. \E i \in Fresh(w, t) : \A j \in Fresh(w, t) : i <= j
    BY <1>2, <2>1, LeastElement
  <2> DEFINE first == CHOOSE i \in Fresh(w, t) : \A j \in Fresh(w, t) : i <= j
  <2>3. first \in Fresh(w, t) /\ \A j \in Fresh(w, t) : first <= j
    BY <2>2
  <2>4. DropStale(w, t) = SubSeq(w, first, Len(w))
    BY <1>2 DEF DropStale
  <2> QED
    BY <2>3, <2>4
<1> QED
  BY <1>1, <1>2

\* Popping keeps a window a window and never makes it longer.
LEMMA DropStaleType ==
  ASSUME NEW w \in Seq(Nat), NEW t \in Nat
  PROVE  DropStale(w, t) \in Seq(Nat) /\ Len(DropStale(w, t)) <= Len(w)
<1>1. CASE DropStale(w, t) = << >>
  BY <1>1
<1>2. ASSUME NEW first \in Fresh(w, t), DropStale(w, t) = SubSeq(w, first, Len(w))
      PROVE  DropStale(w, t) \in Seq(Nat) /\ Len(DropStale(w, t)) <= Len(w)
  <2>1. first \in 1 .. Len(w)
    BY DEF Fresh
  <2>2. \A i \in first .. Len(w) : w[i] \in Nat
    BY <2>1
  <2> QED
    BY <1>2, <2>1, <2>2, SubSeqProperties
<1> QED
  BY <1>1, <1>2, DropStaleSuffix

\* A consultation leaves a window of times.
LEMMA ConsultedType ==
  ASSUME NEW w \in Seq(Nat), NEW t \in Nat
  PROVE  Consulted(w, t) \in Seq(Nat)
BY DropStaleType DEF Consulted

\* No consultation makes a window longer than brake_limit: a publication is let
\* through only while there is room for its own stamp (brakeAllows).
THEOREM ConsultedWithinLimit ==
  ASSUME NEW w \in Seq(Nat), NEW t \in Nat, Len(w) <= BrakeLimit
  PROVE  Len(Consulted(w, t)) <= BrakeLimit
<1> DEFINE d == DropStale(w, t)
<1>1. d \in Seq(Nat) /\ Len(d) <= Len(w)
  BY DropStaleType
<1>2. CASE Allows(w, t)
  <2>1. Len(d) < BrakeLimit /\ Consulted(w, t) = Append(d, t)
    BY <1>2 DEF Allows, Consulted
  <2>2. Len(Append(d, t)) = Len(d) + 1
    BY <1>1
  <2> HIDE DEF d
  <2> QED
    BY <1>1, <2>1, <2>2, BrakeAssumption
<1>3. CASE ~Allows(w, t)
  BY <1>1, <1>3, BrakeAssumption DEF Consulted
<1> QED
  BY <1>2, <1>3

\* In a window filled in the order of time, no entry older than brake_window
\* survives a consultation, so what is counted against brake_limit is exactly
\* what passed within the window.
THEOREM OnlyFreshEntriesCount ==
  ASSUME NEW w \in Seq(Nat), NEW t \in Nat,
         \A i, j \in 1 .. Len(w) : i <= j => w[i] <= w[j]
  PROVE  \A i \in 1 .. Len(DropStale(w, t)) :
            t - DropStale(w, t)[i] <= BrakeWindowSec
<1>1. CASE DropStale(w, t) = << >>
  BY <1>1
<1>2. ASSUME NEW first \in Fresh(w, t), DropStale(w, t) = SubSeq(w, first, Len(w))
      PROVE  \A i \in 1 .. Len(DropStale(w, t)) :
                t - DropStale(w, t)[i] <= BrakeWindowSec
  <2>1. first \in 1 .. Len(w) /\ t - w[first] <= BrakeWindowSec
    BY DEF Fresh
  <2>2. \A i \in first .. Len(w) : w[i] \in Nat
    BY <2>1
  <2> TAKE i \in 1 .. Len(DropStale(w, t))
  <2>3. /\ DropStale(w, t)[i] = w[first + i - 1]
        /\ first + i - 1 \in first .. Len(w)
    BY <1>2, <2>1, <2>2, SubSeqProperties
  <2>4. w[first] <= w[first + i - 1]
    BY <2>1, <2>3
  <2>5. PICK p, q \in Int : p = w[first] /\ q = w[first + i - 1]
    BY <2>1, <2>2, <2>3
  <2>6. t - p <= BrakeWindowSec /\ p <= q
    BY <2>1, <2>4, <2>5, Zenon
  <2>7. t - q <= BrakeWindowSec
    BY <2>6, BrakeAssumption
  <2> QED
    BY <2>3, <2>5, <2>7, Zenon
<1> QED
  BY <1>1, <1>2, DropStaleSuffix
=============================================================================
