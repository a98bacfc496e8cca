-------------------------------- MODULE Geo --------------------------------
(***************************************************************************)
(* The geographic helpers of src/utils/geo.h and the hemisphere split of   *)
(* the brake (getQuadrant).  Coordinates are whole degrees; a distance is  *)
(* the SQUARE of the code's, scaled by 10^4, because the code only ever    *)
(* compares distances and squaring keeps their order.  The cosine is       *)
(* Bhaskara's rational approximation in percent.                           *)
(***************************************************************************)
EXTENDS Integers

\* std::numeric_limits<double>::max(): larger than every distance.
DoubleMax == 2147483647

\* 100 * cos(s / 2), s in degrees and -180 <= s <= 180.
CosPct(s) == (400 * (32400 - s * s)) \div (129600 + s * s)

\* The equirectangular distance, squared and scaled.
GeoDistance(p, q) ==
    LET dlat == 100 * (p.lat - q.lat)
        dlon == (p.lon - q.lon) * CosPct(p.lat + q.lat)
    IN  dlat * dlat + dlon * dlon

Lower(a, b) == IF a <= b THEN a ELSE b
Higher(a, b) == IF a >= b THEN a ELSE b

Latitudes == -90 .. 90
Longitudes == -180 .. 180

\* The position of a broker, a client or a publication.
Points == [lat : Latitudes, lon : Longitudes]

RegionType == [min_lat : Latitudes, max_lat : Latitudes,
               min_lon : Longitudes, max_lon : Longitudes]

\* The bounding box of a single point.
RegionOf(p) ==
    [min_lat |-> p.lat, max_lat |-> p.lat, min_lon |-> p.lon, max_lon |-> p.lon]

Contains(r, p) ==
    /\ r.min_lat <= p.lat /\ p.lat <= r.max_lat
    /\ r.min_lon <= p.lon /\ p.lon <= r.max_lon

Merge(a, b) ==
    [min_lat |-> Lower(a.min_lat, b.min_lat),
     max_lat |-> Higher(a.max_lat, b.max_lat),
     min_lon |-> Lower(a.min_lon, b.min_lon),
     max_lon |-> Higher(a.max_lon, b.max_lon)]

\* The centre of quadrant q of r: 0 = SW, 1 = SE, 2 = NW, 3 = NE.  Exact when
\* the corners are multiples of four degrees.
QuadrantCenter(r, q) ==
    [lat |-> (IF q \in {2, 3} THEN r.min_lat + 3 * r.max_lat
                              ELSE 3 * r.min_lat + r.max_lat) \div 4,
     lon |-> (IF q \in {1, 3} THEN r.min_lon + 3 * r.max_lon
                              ELSE 3 * r.min_lon + r.max_lon) \div 4]

\* The quadrant of r a point falls into; a point on a midline goes north / east.
QuadrantOf(r, p) ==
    (IF 2 * p.lat >= r.min_lat + r.max_lat THEN 2 ELSE 0)
      + (IF 2 * p.lon >= r.min_lon + r.max_lon THEN 1 ELSE 0)

\* The brake's quadrant of the globe, by the signs of the coordinates.
Hemisphere(p) ==
    (IF p.lat >= 0 THEN 0 ELSE 2) + (IF p.lon >= 0 THEN 0 ELSE 1)

Quadrants == 0 .. 3
=============================================================================
