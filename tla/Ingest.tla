------------------------------- MODULE Ingest -------------------------------
(***************************************************************************)
(* What the numbers, strings and times of a request become on their way    *)
(* through the server: FromGeoJSONLocations (internal/ingest/ingest.go),   *)
(* the row Upsert keeps for the point, and the answer listPoints encodes   *)
(* (internal/httpapi/points.go), with parseBBox.  Upsert and List are      *)
(* atomic here; PointStore and PointListing look into them.                *)
(*                                                                         *)
(* A finite float is a number of 1/Sub; an integer has width as far as     *)
(* conversions to it can leave it.  A JSON value has its type and, for a   *)
(* string, what strconv and time make of it.  Infinities and NaN only come *)
(* in strings, which strconv reads as such; JSON has no number for them.   *)
(***************************************************************************)
EXTENDS Integers, Sequences, FiniteSetsExt

CONSTANTS
  Sub,             \* fractions of a second, and of a degree; a second has as many ms
  MsAbove,         \* 1_000_000_000_000 in the code
  MaxInt,          \* the range of int64, with MinInt
  MaxLat, MaxLon,  \* 90 and 180 degrees in the code
  CourseLimit,     \* 1000 in the code
  Bits,            \* the precision of a float
  NaN, PosInf, NegInf,
  Null,            \* nothing stored, NULL
  Bodies,          \* the values of "locations" clients send
  Boxes            \* the values of the four parameters of a bounding box

VARIABLES
  rows,   \* key -> the other columns
  sent,   \* history: key -> the battery of the fix last sent for it
  reply   \* the answer to GET /points, until the next request

vars == <<rows, sent, reply>>

MinInt == -MaxInt - 1

Finite(f) == f \notin {NaN, PosInf, NegInf}

(* f < g as IEEE 754 has it: a NaN is not less than anything.              *)
Less(f, g) ==
  CASE f = NaN \/ g = NaN \/ f = g -> FALSE
    [] f = NegInf \/ g = PosInf -> TRUE
    [] f = PosInf \/ g = NegInf -> FALSE
    [] OTHER -> f < g

Truncated(a, b) == IF a < 0 THEN -((-a) \div b) ELSE a \div b

(* int64(f / by): out of range it is up to the machine, amd64 gives MinInt *)
(* and arm64 the nearest, or 0 for NaN.                                    *)
ToInt(f, by) ==
  IF f = NaN THEN {MinInt, 0}
  ELSE IF Less(MaxInt * Sub * by, f) THEN {MinInt, MaxInt}
  ELSE IF Less(f, MinInt * Sub * by) THEN {MinInt}
  ELSE {Truncated(f, Sub * by)}

-----------------------------------------------------------------------------
(* asFloat: the set of the float, or empty.                                *)
AsFloat(v) ==
  IF v.type = "number" \/ (v.type = "string" /\ v.reads = "float") THEN {v.value} ELSE {}

UnixAlwaysSeconds(f) == ToInt(f, 1)  \* mutant: milliseconds are not told apart

UnixFromFloat(f) == IF Less(MsAbove * Sub, f) THEN ToInt(f, Sub) ELSE ToInt(f, 1)

(* ParseTimestamp: what it may return, empty when not ok.  A time and a    *)
(* date in a string are floored, by Time.Unix.                             *)
ParseTimestamp(v) ==
  IF AsFloat(v) # {} THEN UNION {UnixFromFloat(f) : f \in AsFloat(v)}
  ELSE IF v.type = "string" /\ v.reads = "time" THEN {v.value \div Sub}
  ELSE {}

NullIsland(lat, lon) == lat = 0 /\ lon = 0

ValidCoord(lat, lon) ==
  /\ Finite(lat) /\ Finite(lon)
  /\ ~Less(lat, -MaxLat * Sub) /\ ~Less(MaxLat * Sub, lat)
  /\ ~Less(lon, -MaxLon * Sub) /\ ~Less(MaxLon * Sub, lon)

OptFloat(v) == IF AsFloat(v) = {} THEN Null ELSE CHOOSE f \in AsFloat(v) : TRUE

InColumn(f) == Less(f, CourseLimit * Sub) /\ Less(-CourseLimit * Sub, f)

ColumnSafeUnchecked(v) ==  \* mutant: without IsNaN and IsInf
  LET f == OptFloat(v) IN
  IF f = Null \/ ~(Less(f, CourseLimit * Sub) \/ f = NaN) THEN Null ELSE f

ColumnSafeDecimal(v) ==
  LET f == OptFloat(v) IN IF f = Null \/ ~Finite(f) \/ ~InColumn(f) THEN Null ELSE f

(* The float nearest to a / b > 0: m / 2^e with m of so many Bits.         *)
Nearest(a, b) ==
  LET e == CHOOSE e \in 0..(Bits + 7) : 2^(Bits - 1) * b <= a * 2^e /\ a * 2^e < 2^Bits * b
      m == (a * 2^e) \div b
      rest == 2 * ((a * 2^e) % b)
  IN  [m |-> IF rest > b \/ (rest = b /\ m % 2 = 1) THEN m + 1 ELSE m, e |-> e]

(* batteryPercent of n hundredths: the level is rounded when it is read,   *)
(* its product with 100 again, and then truncated.                         *)
BatteryOfInt(n) ==  \* mutant: int(f) * 100
  IF n # Null /\ n >= 100 THEN (n \div 100) * 100 ELSE Null

PercentOf(n) ==
  IF n = Null \/ n <= 0 THEN Null
  ELSE LET level == Nearest(n, 100)
           product == Nearest(level.m * 100, 2^level.e)
           percent == product.m \div 2^product.e
       IN  IF percent <= 0 THEN Null ELSE percent

(* An infinity, which stands for the products no int64 holds too, and NaN  *)
(* are converted like every float out of range.                            *)
BatteryPercent(n) ==
  IF n \in {NaN, PosInf, NegInf}
  THEN {IF percent <= 0 THEN Null ELSE percent : percent \in ToInt(n, 1)}
  ELSE {PercentOf(n)}

(* geoJSONPoint: the points a location may become, none when it is         *)
(* dropped.  altitude stands for the accuracies and the speed too.         *)
GeoJSONPoint(m) ==
  IF Len(m.coordinates) < 2 THEN {}
  ELSE {[key |-> [ts |-> ts, lat |-> lat, lon |-> lon],
         altitude |-> OptFloat(m.altitude),
         course |-> ColumnSafeDecimal(m.course),
         battery |-> battery] :
          battery \in BatteryPercent(m.battery),
          lon \in AsFloat(m.coordinates[1]),
          lat \in {f \in AsFloat(m.coordinates[2]) :
                     \A g \in AsFloat(m.coordinates[1]) : ValidCoord(f, g) /\ ~NullIsland(f, g)},
          ts \in ParseTimestamp(m.timestamp)}

(* FromGeoJSONLocations: what is dropped leaves the others alone.  A point *)
(* has the number of its location.                                         *)
Kept(locations) == {i \in DOMAIN locations : GeoJSONPoint(locations[i].feature) # {}}

FromGeoJSONLocations(locations) ==
  LET points(i) == GeoJSONPoint(locations[i].feature)
  IN  {s \in [Kept(locations) -> UNION {points(i) : i \in Kept(locations)}] :
         \A i \in Kept(locations) : s[i] \in points(i)}

-----------------------------------------------------------------------------
(* What clients send: JSON values, with the dates in strings in 1/Sub s,   *)
(* and the features made of them.                                          *)
Float == Int \cup {NaN, PosInf, NegInf}

Value ==
  [type : {"null", "other"}]
    \cup [type : {"number"}, value : Int]
    \cup [type : {"string"}, reads : {"float"}, value : Float]
    \cup [type : {"string"}, reads : {"time"}, value : (MinInt * Sub)..(MaxInt * Sub - 1)]
    \cup [type : {"string"}, reads : {"text", ""}]

(* A battery level is in hundredths.                                       *)
Level == Float \cup {Null}

Feature == [coordinates : Seq(Value), timestamp : Value, altitude : Value, course : Value,
            battery : Level]

(* A location comes with the fix it reports, or Null if it reports none.   *)
Latitudes == (-MaxLat * Sub)..(MaxLat * Sub)
Longitudes == (-MaxLon * Sub)..(MaxLon * Sub)

Fix == [at : (MinInt * Sub)..(MaxInt * Sub - 1), lat : Latitudes, lon : Longitudes,
        battery : Level]

KeyOf(fix) == [ts |-> fix.at \div Sub, lat |-> fix.lat, lon |-> fix.lon]

(* The timestamp of instant t is a number of seconds, of milliseconds, or  *)
(* a date.  Numbers above MsAbove are milliseconds, the others seconds,    *)
(* which before 1970 have no fraction.                                     *)
Reports(v, t) ==
  \/ AsFloat(v) = {t} /\ t <= MsAbove * Sub /\ (t < 0 => t % Sub = 0)
  \/ \E f \in AsFloat(v) : f \in Int /\ f > MsAbove * Sub /\ f \div Sub = t
  \/ AsFloat(v) = {} /\ v.type = "string" /\ v.reads = "time" /\ v.value = t

IsFix(l) ==
  LET c == l.feature.coordinates IN
  /\ l.fix # Null /\ ~NullIsland(l.fix.lat, l.fix.lon)
  /\ Len(c) >= 2 /\ AsFloat(c[1]) = {l.fix.lon} /\ AsFloat(c[2]) = {l.fix.lat}
  /\ Reports(l.feature.timestamp, l.fix.at)
  /\ l.feature.battery = l.fix.battery

(* No fix: without coordinates on the globe, or without an instant, be it  *)
(* that no integer of the width holds it.                                  *)
IsNone(l) ==
  LET c == l.feature.coordinates
      v == l.feature.timestamp
  IN  /\ l.fix = Null
      /\ \/ Len(c) < 2
         \/ AsFloat(c[1]) = {} \/ AsFloat(c[2]) = {}
         \/ \E lon \in AsFloat(c[1]), lat \in AsFloat(c[2]) :
              lat \notin Latitudes \/ lon \notin Longitudes \/ NullIsland(lat, lon)
         \/ AsFloat(v) = {} /\ ~(v.type = "string" /\ v.reads = "time")
         \/ \E f \in AsFloat(v) : f \notin (MinInt * Sub)..(MaxInt * Sub * Sub)

(* A level has fewer hundredths than the precision of a float could tell.  *)
LevelFits(n) == n \in Int => n < 2^(Bits - 1)

ASSUME IngestAssumption ==
  /\ Sub \in Nat \ {0} /\ CourseLimit \in Nat \ {0} /\ MaxLat \in Nat /\ MaxLon \in Nat
  /\ MsAbove \in Nat /\ MaxInt \in Nat /\ MsAbove <= MaxInt /\ Bits \in Nat \ {0}
  /\ \A f \in {NaN, PosInf, NegInf, Null} : f \notin Int
  /\ NaN \notin {PosInf, NegInf, Null} /\ PosInf \notin {NegInf, Null} /\ NegInf # Null
  /\ Bodies \subseteq Seq([feature : Feature, fix : Fix \cup {Null}])
  /\ \A locations \in Bodies : \A i \in DOMAIN locations :
       \/ IsFix(locations[i]) /\ LevelFits(locations[i].fix.battery)
       \/ IsNone(locations[i])
  /\ Boxes \subseteq [1..4 -> {v \in Value : v.type = "string"}]

-----------------------------------------------------------------------------
(* SQLite stores a NaN as NULL.                                            *)
Column(f) == IF f = NaN THEN Null ELSE f

Stored(p) == [altitude |-> Column(p.altitude), course |-> Column(p.course), battery |-> p.battery]

(* Upsert: the last point of a key is the one that stays.                  *)
Upsert(points) ==
  [k \in DOMAIN rows \cup {points[i].key : i \in DOMAIN points} |->
     LET mine == {i \in DOMAIN points : points[i].key = k}
     IN  IF mine = {} THEN rows[k] ELSE Stored(points[Max(mine)])]

-----------------------------------------------------------------------------
(* parseBBox: four strings, "" when a parameter is missing.                *)
ParseBBoxUnchecked(b) ==  \* mutant: without finite
  IF \E i \in 1..4 : b[i].reads # "float" THEN {}
  ELSE LET v == [i \in 1..4 |-> b[i].value] IN
       IF Less(v[2], v[1]) \/ Less(v[4], v[3]) THEN {}
       ELSE IF \/ Less(v[1], -MaxLat * Sub) \/ Less(MaxLat * Sub, v[2])
               \/ Less(v[3], -MaxLon * Sub) \/ Less(MaxLon * Sub, v[4]) THEN {}
       ELSE {[minLat |-> v[1], maxLat |-> v[2], minLon |-> v[3], maxLon |-> v[4]]}

ParseBBox(b) ==
  IF \E i \in 1..4 : b[i].reads # "float" THEN {}
  ELSE LET v == [i \in 1..4 |-> b[i].value] IN
       IF \E i \in 1..4 : ~Finite(v[i]) THEN {}
       ELSE IF Less(v[2], v[1]) \/ Less(v[4], v[3]) THEN {}
       ELSE IF \/ Less(v[1], -MaxLat * Sub) \/ Less(MaxLat * Sub, v[2])
               \/ Less(v[3], -MaxLon * Sub) \/ Less(MaxLon * Sub, v[4]) THEN {}
       ELSE {[minLat |-> v[1], maxLat |-> v[2], minLon |-> v[3], maxLon |-> v[4]]}

NoBox(b) == \A i \in 1..4 : b[i].reads = ""

Inside(k, box) ==
  /\ ~Less(k.lat, box.minLat) /\ ~Less(box.maxLat, k.lat)
  /\ ~Less(k.lon, box.minLon) /\ ~Less(box.maxLon, k.lon)

(* writeJSON sends the status, then encodes: an infinity has no encoding,  *)
(* and the body stays empty.                                               *)
Encodes(keys) == \A k \in keys : \A f \in {rows[k].altitude, rows[k].course} : f = Null \/ Finite(f)

-----------------------------------------------------------------------------
NoReply == [status |-> 0]

Init ==
  /\ rows = <<>>
  /\ sent = <<>>
  /\ reply = NoReply

CreatePoints ==
  /\ \E locations \in Bodies :
       LET fixes == {i \in DOMAIN locations : locations[i].fix # Null}
           of(k) == {i \in fixes : KeyOf(locations[i].fix) = k}
       IN  /\ \E points \in FromGeoJSONLocations(locations) : rows' = Upsert(points)
           /\ sent' = [k \in DOMAIN sent \cup {KeyOf(locations[i].fix) : i \in fixes} |->
                         IF of(k) = {} THEN sent[k] ELSE locations[Max(of(k))].fix.battery]
  /\ reply' = NoReply

(* listPoints without its window of time and its paging, which are in      *)
(* PointListing.                                                           *)
ListPoints ==
  /\ \E b \in Boxes :
       IF NoBox(b) THEN reply' = [status |-> 200, box |-> Null, keys |-> DOMAIN rows,
                                  body |-> Encodes(DOMAIN rows)]
       ELSE IF ParseBBox(b) = {} THEN reply' = [status |-> 400]
       ELSE \E box \in ParseBBox(b) :
              LET keys == {k \in DOMAIN rows : Inside(k, box)} IN
              reply' = [status |-> 200, box |-> box, keys |-> keys, body |-> Encodes(keys)]
  /\ UNCHANGED <<rows, sent>>

Next == CreatePoints \/ ListPoints

Spec == Init /\ [][Next]_vars

-----------------------------------------------------------------------------
(* Types: what is stored is within the bounds its column and the app       *)
(* expect, whatever was sent; only an altitude can be infinite.            *)
TypeOK ==
  \A k \in DOMAIN rows :
    /\ k.ts \in MinInt..MaxInt
    /\ k.lat \in Latitudes /\ k.lon \in Longitudes
    /\ rows[k].altitude # NaN
    /\ rows[k].course = Null \/ rows[k].course \in (-CourseLimit * Sub + 1)..(CourseLimit * Sub - 1)
    /\ rows[k].battery = Null \/ ~(rows[k].battery <= 0)

(* One fix is one row, whether its time came in seconds, in milliseconds,  *)
(* as a string of either, or in RFC 3339: sent again in another form it is *)
(* the same upsert key, so a retry stores no second point.  The others of  *)
(* a batch are stored whatever bad ones are among them.  A bad one is only *)
(* stored if its timestamp is a number that is no instant, at an end of    *)
(* int64 or at 0, where the conversion puts it.                            *)
NoInstant == {MinInt, 0, MaxInt}

OneRowPerFix ==
  /\ DOMAIN sent \subseteq DOMAIN rows
  /\ \A k \in DOMAIN rows \ DOMAIN sent : k.ts \in NoInstant

(* The battery level stored is the one sent, or one percent less, where    *)
(* the product with 100 has come out just below; never more, and lost only *)
(* when it would be zero.  What is no level, NaN or negative, is stored as *)
(* none; one that is infinite may come out as MaxInt percent.  Where       *)
(* numbers that are no instant are stored, one of them may have replaced   *)
(* the fix.                                                                *)
BatteryNear ==
  \A k \in {j \in DOMAIN rows \cap DOMAIN sent : j.ts \notin NoInstant} :
    LET stored == rows[k].battery
        level == sent[k]
    IN  IF level \notin Int THEN stored = Null \/ (level = PosInf /\ stored = MaxInt)
        ELSE IF stored = Null THEN level <= 1
        ELSE stored \in {level - 1, level}

(* A list answered with 200 for a box is for one of finite, ordered bounds *)
(* inside the globe, so that a request with a NaN, which compares false    *)
(* with everything, does not pass for an empty map.  Its body is missing   *)
(* only because of a point whose altitude was sent as an infinity: no      *)
(* other number that is stored fails to encode once 200 has been sent.     *)
ReplyUsable ==
  reply.status = 200 =>
    /\ reply.box # Null =>
         /\ {reply.box.minLat, reply.box.maxLat} \subseteq Latitudes
         /\ {reply.box.minLon, reply.box.maxLon} \subseteq Longitudes
         /\ reply.box.minLat <= reply.box.maxLat /\ reply.box.minLon <= reply.box.maxLon
    /\ ~reply.body => \E k \in reply.keys : rows[k].altitude \in {PosInf, NegInf}
=============================================================================
