------------------------------ MODULE MCIngest ------------------------------
(* Small instance of Ingest: ten milliseconds a second, degrees from -9 to *)
(* 9 and -18 to 18, floats of eight bits; two fixes whose times come in    *)
(* every form, among locations that are none.                              *)
EXTENDS Ingest

None == [type |-> "null"]
Num(f) == [type |-> "number", value |-> f]
Str(f) == [type |-> "string", reads |-> "float", value |-> f]
Time(f) == [type |-> "string", reads |-> "time", value |-> f]
Text == [type |-> "string", reads |-> "text"]
Bool == [type |-> "other"]

Located(coordinates, ts, altitude, course, battery) ==
  [coordinates |-> coordinates, timestamp |-> ts, altitude |-> altitude,
   course |-> course, battery |-> battery]

(* A fix at instant t (in Sub) and its time in all the forms.              *)
Forms(t) == {Num(t), Str(t), Num(t * Sub), Str(t * Sub), Time(t)}

FixAt(t, lat, lon, battery) == [at |-> t, lat |-> lat, lon |-> lon, battery |-> battery]

North == {[fix |-> FixAt(203, 90, 5, n),
           feature |-> Located(<<Str(5), Num(90)>>, ts, Num(50), course, n)] :
            ts \in Forms(203), n \in {1, 7, 58}, course \in {Num(9999), Str(NegInf)}}

South == {[fix |-> FixAt(310, 0, -180, n),
           feature |-> Located(<<Num(-180), Str(0), Text>>, ts, altitude, Num(10000), n)] :
            ts \in Forms(310), n \in {Null, 100}, altitude \in {Str(NaN), Bool}}

High == {[fix |-> FixAt(310, 0, -180, n),
          feature |-> Located(<<Num(-180), Num(0)>>, Num(310), Str(PosInf), None, n)] :
           n \in {57, PosInf}}

(* Before 1970, in whole seconds.                                          *)
Early == {[fix |-> FixAt(-20, 90, 5, n),
           feature |-> Located(<<Num(5), Num(90)>>, ts, None, None, n)] :
            <<ts, n>> \in {<<Num(-20), 7>>, <<Str(-20), NaN>>, <<Time(-20), 7>>}}

Bad == {[fix |-> Null, feature |-> Located(c, t, None, None, 50)] :
          <<c, t>> \in { << <<>>, Num(203)>>, << <<Num(5)>>, Num(203)>>,
                         << <<Num(0), Num(0)>>, Num(203)>>, << <<Num(5), Num(91)>>, Num(203)>>,
                         << <<Num(-181), Num(5)>>, Num(203)>>, << <<Str(NaN), Num(5)>>, Num(203)>>,
                         << <<Num(5), Text>>, Num(203)>>, << <<Num(5), Num(5)>>, None>>,
                         << <<Num(5), Num(5)>>, Text>>, << <<Num(5), Num(5)>>, Bool>> }}

(* Timestamps no instant has.                                              *)
Timeless == {[fix |-> Null, feature |-> Located(<<Num(5), Num(5)>>, Str(f), None, None, Null)] :
               f \in {NaN, NegInf, 60000}}

Good == North \cup South

MCBodies ==
  {<<>>} \cup {<<l>> : l \in Good \cup High \cup Early \cup Bad \cup Timeless}
    \cup {<<b, l>> : b \in Bad,
                     l \in {g \in Good : /\ g.fix.battery \in {1, Null}
                                         /\ g.feature.altitude.type # "other"}}
    \cup {<<l, m>> : l \in North,
                     m \in {g \in North : /\ g.fix.battery = 7
                                          /\ g.feature.course.type = "number"}}

NoParameter == [type |-> "string", reads |-> ""]

MCBoxes ==
  [1..4 -> {NoParameter}] \cup
  {<<Str(a), Str(b), Str(-180), Str(5)>> : a \in {-90, NaN}, b \in {0, PosInf}} \cup
  {<<Str(-90), Str(0), Str(c), Str(d)>> :
     <<c, d>> \in {<<-180, 181>>, <<5, -180>>, <<NegInf, 5>>, <<-180, NaN>>}}
  \cup {<<Text, Str(0), Str(0), Str(0)>>, <<NoParameter, Str(0), Str(0), Str(0)>>}
=============================================================================
