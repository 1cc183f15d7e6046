------------------------ MODULE SystemView_proofs ------------------------
(***************************************************************************)
(* For buffers, packets, commands and interleavings of any kind: the       *)
(* types, the host's clock, that gaps are marked, that Start and Stop take *)
(* effect, that one command is handled at a time, and that each byte of    *)
(* the host is consumed once.                                              *)
(***************************************************************************)
EXTENDS SystemView, SequenceTheorems, TLAPS

-----------------------------------------------------------------------------
(* The work a context has left *)

Front == {"packet", "overflow", "claim", "take"}
Recording == {"rec", "send", "packet", "overflow"}
Locking == {"send", "packet", "overflow", "off"}
Reading == {"claim", "look", "take"}
Beginning == {"enable", "sync"}

(* What is under the lock, read for a handler or part of a Start has the   *)
(* unlock, the reset of the counter or the start event after it.           *)
Follows(y, x) ==
    /\ x.k \in Locking => y.k = "unlock"
    /\ x.k \in Reading => y.k = "release"
    /\ x.k \in Beginning => y.k = "rec" /\ y.es = <<"start">>

(* What a context is in the middle of stands in front, and it handles one  *)
(* command.                                                                *)
Shape(s) ==
    \A i \in 1..Len(s) :
        /\ s[i].k \in Front => i = 1
        /\ s[i].k \in Recording => s[i].es # <<>>
        /\ s[i].k \in Locking \cup Reading \cup Beginning =>
              \E j \in (i + 1)..Len(s) : Follows(s[j], s[i])
        /\ s[i].k = "release" => \A j \in 1..Len(s) : s[j].k = "release" => j = i

(* The steps p may take the place of the head of s.                       *)
Joins(p, s) ==
    \A i \in 1..Len(p) :
        /\ p[i].k \in Front => i = 1
        /\ p[i].k \in Recording => p[i].es # <<>>
        /\ p[i].k \in Locking \cup Reading \cup Beginning =>
              \/ \E j \in (i + 1)..Len(p) : Follows(p[j], p[i])
              \/ \E j \in 2..Len(s) : Follows(s[j], p[i])
        /\ p[i].k = "release" =>
              /\ \A j \in 1..Len(p) : p[j].k = "release" => j = i
              /\ \A j \in 2..Len(s) : s[j].k # "release"

LEMMA Replaced ==
    ASSUME NEW s \in Seq(Item), s # <<>>, NEW p \in Seq(Item)
    PROVE  /\ p \o Tail(s) \in Seq(Item)
           /\ Len(p) \in Nat /\ Len(s) \in Nat \ {0}
           /\ Len(p \o Tail(s)) = Len(p) + Len(s) - 1
           /\ \A i \in 1..Len(p) : (p \o Tail(s))[i] = p[i]
           /\ \A i \in 2..Len(s) : (p \o Tail(s))[Len(p) + i - 1] = s[i]
           /\ \A i \in (Len(p) + 1)..(Len(p) + Len(s) - 1) :
                 (p \o Tail(s))[i] = s[i - Len(p) + 1]
<1>1. /\ Tail(s) \in Seq(Item) /\ Len(Tail(s)) = Len(s) - 1 /\ Len(s) \in Nat \ {0}
      /\ \A i \in 1..(Len(s) - 1) : Tail(s)[i] = s[i + 1]
    BY HeadTailProperties, EmptySeq, LenProperties
<1>2. /\ p \o Tail(s) \in Seq(Item) /\ Len(p) \in Nat
      /\ Len(p \o Tail(s)) = Len(p) + Len(Tail(s))
      /\ \A i \in 1..(Len(p) + Len(Tail(s))) :
            (p \o Tail(s))[i] = IF i <= Len(p) THEN p[i] ELSE Tail(s)[i - Len(p)]
    BY <1>1, ConcatProperties, LenProperties
<1> QED BY <1>1, <1>2

LEMMA KeepsShape ==
    ASSUME NEW s \in Seq(Item), s # <<>>, NEW p \in Seq(Item), Shape(s), Joins(p, s)
    PROVE  Shape(p \o Tail(s))
<1> DEFINE t == p \o Tail(s)
<1>1. /\ t \in Seq(Item) /\ Len(t) = Len(p) + Len(s) - 1
      /\ \A i \in 1..Len(p) : t[i] = p[i]
      /\ \A i \in 2..Len(s) : t[Len(p) + i - 1] = s[i]
      /\ \A i \in (Len(p) + 1)..(Len(p) + Len(s) - 1) : t[i] = s[i - Len(p) + 1]
      /\ Len(p) \in Nat /\ Len(s) \in Nat \ {0}
    BY Replaced
<1> HIDE DEF t
<1> SUFFICES ASSUME NEW i \in 1..Len(t)
             PROVE  /\ t[i].k \in Front => i = 1
                    /\ t[i].k \in Recording => t[i].es # <<>>
                    /\ t[i].k \in Locking \cup Reading \cup Beginning =>
                          \E j \in (i + 1)..Len(t) : Follows(t[j], t[i])
                    /\ t[i].k = "release" =>
                          \A j \in 1..Len(t) : t[j].k = "release" => j = i
    BY DEF Shape, t
<1>2. CASE i \in 1..Len(p)
    <2>1. t[i] = p[i]
        BY <1>1, <1>2
    <2>2. \A j \in 2..Len(s) : Len(p) + j - 1 \in (i + 1)..Len(t) /\ t[Len(p) + j - 1] = s[j]
        BY <1>1, <1>2
    <2>3. \A j \in (i + 1)..Len(p) : j \in (i + 1)..Len(t) /\ t[j] = p[j]
        BY <1>1, <1>2
    <2>4. /\ p[i].k \in Front => i = 1
          /\ p[i].k \in Recording => p[i].es # <<>>
          /\ p[i].k \in Locking \cup Reading \cup Beginning =>
              \/ \E j \in (i + 1)..Len(p) : Follows(p[j], p[i])
              \/ \E j \in 2..Len(s) : Follows(s[j], p[i])
          /\ p[i].k = "release" =>
              /\ \A j \in 1..Len(p) : p[j].k = "release" => j = i
              /\ \A j \in 2..Len(s) : s[j].k # "release"
        BY <1>2 DEF Joins
    <2>5. ASSUME t[i].k \in Locking \cup Reading \cup Beginning
          PROVE  \E j \in (i + 1)..Len(t) : Follows(t[j], t[i])
        BY <2>1, <2>2, <2>3, <2>4, <2>5
    <2>6. ASSUME t[i].k = "release", NEW j \in 1..Len(t), t[j].k = "release"
          PROVE  j = i
        <3>1. CASE j \in 1..Len(p)
            BY <3>1, <2>1, <2>4, <2>6, <1>1
        <3>2. CASE j \in (Len(p) + 1)..(Len(p) + Len(s) - 1)
            <4>1. t[j] = s[j - Len(p) + 1] /\ j - Len(p) + 1 \in 2..Len(s)
                BY <3>2, <1>1
            <4>2. \A k \in 2..Len(s) : s[k].k # "release"
                BY <2>1, <2>4, <2>6
            <4> QED BY <4>1, <4>2, <2>6
        <3> QED BY <3>1, <3>2, <1>1
    <2> QED BY <2>1, <2>4, <2>5, <2>6
<1>3. CASE i \in (Len(p) + 1)..(Len(p) + Len(s) - 1)
    <2> DEFINE h == i - Len(p) + 1
    <2>1. t[i] = s[h] /\ h \in 2..Len(s) /\ h \in 1..Len(s)
        <3>1. t[i] = s[i - Len(p) + 1]
            BY <1>1, <1>3
        <3>2. h \in 2..Len(s) /\ h \in 1..Len(s)
            BY <1>1, <1>3
        <3> QED BY <3>1, <3>2
    <2>2. \A j \in (h + 1)..Len(s) : Len(p) + j - 1 \in (i + 1)..Len(t) /\ t[Len(p) + j - 1] = s[j]
        BY <1>1, <1>3
    <2>3. t[i].k \notin Front
        BY <2>1 DEF Shape
    <2>4. /\ s[h].k \in Recording => s[h].es # <<>>
          /\ s[h].k \in Locking \cup Reading \cup Beginning =>
                \E j \in (h + 1)..Len(s) : Follows(s[j], s[h])
          /\ s[h].k = "release" => \A j \in 1..Len(s) : s[j].k = "release" => j = h
        BY <2>1 DEF Shape
    <2>5. ASSUME t[i].k \in Locking \cup Reading \cup Beginning
          PROVE  \E j \in (i + 1)..Len(t) : Follows(t[j], t[i])
        <3> HIDE DEF h
        <3> QED BY <2>1, <2>2, <2>4, <2>5
    <2>6. ASSUME t[i].k = "release", NEW j \in 1..Len(t), t[j].k = "release"
          PROVE  j = i
        <3>1. CASE j \in 1..Len(p)
            BY <3>1, <2>1, <2>6, <1>1 DEF Joins
        <3>2. CASE j \in (Len(p) + 1)..(Len(p) + Len(s) - 1)
            <4>1. t[j] = s[j - Len(p) + 1] /\ j - Len(p) + 1 \in 1..Len(s)
                BY <3>2, <1>1
            <4>2. j - Len(p) + 1 = h
                BY <4>1, <2>1, <2>4, <2>6
            <4> QED BY <4>2, <1>1
        <3> QED BY <3>1, <3>2, <1>1
    <2> QED BY <2>1, <2>3, <2>4, <2>5, <2>6
<1> QED BY <1>1, <1>2, <1>3

(* What stands in front afterwards, if it is in the middle of something,   *)
(* is new; all else that is there was there or is new.                     *)
LEMMA NewHead ==
    ASSUME NEW s \in Seq(Item), s # <<>>, NEW p \in Seq(Item), Shape(s),
           p \o Tail(s) # <<>>, (p \o Tail(s))[1].k \in Front
    PROVE  p # <<>> /\ (p \o Tail(s))[1] = p[1]
<1>1. /\ Len(p \o Tail(s)) = Len(p) + Len(s) - 1
      /\ Len(p) \in Nat /\ Len(s) \in Nat \ {0}
      /\ p \o Tail(s) \in Seq(Item)
      /\ \A i \in 1..Len(p) : (p \o Tail(s))[i] = p[i]
      /\ \A i \in (Len(p) + 1)..(Len(p) + Len(s) - 1) :
                 (p \o Tail(s))[i] = s[i - Len(p) + 1]
    BY Replaced
<1>2. Len(p \o Tail(s)) # 0
    BY <1>1, EmptySeq
<1>3. CASE p = <<>>
    <2>1. Len(p) = 0
        BY <1>3
    <2>2. (p \o Tail(s))[1] = s[2] /\ 2 \in 1..Len(s)
        BY <1>1, <1>2, <2>1
    <2>3. s[2].k \notin Front
        BY <2>2 DEF Shape
    <2> QED BY <2>2, <2>3
<1>4. CASE p # <<>>
    <2>1. Len(p) # 0
        BY <1>4, EmptySeq
    <2> QED BY <1>1, <2>1, <1>4
<1> QED BY <1>3, <1>4

LEMMA ItemsAfter ==
    ASSUME NEW s \in Seq(Item), s # <<>>, NEW p \in Seq(Item)
    PROVE  /\ Items(p \o Tail(s)) = Items(p) \cup {s[i] : i \in 2..Len(s)}
           /\ Items(s) = {s[1]} \cup {s[i] : i \in 2..Len(s)}
<1>1. /\ Len(p \o Tail(s)) = Len(p) + Len(s) - 1
      /\ Len(p) \in Nat /\ Len(s) \in Nat \ {0}
      /\ \A i \in 1..Len(p) : (p \o Tail(s))[i] = p[i]
      /\ \A i \in 2..Len(s) : (p \o Tail(s))[Len(p) + i - 1] = s[i]
      /\ \A i \in (Len(p) + 1)..(Len(p) + Len(s) - 1) :
                 (p \o Tail(s))[i] = s[i - Len(p) + 1]
    BY Replaced
<1> DEFINE t == p \o Tail(s)
<1> HIDE DEF t
<1>2. ASSUME NEW x \in Items(t) PROVE x \in Items(p) \cup {s[i] : i \in 2..Len(s)}
    <2>1. PICK i \in 1..Len(t) : x = t[i]
        BY DEF Items
    <2>2. CASE i \in 1..Len(p)
        BY <2>1, <2>2, <1>1 DEF Items, t
    <2>3. CASE i \in (Len(p) + 1)..(Len(p) + Len(s) - 1)
        <3>1. i - Len(p) + 1 \in 2..Len(s) /\ x = s[i - Len(p) + 1]
            BY <2>1, <2>3, <1>1 DEF t
        <3> QED BY <3>1
    <2> QED BY <2>2, <2>3, <1>1 DEF t
<1>3. ASSUME NEW x \in Items(p) PROVE x \in Items(t)
    <2>1. PICK i \in 1..Len(p) : x = p[i]
        BY DEF Items
    <2>2. i \in 1..Len(t) /\ x = t[i]
        BY <2>1, <1>1 DEF t
    <2> QED BY <2>2 DEF Items
<1>4. ASSUME NEW i \in 2..Len(s) PROVE s[i] \in Items(t)
    <2>1. Len(p) + i - 1 \in 1..Len(t) /\ s[i] = t[Len(p) + i - 1]
        BY <1>1 DEF t
    <2> QED BY <2>1 DEF Items
<1>5. Items(s) = {s[1]} \cup {s[i] : i \in 2..Len(s)}
    <2>1. 1..Len(s) = {1} \cup 2..Len(s)
        BY <1>1
    <2> QED BY <2>1 DEF Items
<1> QED BY <1>2, <1>3, <1>4, <1>5 DEF t

-----------------------------------------------------------------------------
(* Items and steps *)

LEMMA ItemTypes ==
    /\ \A k \in Kind : Do(k) \in Item /\ Do(k).k = k
    /\ \A k \in Kind, e \in Event : About(k, e) \in Item /\ About(k, e).k = k
                                    /\ About(k, e).es = <<e>> /\ About(k, e).es # <<>>
    /\ \A es \in Seq(Event) : Rec(es) \in Item /\ Rec(es).k = "rec" /\ Rec(es).es = es
    /\ \A e \in Event : <<e>> \in Seq(Event) /\ <<e>> # <<>>
    /\ <<"info", "info">> \in Seq(Event) /\ <<"info", "info">> # <<>>
<1>1. 0 \in DownOffset /\ <<>> \in Seq(Event)
    BY SystemViewAssumption DEF DownOffset
<1>2. \A k \in Kind : Do(k) \in Item /\ Do(k).k = k
    BY <1>1 DEF Do, Item
<1>3. \A e \in Event : <<e>> \in Seq(Event) /\ <<e>> # <<>>
    OBVIOUS
<1>4. \A k \in Kind, e \in Event : About(k, e) \in Item /\ About(k, e).k = k
                                    /\ About(k, e).es = <<e>> /\ About(k, e).es # <<>>
    BY <1>1, <1>3 DEF About, Do, Item
<1>5. \A es \in Seq(Event) : Rec(es) \in Item /\ Rec(es).k = "rec" /\ Rec(es).es = es
    BY <1>1 DEF Rec, Do, Item, Kind
<1>6. <<"info", "info">> \in Seq(Event) /\ <<"info", "info">> # <<>>
    BY DEF Event
<1> QED BY <1>2, <1>3, <1>4, <1>5, <1>6

(* Steps that need nothing before or after them.                          *)
Plain(p) ==
    \A i \in 1..Len(p) : /\ p[i].k \in {"rec", "poll", "stop", "unlock"}
                         /\ p[i].k = "rec" => p[i].es # <<>>

LEMMA PlainJoins ==
    ASSUME NEW p \in Seq(Item), Plain(p)
    PROVE  Shape(p) /\ \A s \in Seq(Item) : Joins(p, s)
    BY DEF Plain, Shape, Joins, Front, Recording, Locking, Reading, Beginning

LEMMA PlainConcat ==
    ASSUME NEW p \in Seq(Item), NEW q \in Seq(Item), Plain(p), Plain(q)
    PROVE  p \o q \in Seq(Item) /\ Plain(p \o q)
<1>1. /\ p \o q \in Seq(Item) /\ Len(p) \in Nat /\ Len(q) \in Nat
      /\ Len(p \o q) = Len(p) + Len(q)
      /\ \A i \in 1..(Len(p) + Len(q)) : (p \o q)[i] = IF i <= Len(p) THEN p[i] ELSE q[i - Len(p)]
    BY ConcatProperties, LenProperties
<1>2. ASSUME NEW i \in 1..(Len(p) + Len(q))
      PROVE  /\ (p \o q)[i].k \in {"rec", "poll", "stop", "unlock"}
             /\ (p \o q)[i].k = "rec" => (p \o q)[i].es # <<>>
    <2>1. CASE i <= Len(p)
        BY <2>1, <1>1 DEF Plain
    <2>2. CASE ~(i <= Len(p))
        <3>1. i - Len(p) \in 1..Len(q) /\ (p \o q)[i] = q[i - Len(p)]
            BY <2>2, <1>1
        <3> QED BY <3>1 DEF Plain
    <2> QED BY <2>1, <2>2
<1> QED BY <1>1, <1>2 DEF Plain

LEMMA PlainTuples ==
    ASSUME NEW x \in Item, NEW y \in Item,
           x.k \in {"rec", "poll", "stop", "unlock"}, x.k = "rec" => x.es # <<>>,
           y.k \in {"rec", "poll", "stop", "unlock"}, y.k = "rec" => y.es # <<>>
    PROVE  /\ <<x>> \in Seq(Item) /\ Plain(<<x>>)
           /\ <<x, y>> \in Seq(Item) /\ Plain(<<x, y>>)
    BY DEF Plain

LEMMA PlainOnes ==
    /\ SystemInfo \in Seq(Item) /\ Plain(SystemInfo)
    /\ SysTime \in Seq(Item) /\ Plain(SysTime)
    /\ TaskList \in Seq(Item) /\ Plain(TaskList)
    /\ NumModules \in Seq(Item) /\ Plain(NumModules)
    /\ \A k \in {"poll", "stop", "unlock"} : <<Do(k)>> \in Seq(Item) /\ Plain(<<Do(k)>>)
    /\ \A e \in Event : <<Rec(<<e>>)>> \in Seq(Item) /\ Plain(<<Rec(<<e>>)>>)
    /\ <<>> \in Seq(Item) /\ Plain(<<>>)
<1>1. \A e \in Event : Rec(<<e>>) \in Item /\ Rec(<<e>>).k = "rec" /\ Rec(<<e>>).es # <<>>
    BY ItemTypes
<1>2. /\ Rec(<<"info", "info">>) \in Item /\ Rec(<<"info", "info">>).k = "rec"
      /\ Rec(<<"info", "info">>).es # <<>>
    BY ItemTypes
<1>3. "info" \in Event
    BY DEF Event
<1>4. \A k \in {"poll", "stop", "unlock"} : Do(k) \in Item /\ Do(k).k = k /\ k # "rec"
    BY ItemTypes DEF Kind
<1>5. \A e \in Event : <<Rec(<<e>>)>> \in Seq(Item) /\ Plain(<<Rec(<<e>>)>>)
    BY <1>1, PlainTuples
<1>6. <<Rec(<<"info">>), Rec(<<"info">>)>> \in Seq(Item)
      /\ Plain(<<Rec(<<"info">>), Rec(<<"info">>)>>)
    BY <1>1, <1>3, PlainTuples
<1>7. <<Rec(<<"info", "info">>)>> \in Seq(Item) /\ Plain(<<Rec(<<"info", "info">>)>>)
    BY <1>2, PlainTuples
<1>8. \A k \in {"poll", "stop", "unlock"} : <<Do(k)>> \in Seq(Item) /\ Plain(<<Do(k)>>)
    BY <1>4, PlainTuples
<1>9. <<>> \in Seq(Item) /\ Plain(<<>>)
    BY DEF Plain
<1> QED BY <1>3, <1>5, <1>6, <1>7, <1>8, <1>9 DEF SystemInfo, SysTime, TaskList, NumModules

LEMMA PlainDescriptions ==
    ASSUME TypeOK
    PROVE  ModuleDescriptions \in Seq(Item) /\ Plain(ModuleDescriptions)
<1> DEFINE x == Rec(<<"info">>)
<1>1. modules \in Nat
    BY SystemViewAssumption DEF TypeOK
<1>2. "info" \in Event
    BY DEF Event
<1>3. x \in Item /\ x.k = "rec" /\ x.es # <<>>
    BY <1>2, ItemTypes
<1>4. ModuleDescriptions = [i \in 1..modules |-> x]
    BY DEF ModuleDescriptions
<1> HIDE DEF x
<1>5. ModuleDescriptions \in [1..modules -> Item]
    BY <1>3, <1>4
<1>6. ModuleDescriptions \in Seq(Item) /\ Len(ModuleDescriptions) = modules
    BY <1>1, <1>5
<1> QED BY <1>3, <1>4, <1>6 DEF Plain

LEMMA PlainModule ==
    ASSUME NEW id
    PROVE  SendModule(id) \in Seq(Item) /\ Plain(SendModule(id))
    BY PlainOnes DEF SendModule, SystemInfo

(* A Start before other work, or on its own.                              *)
LEMMA StartJoins ==
    /\ Start \in Seq(Item) /\ Start # <<>> /\ Shape(Start)
    /\ \A s \in Seq(Item) : Joins(Start, s)
    /\ \A i \in 1..Len(Start) : Start[i].k \in {"enable", "sync", "rec", "poll", "stop", "unlock"}
<1> DEFINE x == Do("enable")
           y == Do("sync")
           z == Rec(<<"start">>)
           q == SystemInfo \o SysTime \o TaskList \o NumModules
<1>1. q \in Seq(Item) /\ Plain(q)
    <2>1. /\ SystemInfo \o SysTime \in Seq(Item)
          /\ Plain(SystemInfo \o SysTime)
        BY PlainOnes, PlainConcat
    <2>2. /\ SystemInfo \o SysTime \o TaskList \in Seq(Item)
          /\ Plain(SystemInfo \o SysTime \o TaskList)
        BY <2>1, PlainOnes, PlainConcat
    <2> QED BY <2>2, PlainOnes, PlainConcat
<1>2. "start" \in Event /\ "enable" \in Kind /\ "sync" \in Kind
    BY DEF Event, Kind
<1>3. /\ x \in Item /\ x.k = "enable"
      /\ y \in Item /\ y.k = "sync"
      /\ z \in Item /\ z.k = "rec" /\ z.es = <<"start">> /\ z.es # <<>>
    <2>1. /\ x \in Item /\ x.k = "enable" /\ y \in Item /\ y.k = "sync"
        BY <1>2, ItemTypes
    <2>2. <<"start">> \in Seq(Event) /\ <<"start">> # <<>>
        BY <1>2, ItemTypes
    <2> QED BY <2>1, <2>2, ItemTypes
<1>4. Start = <<x, y, z>> \o q
    BY DEF Start
<1> HIDE DEF x, y, z, q
<1>5. /\ <<x, y, z>> \in Seq(Item) /\ Len(<<x, y, z>>) = 3
      /\ <<x, y, z>>[1] = x /\ <<x, y, z>>[2] = y /\ <<x, y, z>>[3] = z
    BY <1>3
<1>6. /\ Start \in Seq(Item) /\ Len(q) \in Nat
      /\ Len(Start) = 3 + Len(q)
      /\ \A i \in 1..(3 + Len(q)) : Start[i] = IF i <= 3 THEN <<x, y, z>>[i] ELSE q[i - 3]
    BY <1>1, <1>4, <1>5, ConcatProperties, LenProperties
<1>7. /\ Start[1] = x /\ Start[2] = y /\ Start[3] = z
      /\ \A i \in 4..Len(Start) : i - 3 \in 1..Len(q) /\ Start[i] = q[i - 3]
    BY <1>5, <1>6
<1>8. \A i \in 4..Len(Start) : /\ Start[i].k \in {"rec", "poll", "stop", "unlock"}
                               /\ Start[i].k = "rec" => Start[i].es # <<>>
    BY <1>1, <1>7 DEF Plain
<1>9. \A i \in 1..Len(Start) :
          /\ Start[i].k \in {"enable", "sync", "rec", "poll", "stop", "unlock"}
          /\ Start[i].k = "rec" => Start[i].es # <<>>
          /\ Start[i].k \in {"enable", "sync"} => i \in {1, 2}
    <2>1. ASSUME NEW i \in 1..Len(Start)
          PROVE  i \in {1, 2} \/ i = 3 \/ i \in 4..Len(Start)
        BY <1>6
    <2>2. \A i \in {1, 2} : Start[i].k \in {"enable", "sync"}
        BY <1>3, <1>7
    <2>3. Start[3].k = "rec" /\ Start[3].es # <<>>
        BY <1>3, <1>7
    <2> QED BY <2>1, <2>2, <2>3, <1>8
<1>10. /\ 3 \in 1..Len(Start)
       /\ \A i \in {1, 2} : 3 \in (i + 1)..Len(Start) /\ Follows(Start[3], Start[i])
    BY <1>3, <1>6, <1>7 DEF Follows, Locking, Reading, Beginning
<1>11. Shape(Start) /\ \A s \in Seq(Item) : Joins(Start, s)
    BY <1>9, <1>10 DEF Shape, Joins, Front, Recording, Locking, Reading, Beginning
<1>12. Start # <<>>
    BY <1>6
<1> QED BY <1>6, <1>9, <1>11, <1>12

(* What a context does under the lock: d, which may be a packet at once,   *)
(* and then q, which ends with the unlock.                                 *)
LEMMA LockedJoins ==
    ASSUME NEW d \in Seq(Item), d # <<>>, NEW q \in Seq(Item), q # <<>>,
           \A i \in 1..Len(d) : /\ d[i].k \in {"packet", "overflow", "poll"}
                                /\ d[i].k \in {"packet", "overflow"} => i = 1 /\ d[i].es # <<>>,
           \A i \in 1..Len(q) : /\ q[i].k \in {"send", "off", "unlock"}
                                /\ q[i].k = "send" => q[i].es # <<>>,
           q[Len(q)].k = "unlock"
    PROVE  /\ d \o q \in Seq(Item) /\ d \o q # <<>> /\ (d \o q)[1] = d[1]
           /\ \A s \in Seq(Item) : Joins(d \o q, s)
           /\ \A i \in 1..Len(d \o q) :
                 (d \o q)[i].k \in {"packet", "overflow", "poll", "send", "off", "unlock"}
<1> DEFINE t == d \o q
<1>1. /\ t \in Seq(Item) /\ Len(d) \in Nat \ {0} /\ Len(q) \in Nat \ {0}
      /\ Len(t) = Len(d) + Len(q)
      /\ \A i \in 1..(Len(d) + Len(q)) : t[i] = IF i <= Len(d) THEN d[i] ELSE q[i - Len(d)]
    BY ConcatProperties, LenProperties, EmptySeq
<1> HIDE DEF t
<1>2. /\ \A i \in 1..Len(d) : i \in 1..Len(t) /\ t[i] = d[i]
      /\ \A i \in 1..Len(q) : Len(d) + i \in 1..Len(t) /\ t[Len(d) + i] = q[i]
    BY <1>1
<1>3. t[Len(t)].k = "unlock"
    BY <1>1, <1>2
<1>4. ASSUME NEW i \in 1..Len(t)
      PROVE  /\ t[i].k \in {"packet", "overflow", "poll", "send", "off", "unlock"}
             /\ t[i].k \in {"packet", "overflow"} => i = 1
             /\ t[i].k \in Recording => t[i].es # <<>>
    <2>1. CASE i \in 1..Len(d)
        BY <2>1, <1>2 DEF Recording
    <2>2. CASE i \in (Len(d) + 1)..Len(t)
        <3>1. i - Len(d) \in 1..Len(q) /\ t[i] = q[i - Len(d)]
            BY <2>2, <1>1
        <3> QED BY <3>1 DEF Recording
    <2> QED BY <2>1, <2>2, <1>1
<1>5. ASSUME NEW i \in 1..Len(t), t[i].k \in Locking \cup Reading \cup Beginning
      PROVE  \E j \in (i + 1)..Len(t) : Follows(t[j], t[i])
    <2>1. t[i].k # "unlock" /\ t[i].k \notin Reading /\ t[i].k \notin Beginning
        BY <1>4, <1>5 DEF Locking, Reading, Beginning
    <2>2. i # Len(t)
        BY <1>3, <2>1
    <2>3. Len(t) \in Nat
        BY <1>1
    <2>4. Len(t) \in (i + 1)..Len(t)
        BY <2>2, <2>3
    <2> QED BY <2>1, <2>4, <1>3 DEF Follows
<1>6. \A s \in Seq(Item) : Joins(t, s)
    BY <1>4, <1>5 DEF Joins, Front
<1>7. t # <<>> /\ t[1] = d[1]
    BY <1>1, <1>2
<1> QED BY <1>1, <1>4, <1>6, <1>7 DEF t

LEMMA DispatchTypes ==
    ASSUME TypeOK, NEW e \in Event
    PROVE  /\ Dispatch(e) \in Seq(Item) /\ Dispatch(e) # <<>>
           /\ \A i \in 1..Len(Dispatch(e)) :
                 /\ Dispatch(e)[i].k \in {"packet", "overflow", "poll"}
                 /\ Dispatch(e)[i].k \in {"packet", "overflow"} =>
                       i = 1 /\ Dispatch(e)[i].es # <<>>
           /\ Dispatch(e)[1].k = "packet" => EnableState = ON
           /\ Dispatch(e)[1].k = "overflow" => EnableState = DROPPING
<1> DEFINE x == About("packet", e)
           y == About("overflow", e)
           z == Do("poll")
<1>1. /\ x \in Item /\ x.k = "packet" /\ x.es # <<>>
      /\ y \in Item /\ y.k = "overflow" /\ y.es # <<>>
      /\ z \in Item /\ z.k = "poll"
    BY ItemTypes DEF Kind
<1>2. EnableState \in {OFF, ON, DROPPING}
    BY DEF TypeOK
<1>3. /\ EnableState = ON => Dispatch(e) = <<x, z>>
      /\ EnableState = OFF => Dispatch(e) = <<z>>
      /\ EnableState = DROPPING => Dispatch(e) = <<y, z>>
    BY DEF Dispatch, ON, OFF, DROPPING
<1> HIDE DEF x, y, z
<1>4. /\ <<x, z>> \in Seq(Item) /\ Len(<<x, z>>) = 2 /\ <<x, z>>[1] = x /\ <<x, z>>[2] = z
      /\ <<y, z>> \in Seq(Item) /\ Len(<<y, z>>) = 2 /\ <<y, z>>[1] = y /\ <<y, z>>[2] = z
      /\ <<z>> \in Seq(Item) /\ Len(<<z>>) = 1 /\ <<z>>[1] = z
    BY <1>1
<1> DEFINE Good(d) ==
        /\ d \in Seq(Item) /\ d # <<>>
        /\ \A i \in 1..Len(d) :
              /\ d[i].k \in {"packet", "overflow", "poll"}
              /\ d[i].k \in {"packet", "overflow"} => i = 1 /\ d[i].es # <<>>
        /\ d[1].k = "packet" => EnableState = ON
        /\ d[1].k = "overflow" => EnableState = DROPPING
<1>5. EnableState = ON => Good(<<x, z>>)
    BY <1>1, <1>4
<1>6. EnableState = OFF => Good(<<z>>)
    BY <1>1, <1>4
<1>7. EnableState = DROPPING => Good(<<y, z>>)
    BY <1>1, <1>4
<1>8. Good(Dispatch(e))
    <2> HIDE DEF Good
    <2> QED BY <1>2, <1>3, <1>5, <1>6, <1>7
<1> QED BY <1>8

LEMMA SendsTypes ==
    ASSUME NEW es \in Seq(Event), es # <<>>
    PROVE  LET q == [i \in 1..(Len(es) - 1) |-> About("send", es[i + 1])] \o <<Do("unlock")>>
           IN  /\ q \in Seq(Item) /\ q # <<>>
               /\ \A i \in 1..Len(q) : /\ q[i].k \in {"send", "off", "unlock"}
                                       /\ q[i].k = "send" => q[i].es # <<>>
               /\ q[Len(q)].k = "unlock"
<1> DEFINE n == Len(es) - 1
           a == [i \in 1..n |-> About("send", es[i + 1])]
           u == Do("unlock")
           q == a \o <<u>>
<1>1. n \in Nat /\ \A i \in 1..n : es[i + 1] \in Event
    <2>1. Len(es) \in Nat \ {0} /\ \A i \in 1..Len(es) : es[i] \in Event
        BY EmptySeq, LenProperties, ElementOfSeq
    <2> QED BY <2>1
<1>2. u \in Item /\ u.k = "unlock" /\ <<u>> \in Seq(Item) /\ Len(<<u>>) = 1 /\ <<u>>[1] = u
    BY ItemTypes DEF Kind
<1>3. \A i \in 1..n : a[i] \in Item /\ a[i].k = "send" /\ a[i].es # <<>>
    BY <1>1, ItemTypes DEF Kind
<1> HIDE DEF u
<1>4. a \in Seq(Item) /\ Len(a) = n
    <2>1. a \in [1..n -> Item] /\ DOMAIN a = 1..n
        BY <1>3
    <2> HIDE DEF a, n
    <2>2. a \in Seq(Item)
        BY <1>1, <2>1
    <2> QED BY <1>1, <2>1, <2>2
<1> HIDE DEF a, n
<1>5. /\ q \in Seq(Item) /\ Len(q) = n + 1
      /\ \A i \in 1..(n + 1) : q[i] = IF i <= n THEN a[i] ELSE <<u>>[i - n]
    BY <1>1, <1>2, <1>4, ConcatProperties
<1>6. q[n + 1] = u /\ \A i \in 1..n : q[i] = a[i]
    BY <1>1, <1>2, <1>5
<1> HIDE DEF q
<1>7. \A i \in 1..Len(q) : i = n + 1 \/ i \in 1..n
    BY <1>1, <1>5
<1>8. /\ q \in Seq(Item) /\ q # <<>>
      /\ \A i \in 1..Len(q) : /\ q[i].k \in {"send", "off", "unlock"}
                              /\ q[i].k = "send" => q[i].es # <<>>
      /\ q[Len(q)].k = "unlock"
    BY <1>1, <1>2, <1>3, <1>5, <1>6, <1>7
<1> QED BY <1>8 DEF q, a, n, u

LEMMA OffTypes ==
    LET q == <<Do("off"), Do("unlock")>>
    IN  /\ q \in Seq(Item) /\ q # <<>>
        /\ \A i \in 1..Len(q) : /\ q[i].k \in {"send", "off", "unlock"}
                                /\ q[i].k = "send" => q[i].es # <<>>
        /\ q[Len(q)].k = "unlock"
    BY ItemTypes DEF Kind

-----------------------------------------------------------------------------
(* The invariant *)

(* c is handling a command.                                               *)
Active(s) == s # <<>> /\ s[1].k # "claim" /\ \E x \in Items(s) : x.k = "release"

(* Who holds the lock is alone, and stores a packet only in the state in   *)
(* which it began to.                                                      *)
HeadFits(s, e) ==
    s # <<>> => /\ s[1].k = "packet" => e = ON
                /\ s[1].k = "overflow" => e = DROPPING
Order ==
    /\ \A c \in Ctx : Shape(todo[c]) /\ HeadFits(todo[c], EnableState)
    /\ todo["isr"] # <<>> => ~Locked("main")

(* The recursion counter is exact.                                        *)
Busy ==
    /\ RecursionCnt = 1 <=> \E c \in Ctx : Active(todo[c])
    /\ ~(Active(todo["main"]) /\ Active(todo["isr"]))
    /\ todo["isr"] # <<>> /\ todo["isr"][1].k = "claim" => ~Active(todo["main"])

TInv == TypeOK /\ Order /\ Busy

(* Context c does the head of its work and goes on with the steps p.       *)
Advances(c, p) ==
    /\ todo[c] # <<>> /\ Running(c)
    /\ p \in Seq(Item) /\ Joins(p, todo[c]) /\ HeadFits(p, EnableState')
    /\ Becomes(c, p)

LEMMA LockAlone ==
    ASSUME TInv, todo["isr"] # <<>>
    PROVE  todo["main"] # <<>> => todo["main"][1].k \notin Locking
<1> SUFFICES ASSUME todo["main"] # <<>>, todo["main"][1].k \in Locking PROVE FALSE
    OBVIOUS
<1> DEFINE s == todo["main"]
<1>1. s \in Seq(Item) /\ Shape(s) /\ ~Locked("main")
    BY DEF TInv, TypeOK, Order, Ctx
<1>2. 1 \in 1..Len(s)
    BY <1>1, EmptySeq, LenProperties
<1>3. PICK j \in 2..Len(s) : Follows(s[j], s[1])
    <2> HIDE DEF s
    <2>1. s[1].k \in Locking
        BY DEF s
    <2> QED BY <1>1, <1>2, <2>1 DEF Shape
<1>4. s[j].k = "unlock" /\ j \in 1..Len(s)
    BY <1>3 DEF Follows
<1> QED BY <1>1, <1>4 DEF Locked, Items

LEMMA Advance ==
    ASSUME TInv, NEW c \in Ctx, NEW p, Advances(c, p)
    PROVE  todo' \in [Ctx -> Seq(Item)] /\ Order'
<1> DEFINE s == todo[c]
           t == p \o Tail(s)
<1>1. todo \in [Ctx -> Seq(Item)] /\ s \in Seq(Item) /\ s # <<>> /\ p \in Seq(Item)
    BY DEF TInv, TypeOK, Advances
<1>2. /\ todo' = [todo EXCEPT ![c] = t]
      /\ t \in Seq(Item) /\ Shape(t)
    BY <1>1, Replaced, KeepsShape DEF Advances, Becomes, TInv, Order
<1>3. todo' \in [Ctx -> Seq(Item)] /\ todo'[c] = t /\ \A d \in Ctx \ {c} : todo'[d] = todo[d]
    BY <1>1, <1>2
<1> HIDE DEF t
<1>4. HeadFits(t, EnableState')
    <2>1. CASE t # <<>> /\ t[1].k \in Front
        <3>1. p # <<>> /\ t[1] = p[1]
            BY <2>1, <1>1, NewHead DEF TInv, Order, t
        <3> QED BY <3>1 DEF HeadFits, Advances
    <2>2. CASE ~(t # <<>> /\ t[1].k \in Front)
        BY <2>2 DEF HeadFits, Front
    <2> QED BY <2>1, <2>2
<1>5. CASE c = "main"
    <2>1. todo["isr"] = <<>>
        BY <1>5 DEF Advances, Running
    <2>2. todo'["isr"] = <<>>
        BY <1>3, <1>5, <2>1 DEF Ctx
    <2>3. Shape(todo'["isr"]) /\ HeadFits(todo'["isr"], EnableState')
        BY <2>1, <2>2 DEF HeadFits, TInv, Order, Ctx
    <2> QED BY <1>2, <1>3, <1>4, <1>5, <2>2, <2>3 DEF Order, Ctx
<1>6. CASE c = "isr"
    <2>1. todo'["main"] = todo["main"] /\ ~Locked("main") /\ Shape(todo["main"])
        BY <1>1, <1>3, <1>6 DEF TInv, Order, Ctx
    <2>2. ~Locked("main")'
        BY <2>1 DEF Locked
    <2>3. HeadFits(todo'["main"], EnableState')
        BY <2>1, <1>1, <1>6, LockAlone DEF HeadFits, Locking
    <2> QED BY <1>2, <1>3, <1>4, <1>6, <2>1, <2>2, <2>3 DEF Order, Ctx
<1> QED BY <1>3, <1>5, <1>6 DEF Ctx

LEMMA AdvanceQuiet ==
    ASSUME TInv, NEW c \in Ctx, NEW p, Advances(c, p), RecursionCnt' = RecursionCnt,
           todo[c][1].k \notin {"claim", "release"},
           \A i \in 1..Len(p) : p[i].k \notin {"claim", "release"}
    PROVE  Busy'
<1> DEFINE s == todo[c]
           t == p \o Tail(s)
<1>1. todo \in [Ctx -> Seq(Item)] /\ s \in Seq(Item) /\ s # <<>> /\ p \in Seq(Item) /\ Shape(s)
    BY DEF TInv, TypeOK, Order, Advances
<1>2. todo'[c] = t /\ \A d \in Ctx \ {c} : todo'[d] = todo[d]
    BY <1>1 DEF Advances, Becomes
<1>3. /\ Items(t) = Items(p) \cup {s[i] : i \in 2..Len(s)}
      /\ Items(s) = {s[1]} \cup {s[i] : i \in 2..Len(s)}
      /\ t \in Seq(Item)
    BY <1>1, ItemsAfter, Replaced
<1>4. \A x \in Items(p) : x.k # "release"
    BY DEF Items
<1>5. (\E x \in Items(t) : x.k = "release") <=> (\E x \in Items(s) : x.k = "release")
    BY <1>3, <1>4
<1> HIDE DEF t
<1>6. t # <<>> => t[1].k # "claim"
    <2> SUFFICES ASSUME t # <<>>, t[1].k = "claim" PROVE FALSE
        OBVIOUS
    <2>1. p # <<>> /\ t[1] = p[1]
        BY <1>1, NewHead DEF t, Front
    <2>2. 1 \in 1..Len(p)
        BY <2>1, <1>1, EmptySeq, LenProperties
    <2> QED BY <2>1, <2>2
<1>7. (\E x \in Items(t) : x.k = "release") => t # <<>>
    BY DEF Items
<1>8. Active(t) <=> Active(s)
    BY <1>1, <1>5, <1>6, <1>7 DEF Active
<1>9. CASE c = "main"
    <2>1. todo["isr"] = <<>> /\ todo'["isr"] = <<>>
        BY <1>2, <1>9 DEF Advances, Running, Ctx
    <2> QED BY <1>2, <1>8, <1>9, <2>1 DEF Busy, TInv, Ctx
<1>10. CASE c = "isr"
    <2>1. todo'["main"] = todo["main"]
        BY <1>2, <1>10 DEF Ctx
    <2> QED BY <1>2, <1>6, <1>8, <1>10, <2>1 DEF Busy, TInv, Ctx
<1> QED BY <1>9, <1>10 DEF Ctx

(* The head of the work left, and what stands behind it.                   *)
LEMMA HeadItem ==
    ASSUME TInv, NEW c \in Ctx, todo[c] # <<>>
    PROVE  /\ todo[c] \in Seq(Item) /\ todo[c][1] \in Item /\ Shape(todo[c])
           /\ todo[c][1].k \in Recording =>
                 /\ todo[c][1].es \in Seq(Event) /\ todo[c][1].es # <<>>
                 /\ Head(todo[c][1].es) = todo[c][1].es[1] /\ todo[c][1].es[1] \in Event
           /\ todo[c][1].k \in Locking \cup Reading \cup Beginning =>
                 \E j \in 2..Len(todo[c]) : Follows(todo[c][j], todo[c][1])
           /\ todo[c][1].k = "release" =>
                 \A j \in 2..Len(todo[c]) : todo[c][j].k # "release"
           /\ HeadFits(todo[c], EnableState)
<1> DEFINE s == todo[c]
<1>1. s \in Seq(Item) /\ s # <<>> /\ Shape(s) /\ HeadFits(s, EnableState)
    BY DEF TInv, TypeOK, Order
<1>2. Len(s) \in Nat \ {0} /\ 1 \in 1..Len(s) /\ s[1] \in Item
    BY <1>1, EmptySeq, LenProperties, ElementOfSeq
<1> HIDE DEF s
<1>3. s[1].k \in Recording => s[1].es # <<>>
    BY <1>1, <1>2 DEF Shape
<1>4. s[1].es \in Seq(Event)
    BY <1>2 DEF Item
<1>5. s[1].es # <<>> => Head(s[1].es) = s[1].es[1] /\ s[1].es[1] \in Event
    BY <1>4, HeadTailProperties, EmptySeq, LenProperties, ElementOfSeq
<1>6. s[1].k \in Locking \cup Reading \cup Beginning => \E j \in 2..Len(s) : Follows(s[j], s[1])
    BY <1>1, <1>2 DEF Shape
<1>7. s[1].k = "release" => \A j \in 2..Len(s) : s[j].k # "release"
    BY <1>1, <1>2 DEF Shape
<1> QED BY <1>1, <1>2, <1>3, <1>4, <1>5, <1>6, <1>7 DEF s

(* A call that begins.                                                    *)
LEMMA Begins ==
    ASSUME TInv, NEW c \in Ctx, todo[c] = <<>>,
           c = "main" => todo["isr"] = <<>>, c = "isr" => ~Locked("main"),
           NEW p, p \in Seq(Item), p # <<>>, Shape(p),
           \A i \in 1..Len(p) : p[i].k \notin {"packet", "overflow", "claim", "release"},
           Begin(c, p), EnableState' = EnableState, RecursionCnt' = RecursionCnt
    PROVE  todo' \in [Ctx -> Seq(Item)] /\ Order' /\ Busy'
<1>1. todo \in [Ctx -> Seq(Item)] /\ todo' = [todo EXCEPT ![c] = p]
    BY DEF TInv, TypeOK, Begin
<1>2. todo' \in [Ctx -> Seq(Item)] /\ todo'[c] = p /\ \A d \in Ctx \ {c} : todo'[d] = todo[d]
    BY <1>1
<1>3. 1 \in 1..Len(p)
    BY EmptySeq, LenProperties
<1>4. HeadFits(p, EnableState') /\ p[1].k # "claim"
    BY <1>3 DEF HeadFits
<1>5. ~Active(p) /\ ~Active(todo[c])
    BY DEF Active, Items
<1>6. CASE c = "main"
    <2>1. todo'["isr"] = <<>> /\ todo["isr"] = <<>> /\ todo'["main"] = p
        BY <1>2, <1>6 DEF Ctx
    <2>2. Order'
        BY <1>4, <2>1 DEF Order, HeadFits, Ctx, TInv
    <2>3. Busy'
        BY <1>5, <1>6, <2>1 DEF Busy, Ctx, TInv
    <2> QED BY <1>2, <2>2, <2>3
<1>7. CASE c = "isr"
    <2>1. todo'["main"] = todo["main"] /\ todo'["isr"] = p
        BY <1>2, <1>7 DEF Ctx
    <2>2. ~Locked("main")'
        BY <1>7, <2>1 DEF Locked
    <2>3. Order'
        BY <1>4, <2>1, <2>2 DEF Order, Ctx, TInv
    <2>4. Busy'
        BY <1>4, <1>5, <1>7, <2>1 DEF Busy, Ctx, TInv
    <2> QED BY <1>2, <2>3, <2>4
<1> QED BY <1>6, <1>7 DEF Ctx

(* Nothing is left of the head.                                           *)
LEMMA NothingJoins ==
    /\ <<>> \in Seq(Item)
    /\ \A s \in Seq(Item) : Joins(<<>>, s)
    /\ \A e : HeadFits(<<>>, e)
    /\ \A i \in 1..Len(<<>>) : <<>>[i].k \notin {"claim", "release"}
    BY DEF Joins, HeadFits

-----------------------------------------------------------------------------
(* Every step keeps the invariant *)

LEMMA RecordKeeps ==
    ASSUME TInv, NEW c \in Ctx, Record(c)
    PROVE  TInv'
<1> DEFINE es == todo[c][1].es
           d == Dispatch(Head(es))
           q == [i \in 1..(Len(es) - 1) |-> About("send", es[i + 1])] \o <<Do("unlock")>>
           p == d \o q
<1>1. todo[c] # <<>> /\ Running(c) /\ todo[c][1].k = "rec" /\ Becomes(c, p)
    BY DEF Record, At, Arg
<1>2. es \in Seq(Event) /\ es # <<>> /\ Head(es) \in Event /\ todo[c] \in Seq(Item)
    BY <1>1, HeadItem DEF Recording
<1>3. /\ q \in Seq(Item) /\ q # <<>>
      /\ \A i \in 1..Len(q) : /\ q[i].k \in {"send", "off", "unlock"}
                              /\ q[i].k = "send" => q[i].es # <<>>
      /\ q[Len(q)].k = "unlock"
    BY <1>2, SendsTypes
<1>4. /\ d \in Seq(Item) /\ d # <<>>
      /\ \A i \in 1..Len(d) : /\ d[i].k \in {"packet", "overflow", "poll"}
                              /\ d[i].k \in {"packet", "overflow"} => i = 1 /\ d[i].es # <<>>
      /\ d[1].k = "packet" => EnableState = ON
      /\ d[1].k = "overflow" => EnableState = DROPPING
    BY <1>2, DispatchTypes DEF TInv
<1>5. UNCHANGED <<used, down, EnableState, RecursionCnt, LastTxTimeStamp, DisabledEvents,
                  modules, now, seen, gap, asked, inbox>>
    BY DEF Record, globals, hist
<1> HIDE DEF d, q
<1>6. /\ p \in Seq(Item) /\ p # <<>> /\ p[1] = d[1] /\ Joins(p, todo[c])
      /\ \A i \in 1..Len(p) : p[i].k \in {"packet", "overflow", "poll", "send", "off", "unlock"}
    BY <1>2, <1>3, <1>4, LockedJoins
<1> HIDE DEF p
<1>7. Advances(c, p)
    BY <1>1, <1>4, <1>5, <1>6 DEF Advances, HeadFits
<1>8. todo' \in [Ctx -> Seq(Item)] /\ Order'
    BY <1>7, Advance
<1>9. Busy'
    BY <1>1, <1>5, <1>6, <1>7, AdvanceQuiet
<1> QED BY <1>5, <1>8, <1>9 DEF TInv, TypeOK

LEMMA SendAgainKeeps ==
    ASSUME TInv, NEW c \in Ctx, SendAgain(c)
    PROVE  TInv'
<1> DEFINE s == todo[c]
           d == Dispatch(Head(s[1].es))
<1>1. s # <<>> /\ Running(c) /\ s[1].k = "send" /\ Becomes(c, d)
    BY DEF SendAgain, At, Arg
<1>2. /\ s \in Seq(Item) /\ Head(s[1].es) \in Event
      /\ \E j \in 2..Len(s) : Follows(s[j], s[1])
    BY <1>1, HeadItem DEF Recording, Locking
<1>3. PICK j \in 2..Len(s) : s[j].k = "unlock"
    BY <1>1, <1>2 DEF Follows, Locking
<1>4. /\ d \in Seq(Item) /\ d # <<>>
      /\ \A i \in 1..Len(d) : /\ d[i].k \in {"packet", "overflow", "poll"}
                              /\ d[i].k \in {"packet", "overflow"} => i = 1 /\ d[i].es # <<>>
      /\ d[1].k = "packet" => EnableState = ON
      /\ d[1].k = "overflow" => EnableState = DROPPING
    BY <1>2, DispatchTypes DEF TInv
<1>5. UNCHANGED <<used, down, EnableState, RecursionCnt, LastTxTimeStamp, DisabledEvents,
                  modules, now, seen, gap, asked, inbox>>
    BY DEF SendAgain, globals, hist
<1> HIDE DEF d
<1>6. Joins(d, s)
    <2>1. ASSUME NEW i \in 1..Len(d)
          PROVE  /\ d[i].k \in Front => i = 1
                 /\ d[i].k \in Recording => d[i].es # <<>>
                 /\ d[i].k \notin Reading \cup Beginning /\ d[i].k # "release"
        BY <1>4 DEF Front, Recording, Reading, Beginning
    <2>2. \A i \in 1..Len(d) : d[i].k \notin Reading \cup Beginning => Follows(s[j], d[i])
        BY <1>3 DEF Follows
    <2> QED BY <2>1, <2>2 DEF Joins
<1>7. Advances(c, d)
    BY <1>1, <1>4, <1>5, <1>6 DEF Advances, HeadFits
<1>8. todo' \in [Ctx -> Seq(Item)] /\ Order'
    BY <1>7, Advance
<1>9. Busy'
    <2>1. \A i \in 1..Len(d) : d[i].k \notin {"claim", "release"}
        BY <1>4
    <2> QED BY <1>1, <1>5, <1>7, <2>1, AdvanceQuiet
<1> QED BY <1>5, <1>8, <1>9 DEF TInv, TypeOK

(* A step that only removes the head.                                     *)
LEMMA Drops ==
    ASSUME TInv, NEW c \in Ctx, todo[c] # <<>>, Running(c), Becomes(c, <<>>)
    PROVE  /\ todo' \in [Ctx -> Seq(Item)] /\ Order'
           /\ todo[c][1].k \notin {"claim", "release"} /\ RecursionCnt' = RecursionCnt => Busy'
<1>1. Advances(c, <<>>)
    BY HeadItem, NothingJoins DEF Advances
<1>2. todo' \in [Ctx -> Seq(Item)] /\ Order'
    BY <1>1, Advance
<1>3. ASSUME todo[c][1].k \notin {"claim", "release"}, RecursionCnt' = RecursionCnt PROVE Busy'
    BY <1>1, <1>3, NothingJoins, AdvanceQuiet
<1> QED BY <1>2, <1>3

LEMMA UnlockKeeps ==
    ASSUME TInv, NEW c \in Ctx, Unlock(c)
    PROVE  TInv'
<1>1. todo[c] # <<>> /\ Running(c) /\ todo[c][1].k = "unlock" /\ Becomes(c, <<>>)
    BY DEF Unlock, At
<1>2. UNCHANGED <<used, down, EnableState, RecursionCnt, LastTxTimeStamp, DisabledEvents,
                  modules, now, seen, gap, asked, inbox>>
    BY DEF Unlock, globals, hist
<1> QED BY <1>1, <1>2, Drops DEF TInv, TypeOK

(* A packet that stays in the buffer.                                     *)
LEMMA Stores ==
    ASSUME TypeOK, NEW b \in PacketBytes, Fits(b), Store(b)
    PROVE  /\ used' \in 0..UpSize /\ LastTxTimeStamp' \in 0..(TimeMod - 1)
           /\ seen' \in [clock : 0..(TimeMod - 1), last : 0..(TimeMod - 1)]
           /\ gap' = "no"
<1>1. /\ b \in Nat /\ UpSize \in Nat /\ TimeMod \in Nat \ {0}
      /\ used \in 0..UpSize /\ LastTxTimeStamp \in 0..(TimeMod - 1) /\ now \in 0..(TimeMod - 1)
      /\ seen.clock \in 0..(TimeMod - 1)
    BY SystemViewAssumption DEF TypeOK
<1>2. (seen.clock + (now - LastTxTimeStamp)) % TimeMod \in 0..(TimeMod - 1)
    BY <1>1
<1> QED BY <1>1, <1>2 DEF Store, Fits

LEMMA TrySendOverflowKeeps ==
    ASSUME TInv, NEW c \in Ctx, TrySendOverflow(c)
    PROVE  TInv'
<1> DEFINE s == todo[c]
           e == s[1].es[1]
           d == <<About("packet", e)>>
<1>1. s # <<>> /\ Running(c) /\ s[1].k = "overflow"
    BY DEF TrySendOverflow, At
<1>2. /\ s \in Seq(Item) /\ e \in Event /\ EnableState = DROPPING
      /\ \E j \in 2..Len(s) : Follows(s[j], s[1])
    BY <1>1, HeadItem DEF Recording, Locking, HeadFits
<1>3. PICK j \in 2..Len(s) : s[j].k = "unlock"
    BY <1>1, <1>2 DEF Follows, Locking
<1>4. /\ d \in Seq(Item) /\ d # <<>> /\ Len(d) = 1
      /\ d[1].k = "packet" /\ d[1].es # <<>>
    <2>1. "packet" \in Kind
        BY DEF Kind
    <2> QED BY <1>2, <2>1, ItemTypes
<1>5. UNCHANGED <<down, RecursionCnt, DisabledEvents, modules, now, asked, inbox>>
    BY DEF TrySendOverflow
<1>6. CASE \E b \in PacketBytes :
              /\ Fits(b) /\ Store(b) /\ EnableState' = EnableState - 1
              /\ Becomes(c, IF EnableState' = ON THEN d ELSE <<>>)
    <2>1. EnableState' = ON /\ Becomes(c, d)
        BY <1>2, <1>6 DEF DROPPING, ON
    <2>2. /\ used' \in 0..UpSize /\ LastTxTimeStamp' \in 0..(TimeMod - 1)
          /\ seen' \in [clock : 0..(TimeMod - 1), last : 0..(TimeMod - 1)]
          /\ gap' = "no"
        BY <1>6, Stores DEF TInv
    <2> HIDE DEF d
    <2>3. Joins(d, s)
        <3>1. Follows(s[j], d[1])
            BY <1>3, <1>4 DEF Follows, Reading, Beginning
        <3> QED BY <1>4, <3>1 DEF Joins
    <2>4. Advances(c, d)
        BY <1>1, <1>4, <2>1, <2>3 DEF Advances, HeadFits
    <2>5. todo' \in [Ctx -> Seq(Item)] /\ Order'
        BY <2>4, Advance
    <2>6. Busy'
        BY <1>1, <1>4, <1>5, <2>4, AdvanceQuiet
    <2> QED BY <1>5, <2>1, <2>2, <2>5, <2>6 DEF TInv, TypeOK
<1>7. CASE /\ gap' = IF e \in DisabledEvents THEN gap ELSE "open"
           /\ Becomes(c, <<>>)
           /\ UNCHANGED <<used, LastTxTimeStamp, seen, EnableState>>
    <2>1. todo' \in [Ctx -> Seq(Item)] /\ Order' /\ Busy'
        BY <1>1, <1>5, <1>7, Drops
    <2> QED BY <1>5, <1>7, <2>1 DEF TInv, TypeOK
<1> QED BY <1>6, <1>7 DEF TrySendOverflow, Arg

LEMMA StorePacketKeeps ==
    ASSUME TInv, NEW c \in Ctx, StorePacket(c)
    PROVE  TInv'
<1>1. todo[c] # <<>> /\ Running(c) /\ todo[c][1].k = "packet" /\ Becomes(c, <<>>)
    BY DEF StorePacket, At
<1>2. EnableState = ON
    BY <1>1, HeadItem DEF HeadFits
<1>3. UNCHANGED <<down, RecursionCnt, DisabledEvents, modules, now, asked, inbox>>
    BY DEF StorePacket
<1>4. todo' \in [Ctx -> Seq(Item)] /\ Order' /\ Busy'
    BY <1>1, <1>3, Drops
<1>5. /\ used' \in 0..UpSize /\ LastTxTimeStamp' \in 0..(TimeMod - 1)
      /\ seen' \in [clock : 0..(TimeMod - 1), last : 0..(TimeMod - 1)]
      /\ gap' \in {"no", "open", "muted"} /\ EnableState' \in {OFF, ON, DROPPING}
    <2>1. CASE Skipped(Arg(c)[1])
        BY <2>1 DEF TInv, TypeOK, Skipped
    <2>2. CASE \E b \in PacketBytes : Fits(b) /\ Store(b) /\ UNCHANGED EnableState
        BY <2>2, Stores DEF TInv, TypeOK
    <2>3. CASE /\ EnableState' = EnableState + 1 /\ gap' = "open"
               /\ UNCHANGED <<used, LastTxTimeStamp, seen>>
        BY <1>2, <2>3 DEF TInv, TypeOK, ON, DROPPING
    <2> QED BY <2>1, <2>2, <2>3 DEF StorePacket
<1> QED BY <1>3, <1>4, <1>5 DEF TInv, TypeOK

LEMMA EnableKeeps ==
    ASSUME TInv, NEW c \in Ctx, Enable(c)
    PROVE  TInv'
<1>1. todo[c] # <<>> /\ Running(c) /\ todo[c][1].k = "enable" /\ Becomes(c, <<>>)
    BY DEF Enable, At
<1>2. /\ EnableState' = ON /\ asked' \in {"undone", "start"} /\ gap' \in {gap, "open"}
      /\ UNCHANGED <<used, down, RecursionCnt, LastTxTimeStamp, DisabledEvents,
                     modules, now, seen, inbox>>
    BY DEF Enable
<1>3. todo' \in [Ctx -> Seq(Item)] /\ Order' /\ Busy'
    BY <1>1, <1>2, Drops
<1> QED BY <1>2, <1>3 DEF TInv, TypeOK

LEMMA SyncKeeps ==
    ASSUME TInv, NEW c \in Ctx, Sync(c)
    PROVE  TInv'
<1>1. todo[c] # <<>> /\ Running(c) /\ todo[c][1].k = "sync" /\ Becomes(c, <<>>)
    BY DEF Sync, At
<1>2. UNCHANGED <<down, EnableState, RecursionCnt, LastTxTimeStamp, DisabledEvents,
                  modules, now, seen, asked, inbox>>
    BY DEF Sync, globals
<1>3. todo' \in [Ctx -> Seq(Item)] /\ Order' /\ Busy'
    BY <1>1, <1>2, Drops
<1>4. used' \in 0..UpSize /\ gap' \in {"no", "open", "muted"}
    <2>1. used \in 0..UpSize /\ SyncBytes \in Nat /\ UpSize \in Nat /\ gap \in {"no", "open", "muted"}
        BY SystemViewAssumption DEF TInv, TypeOK
    <2>2. \/ used + SyncBytes <= UpSize /\ used' = used + SyncBytes /\ gap' = "no"
          \/ UNCHANGED <<used, gap>>
        BY DEF Sync, Fits
    <2>3. used' \in 0..UpSize
        BY <2>1, <2>2
    <2>4. gap' \in {"no", "open", "muted"}
        BY <2>1, <2>2, Zenon
    <2> QED BY <2>3, <2>4
<1> QED BY <1>2, <1>3, <1>4 DEF TInv, TypeOK

LEMMA StopKeeps ==
    ASSUME TInv, NEW c \in Ctx, Stop(c)
    PROVE  TInv'
<1> DEFINE s == todo[c]
           d == Dispatch("stop")
           q == <<Do("off"), Do("unlock")>>
           p == d \o q
<1>1. s # <<>> /\ Running(c) /\ s[1].k = "stop" /\ s \in Seq(Item)
    BY HeadItem DEF Stop, At
<1>2. /\ asked' = "stop"
      /\ UNCHANGED <<used, down, EnableState, RecursionCnt, LastTxTimeStamp, DisabledEvents,
                     modules, now, seen, gap, inbox>>
    BY DEF Stop, globals
<1>3. CASE Becomes(c, <<>>)
    <2>1. todo' \in [Ctx -> Seq(Item)] /\ Order' /\ Busy'
        BY <1>1, <1>2, <1>3, Drops
    <2> QED BY <1>2, <2>1 DEF TInv, TypeOK
<1>4. CASE Becomes(c, p)
    <2>1. /\ d \in Seq(Item) /\ d # <<>>
          /\ \A i \in 1..Len(d) : /\ d[i].k \in {"packet", "overflow", "poll"}
                                  /\ d[i].k \in {"packet", "overflow"} => i = 1 /\ d[i].es # <<>>
          /\ d[1].k = "packet" => EnableState = ON
          /\ d[1].k = "overflow" => EnableState = DROPPING
        BY DispatchTypes DEF TInv, Event
    <2>2. /\ q \in Seq(Item) /\ q # <<>>
          /\ \A i \in 1..Len(q) : /\ q[i].k \in {"send", "off", "unlock"}
                                  /\ q[i].k = "send" => q[i].es # <<>>
          /\ q[Len(q)].k = "unlock"
        BY OffTypes
    <2> HIDE DEF d, q
    <2>3. /\ p \in Seq(Item) /\ p # <<>> /\ p[1] = d[1] /\ Joins(p, s)
          /\ \A i \in 1..Len(p) : p[i].k \in {"packet", "overflow", "poll", "send", "off", "unlock"}
        BY <1>1, <2>1, <2>2, LockedJoins
    <2> HIDE DEF p
    <2>4. Advances(c, p)
        BY <1>1, <1>2, <1>4, <2>1, <2>3 DEF Advances, HeadFits
    <2>5. todo' \in [Ctx -> Seq(Item)] /\ Order'
        BY <2>4, Advance
    <2>6. Busy'
        <3>1. \A i \in 1..Len(p) : p[i].k \notin {"claim", "release"}
            BY <2>3
        <3> QED BY <1>1, <1>2, <2>4, <3>1, AdvanceQuiet
    <2> QED BY <1>2, <2>5, <2>6 DEF TInv, TypeOK
<1> QED BY <1>3, <1>4 DEF Stop

LEMMA SwitchOffKeeps ==
    ASSUME TInv, NEW c \in Ctx, SwitchOff(c)
    PROVE  TInv'
<1>1. todo[c] # <<>> /\ Running(c) /\ todo[c][1].k = "off" /\ Becomes(c, <<>>)
    BY DEF SwitchOff, At
<1>2. /\ EnableState' = OFF
      /\ UNCHANGED <<used, down, RecursionCnt, LastTxTimeStamp, DisabledEvents,
                     modules, now, seen, gap, asked, inbox>>
    BY DEF SwitchOff, hist
<1>3. todo' \in [Ctx -> Seq(Item)] /\ Order' /\ Busy'
    BY <1>1, <1>2, Drops
<1> QED BY <1>2, <1>3 DEF TInv, TypeOK

LEMMA PollKeeps ==
    ASSUME TInv, NEW c \in Ctx, Poll(c)
    PROVE  TInv'
<1> DEFINE s == todo[c]
           p == <<Do("claim"), Do("look"), Do("release")>>
           t == p \o Tail(s)
<1>1. s # <<>> /\ Running(c) /\ s[1].k = "poll" /\ s \in Seq(Item) /\ Shape(s)
    BY HeadItem DEF Poll, At
<1>2. UNCHANGED <<used, down, EnableState, RecursionCnt, LastTxTimeStamp, DisabledEvents,
                  modules, now, seen, gap, asked, inbox>>
    BY DEF Poll, globals, hist
<1>3. CASE Becomes(c, <<>>)
    <2>1. todo' \in [Ctx -> Seq(Item)] /\ Order' /\ Busy'
        BY <1>1, <1>2, <1>3, Drops
    <2> QED BY <1>2, <2>1 DEF TInv, TypeOK
<1>4. CASE RecursionCnt = 0 /\ Becomes(c, p)
    <2>1. /\ p \in Seq(Item) /\ Len(p) = 3 /\ p # <<>>
          /\ p[1].k = "claim" /\ p[2].k = "look" /\ p[3].k = "release"
        BY ItemTypes DEF Kind
    <2>2. \A d \in Ctx : ~Active(todo[d])
        BY <1>4 DEF TInv, Busy
    <2>3. \A j \in 2..Len(s) : s[j].k # "release"
        <3>1. \A x \in Items(s) : x.k # "release"
            BY <1>1, <2>2 DEF Active
        <3>2. \A j \in 2..Len(s) : s[j] \in Items(s)
            BY DEF Items
        <3> QED BY <3>1, <3>2
    <2> HIDE DEF p
    <2>4. Joins(p, s)
        <3>1. /\ 3 \in (1 + 1)..Len(p) /\ 3 \in (2 + 1)..Len(p)
              /\ Follows(p[3], p[1]) /\ Follows(p[3], p[2])
            BY <2>1 DEF Follows, Locking, Beginning
        <3>2. \A i \in 1..Len(p) : i = 1 \/ i = 2 \/ i = 3
            BY <2>1
        <3> QED BY <2>1, <2>3, <3>1, <3>2 DEF Joins, Front, Recording, Locking, Reading, Beginning
    <2>5. Advances(c, p)
        BY <1>1, <1>4, <2>1, <2>4 DEF Advances, HeadFits
    <2>6. todo' \in [Ctx -> Seq(Item)] /\ Order'
        BY <2>5, Advance
    <2>7. todo'[c] = t /\ \A d \in Ctx \ {c} : todo'[d] = todo[d]
        BY <1>4 DEF Becomes, TInv, TypeOK
    <2>8. ~Active(t)
        <3>1. t[1] = p[1]
            BY <1>1, <2>1, Replaced
        <3> QED BY <2>1, <3>1 DEF Active
    <2> HIDE DEF t
    <2>9. \A d \in Ctx : ~Active(todo'[d])
        BY <2>2, <2>7, <2>8
    <2>10. Busy'
        BY <1>2, <1>4, <2>9 DEF Busy, Ctx
    <2> QED BY <1>2, <2>6, <2>10 DEF TInv, TypeOK
<1> QED BY <1>3, <1>4 DEF Poll

LEMMA ClaimKeeps ==
    ASSUME TInv, NEW c \in Ctx, Claim(c)
    PROVE  TInv'
<1> DEFINE s == todo[c]
           t == <<>> \o Tail(s)
<1>1. s # <<>> /\ Running(c) /\ s[1].k = "claim" /\ s \in Seq(Item) /\ Shape(s)
    BY HeadItem DEF Claim, At
<1>2. /\ RecursionCnt' = 1 /\ Becomes(c, <<>>)
      /\ UNCHANGED <<used, down, EnableState, LastTxTimeStamp, DisabledEvents,
                     modules, now, seen, gap, asked, inbox>>
    BY DEF Claim, hist
<1>3. todo' \in [Ctx -> Seq(Item)] /\ Order'
    BY <1>1, <1>2, Drops
<1>4. todo'[c] = t /\ \A d \in Ctx \ {c} : todo'[d] = todo[d]
    BY <1>2 DEF Becomes, TInv, TypeOK
<1>5. /\ Items(t) = Items(<<>>) \cup {s[i] : i \in 2..Len(s)}
      /\ t # <<>> => t[1].k \notin Front
    BY <1>1, NothingJoins, ItemsAfter, NewHead
<1>6. PICK j \in 2..Len(s) : s[j].k = "release"
    <2>1. \E j \in 2..Len(s) : Follows(s[j], s[1])
        BY <1>1, HeadItem DEF Reading
    <2> QED BY <1>1, <2>1 DEF Follows, Reading
<1> HIDE DEF t
<1>7. Active(t)
    <2>1. s[j] \in Items(t)
        BY <1>5
    <2>2. t # <<>>
        BY <2>1 DEF Items
    <2> QED BY <1>5, <1>6, <2>1, <2>2 DEF Active, Front
<1>8. t # <<>> => t[1].k # "claim"
    BY <1>5 DEF Front
<1>9. Busy'
    <2>1. CASE c = "main"
        <3>1. todo'["isr"] = <<>>
            BY <1>1, <1>4, <2>1 DEF Running, Ctx
        <3> QED BY <1>2, <1>4, <1>7, <2>1, <3>1 DEF Busy, Active, Ctx
    <2>2. CASE c = "isr"
        <3>1. todo'["main"] = todo["main"] /\ ~Active(todo["main"])
            BY <1>1, <1>4, <2>2 DEF Ctx, TInv, Busy
        <3> QED BY <1>2, <1>4, <1>7, <1>8, <2>2, <3>1 DEF Busy, Ctx
    <2> QED BY <2>1, <2>2 DEF Ctx
<1> QED BY <1>2, <1>3, <1>9 DEF TInv, TypeOK

LEMMA ReleaseKeeps ==
    ASSUME TInv, NEW c \in Ctx, Release(c)
    PROVE  TInv'
<1> DEFINE s == todo[c]
           t == <<>> \o Tail(s)
<1>1. s # <<>> /\ Running(c) /\ s[1].k = "release" /\ s \in Seq(Item) /\ Shape(s)
    BY HeadItem DEF Release, At
<1>2. /\ RecursionCnt' = 0 /\ Becomes(c, <<>>)
      /\ UNCHANGED <<used, down, EnableState, LastTxTimeStamp, DisabledEvents,
                     modules, now, seen, gap, asked, inbox>>
    BY DEF Release, hist
<1>3. todo' \in [Ctx -> Seq(Item)] /\ Order'
    BY <1>1, <1>2, Drops
<1>4. todo'[c] = t /\ \A d \in Ctx \ {c} : todo'[d] = todo[d]
    BY <1>2 DEF Becomes, TInv, TypeOK
<1>5. /\ Items(t) = Items(<<>>) \cup {s[i] : i \in 2..Len(s)} /\ Items(<<>>) = {}
      /\ Items(s) = {s[1]} \cup {s[i] : i \in 2..Len(s)}
    <2> DEFINE e == <<>>
    <2>1. e \in Seq(Item) /\ Items(e) = {}
        BY DEF Items
    <2> HIDE DEF e
    <2>2. /\ Items(e \o Tail(s)) = Items(e) \cup {s[i] : i \in 2..Len(s)}
          /\ Items(s) = {s[1]} \cup {s[i] : i \in 2..Len(s)}
        BY <1>1, <2>1, ItemsAfter
    <2> QED BY <2>1, <2>2 DEF e
<1>6. Active(s)
    BY <1>1, <1>5 DEF Active
<1> HIDE DEF t
<1>7. ~Active(t)
    <2>1. \A j \in 2..Len(s) : s[j].k # "release"
        BY <1>1, HeadItem
    <2> QED BY <1>5, <2>1 DEF Active
<1>8. \A d \in Ctx : ~Active(todo'[d])
    <2>1. \A d \in Ctx \ {c} : ~Active(todo[d])
        BY <1>6 DEF TInv, Busy, Ctx
    <2> QED BY <1>4, <1>7, <2>1
<1>9. Busy'
    BY <1>2, <1>8 DEF Busy, Ctx
<1> QED BY <1>2, <1>3, <1>9 DEF TInv, TypeOK

LEMMA LookKeeps ==
    ASSUME TInv, NEW c \in Ctx, Look(c)
    PROVE  TInv'
<1> DEFINE s == todo[c]
           x == [s[1] EXCEPT !.k = "take", !.byte = down.buf[down.rd], !.at = down.rd]
           p == <<x>>
<1>1. s # <<>> /\ Running(c) /\ s[1].k = "look" /\ s \in Seq(Item) /\ s[1] \in Item
    BY HeadItem DEF Look, At
<1>2. UNCHANGED <<used, down, EnableState, RecursionCnt, LastTxTimeStamp, DisabledEvents,
                  modules, now, seen, gap, asked, inbox>>
    BY DEF Look, globals, hist
<1>3. CASE Becomes(c, <<>>)
    <2>1. todo' \in [Ctx -> Seq(Item)] /\ Order' /\ Busy'
        BY <1>1, <1>2, <1>3, Drops
    <2> QED BY <1>2, <2>1 DEF TInv, TypeOK
<1>4. CASE Becomes(c, p)
    <2>1. down.rd \in DownOffset /\ down.buf[down.rd] \in Byte \cup {0}
        BY DEF TInv, TypeOK
    <2>2. x \in Item /\ x.k = "take"
        BY <1>1, <2>1 DEF Item, Kind
    <2>3. PICK j \in 2..Len(s) : s[j].k = "release"
        <3>1. \E j \in 2..Len(s) : Follows(s[j], s[1])
            BY <1>1, HeadItem DEF Reading
        <3> QED BY <1>1, <3>1 DEF Follows, Reading
    <2> HIDE DEF x
    <2>4. p \in Seq(Item) /\ Len(p) = 1 /\ p[1] = x /\ p # <<>>
        BY <2>2
    <2> HIDE DEF p
    <2>5. Joins(p, s)
        <3>1. Follows(s[j], p[1])
            BY <2>2, <2>3, <2>4 DEF Follows, Locking, Beginning
        <3> QED BY <2>2, <2>4, <3>1 DEF Joins, Recording
    <2>6. Advances(c, p)
        BY <1>1, <1>4, <2>2, <2>4, <2>5 DEF Advances, HeadFits
    <2>7. todo' \in [Ctx -> Seq(Item)] /\ Order'
        BY <2>6, Advance
    <2>8. Busy'
        BY <1>1, <1>2, <2>2, <2>4, <2>6, AdvanceQuiet
    <2> QED BY <1>2, <2>7, <2>8 DEF TInv, TypeOK
<1> QED BY <1>3, <1>4 DEF Look

(* What a handler does.                                                   *)
LEMMA HandleJoins ==
    ASSUME TypeOK, NEW s \in Seq(Item), NEW j \in 2..Len(s), s[j].k = "release", NEW b,
           NEW p, p \in {Handle(b), SendModule(b), <<>>}
    PROVE  /\ p \in Seq(Item) /\ Joins(p, s)
           /\ \A i \in 1..Len(p) :
                 p[i].k \notin {"claim", "take", "release", "packet", "overflow", "off"}
<1> DEFINE Good(q) == /\ q \in Seq(Item) /\ Joins(q, s)
                      /\ \A i \in 1..Len(q) :
                            q[i].k \notin {"claim", "take", "release", "packet", "overflow", "off"}
<1>1. ASSUME NEW q \in Seq(Item), Plain(q) PROVE Good(q)
    BY <1>1, PlainJoins DEF Plain
<1>2. Good(Start)
    BY StartJoins
<1>3. ASSUME NEW f \in {"module", "skip"} PROVE Good(<<[Do("look") EXCEPT !.for = f]>>)
    <2> DEFINE x == [Do("look") EXCEPT !.for = f]
               q == <<x>>
    <2>1. Do("look") \in Item /\ Do("look").k = "look"
        BY ItemTypes DEF Kind
    <2>2. x \in Item /\ x.k = "look"
        BY <2>1 DEF Item
    <2> HIDE DEF x
    <2>3. q \in Seq(Item) /\ Len(q) = 1 /\ q[1] = x
        BY <2>2
    <2> HIDE DEF q
    <2>4. Follows(s[j], q[1])
        BY <2>2, <2>3 DEF Follows, Locking, Beginning
    <2>5. Joins(q, s)
        BY <2>2, <2>3, <2>4 DEF Joins, Front, Recording
    <2>6. Good(q)
        BY <2>2, <2>3, <2>5
    <2> QED BY <2>6 DEF q, x
<1>4. Good(SendModule(b)) /\ Good(<<>>)
    BY <1>1, PlainModule, PlainOnes
<1>5. /\ Good(<<Do("stop")>>) /\ Good(SysTime) /\ Good(TaskList) /\ Good(SystemInfo)
      /\ Good(NumModules) /\ Good(ModuleDescriptions)
    BY <1>1, PlainOnes, PlainDescriptions
<1> HIDE DEF Good
<1>6. Good(Handle(b))
    BY <1>2, <1>3, <1>4, <1>5 DEF Handle
<1>7. Good(p)
    BY <1>4, <1>6
<1> QED BY <1>7 DEF Good

LEMMA TakeKeeps ==
    ASSUME TInv, NEW c \in Ctx, Take(c)
    PROVE  TInv'
<1> DEFINE s == todo[c]
           x == s[1]
           p == CASE x.for = "command" -> Handle(x.byte)
                  [] x.for = "module" -> SendModule(x.byte)
                  [] x.for = "skip" -> <<>>
<1>1. s # <<>> /\ Running(c) /\ x.k = "take" /\ s \in Seq(Item) /\ x \in Item /\ Becomes(c, p)
    BY HeadItem DEF Take, At
<1>2. /\ down' = [down EXCEPT !.rd = Wrap(x.at + 1)]
      /\ inbox' = SubSeq(inbox, 2, Len(inbox))
      /\ UNCHANGED <<used, EnableState, RecursionCnt, LastTxTimeStamp, DisabledEvents,
                     modules, now, seen, gap, asked>>
    BY DEF Take, globals
<1>3. PICK j \in 2..Len(s) : s[j].k = "release"
    <2>1. \E j \in 2..Len(s) : Follows(s[j], s[1])
        BY <1>1, HeadItem DEF Reading
    <2> QED BY <1>1, <2>1 DEF Follows, Reading
<1>4. p \in {Handle(x.byte), SendModule(x.byte), <<>>}
    <2>1. x.for \in {"command", "module", "skip"}
        BY <1>1 DEF Item
    <2> QED BY <2>1
<1> HIDE DEF p
<1>5. /\ p \in Seq(Item) /\ Joins(p, s)
      /\ \A i \in 1..Len(p) : p[i].k \notin {"claim", "release", "packet", "overflow"}
    <2>1. s \in Seq(Item) /\ TypeOK
        BY <1>1 DEF TInv
    <2>2. /\ p \in Seq(Item) /\ Joins(p, s)
          /\ \A i \in 1..Len(p) :
                p[i].k \notin {"claim", "take", "release", "packet", "overflow", "off"}
        <3> HIDE DEF s, x
        <3> QED BY <2>1, <1>3, <1>4, HandleJoins, Zenon
    <2> QED BY <2>2
<1>6. Advances(c, p)
    <2>1. p # <<>> => 1 \in 1..Len(p)
        BY <1>5, EmptySeq, LenProperties
    <2> QED BY <1>1, <1>5, <2>1 DEF Advances, HeadFits
<1>7. todo' \in [Ctx -> Seq(Item)] /\ Order'
    BY <1>6, Advance
<1>8. Busy'
    BY <1>1, <1>2, <1>5, <1>6, AdvanceQuiet
<1>9. down' \in [buf : [DownOffset -> Byte \cup {0}], wr : DownOffset, rd : DownOffset]
    <2>1. x.at \in DownOffset
        BY <1>1 DEF Item
    <2>2. Wrap(x.at + 1) \in DownOffset
        BY <2>1, SystemViewAssumption DEF Wrap, DownOffset
    <2> QED BY <1>2, <2>2 DEF TInv, TypeOK
<1>10. inbox' \in Seq(Byte)
    <2>1. inbox \in Seq(Byte)
        BY DEF TInv, TypeOK
    <2> QED BY <1>2, <2>1, SubSeqProperties, LenProperties
<1> QED BY <1>2, <1>7, <1>8, <1>9, <1>10 DEF TInv, TypeOK

-----------------------------------------------------------------------------
(* Callers, host and time *)

LEMMA CallerKeeps ==
    ASSUME TInv, Caller
    PROVE  TInv'
<1>1. \A e \in {"std", "user"} :
          LET p == <<Rec(<<e>>)>>
          IN  p \in Seq(Item) /\ p # <<>> /\ Shape(p) /\ \A i \in 1..Len(p) : p[i].k = "rec"
    <2> SUFFICES ASSUME NEW e \in {"std", "user"}
                 PROVE  LET p == <<Rec(<<e>>)>>
                        IN  p \in Seq(Item) /\ p # <<>> /\ Shape(p) /\ \A i \in 1..Len(p) : p[i].k = "rec"
        OBVIOUS
    <2> DEFINE x == Rec(<<e>>)
               p == <<x>>
    <2>1. e \in Event
        BY DEF Event
    <2>2. p \in Seq(Item) /\ Plain(p)
        BY <2>1, PlainOnes
    <2>3. x.k = "rec"
        BY <2>1, ItemTypes
    <2> HIDE DEF x
    <2>4. p # <<>> /\ \A i \in 1..Len(p) : p[i].k = "rec"
        BY <2>3
    <2>5. Shape(p)
        BY <2>2, PlainJoins
    <2> QED BY <2>2, <2>4, <2>5 DEF x
<1>2. CASE Interrupt
    <2>1. todo["isr"] = <<>> /\ ~Locked("main")
        BY <1>2 DEF Interrupt
    <2>2. UNCHANGED <<used, down, EnableState, RecursionCnt, LastTxTimeStamp, DisabledEvents,
                      modules, now, seen, gap, asked, inbox>>
        BY <1>2 DEF Interrupt, globals, hist
    <2>3. PICK e \in {"std", "user"} : Begin("isr", <<Rec(<<e>>)>>)
        BY <1>2 DEF Interrupt
    <2> DEFINE p == <<Rec(<<e>>)>>
    <2>4. p \in Seq(Item) /\ p # <<>> /\ Shape(p) /\ \A i \in 1..Len(p) : p[i].k = "rec"
        BY <1>1
    <2> HIDE DEF p
    <2>5. todo' \in [Ctx -> Seq(Item)] /\ Order' /\ Busy'
        BY <2>1, <2>2, <2>3, <2>4, Begins DEF Ctx, p
    <2> QED BY <2>2, <2>5 DEF TInv, TypeOK
<1>3. CASE MainCall
    <2>1. todo["main"] = <<>> /\ todo["isr"] = <<>>
        BY <1>3 DEF MainCall
    <2>2. UNCHANGED <<used, down, EnableState, RecursionCnt, LastTxTimeStamp, DisabledEvents,
                      modules, now, seen, gap, asked, inbox>>
        BY <1>3 DEF MainCall, globals, hist
    <2> DEFINE Good(p) == /\ p \in Seq(Item) /\ p # <<>> /\ Shape(p)
                          /\ \A i \in 1..Len(p) :
                                p[i].k \notin {"packet", "overflow", "claim", "release"}
    <2>3. \A e \in {"std", "user"} : Good(<<Rec(<<e>>)>>)
        BY <1>1
    <2>4. Good(Start)
        BY StartJoins
    <2>5. Good(<<Do("stop")>>) /\ Good(<<Do("poll")>>)
        <3>1. ASSUME NEW q \in Seq(Item), q # <<>>, Plain(q) PROVE Good(q)
            BY <3>1, PlainJoins DEF Plain
        <3>2. \A k \in {"stop", "poll"} :
                  <<Do(k)>> \in Seq(Item) /\ <<Do(k)>> # <<>> /\ Plain(<<Do(k)>>)
            BY PlainOnes
        <3> HIDE DEF Good
        <3> QED BY <3>1, <3>2
    <2>6. PICK p : Good(p) /\ Begin("main", p)
        <3> HIDE DEF Good
        <3> QED BY <1>3, <2>3, <2>4, <2>5 DEF MainCall
    <2>7. todo' \in [Ctx -> Seq(Item)] /\ Order' /\ Busy'
        BY <2>1, <2>2, <2>6, Begins DEF Ctx
    <2> QED BY <2>2, <2>7 DEF TInv, TypeOK
<1>4. CASE MaskEvents
    <2>1. /\ DisabledEvents' \subseteq Maskable
          /\ UNCHANGED <<used, down, EnableState, RecursionCnt, LastTxTimeStamp,
                         modules, todo, now, seen, gap, asked, inbox>>
        BY <1>4, MaskAssumption DEF MaskEvents, hist
    <2> QED BY <2>1 DEF TInv, TypeOK, Order, Busy, Locked
<1>5. CASE RegisterModule
    <2> DEFINE x == Rec(<<"info">>)
               u == Do("unlock")
               p == <<x, x, u>>
    <2>1. todo["main"] = <<>> /\ todo["isr"] = <<>> /\ Begin("main", p)
        BY <1>5 DEF RegisterModule
    <2>2. /\ modules < MaxModules /\ modules' = modules + 1
          /\ UNCHANGED <<used, down, EnableState, RecursionCnt, LastTxTimeStamp, DisabledEvents,
                         now, seen, gap, asked, inbox>>
        BY <1>5 DEF RegisterModule, globals, hist
    <2>3. /\ x \in Item /\ x.k = "rec" /\ x.es # <<>>
          /\ u \in Item /\ u.k = "unlock"
        <3>1. "info" \in Event /\ "unlock" \in Kind
            BY DEF Event, Kind
        <3> QED BY <3>1, ItemTypes
    <2> HIDE DEF x, u
    <2>4. p \in Seq(Item) /\ Len(p) = 3 /\ p # <<>> /\ p[1] = x /\ p[2] = x /\ p[3] = u
        BY <2>3
    <2> HIDE DEF p
    <2>5. \A i \in 1..Len(p) : p[i] \in {x, u}
        BY <2>4
    <2>6. Plain(p)
        BY <2>3, <2>5 DEF Plain
    <2>7. Shape(p) /\ \A i \in 1..Len(p) : p[i].k \notin {"packet", "overflow", "claim", "release"}
        BY <2>4, <2>6, PlainJoins DEF Plain
    <2>8. todo' \in [Ctx -> Seq(Item)] /\ Order' /\ Busy'
        BY <2>1, <2>2, <2>4, <2>7, Begins DEF Ctx
    <2>9. modules' \in 0..MaxModules
        BY <2>2, SystemViewAssumption DEF TInv, TypeOK
    <2> QED BY <2>2, <2>8, <2>9 DEF TInv, TypeOK
<1> QED BY <1>2, <1>3, <1>4, <1>5 DEF Caller

(* What the host sends.                                                   *)
LEMMA Messages ==
    ASSUME NEW msg \in Message
    PROVE  msg \in Seq(Byte) /\ Len(msg) \in {1, 2}
<1>1. CASE msg \in {<<i>> : i \in {j \in Command : j < GET_MODULE}}
    <2>1. PICK i \in Command : msg = <<i>>
        BY <1>1
    <2> QED BY <2>1 DEF Byte
<1>2. CASE msg \in {j \in Command : j >= GET_MODULE} \X ModuleId
    <2>1. PICK i \in Command, j \in ModuleId : msg = <<i, j>>
        BY <1>2
    <2> QED BY <2>1 DEF Byte
<1> QED BY <1>1, <1>2 DEF Message

LEMMA Offsets ==
    /\ \A o, n \in Nat : o < DownSize /\ n <= DownSize => Wrap(o + n) \in DownOffset
    /\ \A r, w \in DownOffset : Distance(r, w) \in Nat /\ Distance(r, w) < DownSize
    BY SystemViewAssumption DEF Wrap, Distance, DownOffset

LEMMA HostKeeps ==
    ASSUME TInv, Host
    PROVE  TInv'
<1>1. CASE HostRead
    <2>1. PICK n \in 1..used : used' = used - n
        BY <1>1 DEF HostRead
    <2>2. UNCHANGED <<down, EnableState, RecursionCnt, LastTxTimeStamp, DisabledEvents,
                      modules, todo, now, seen, gap, asked, inbox>>
        BY <1>1 DEF HostRead, globals, hist
    <2>3. used' \in 0..UpSize
        BY <2>1, SystemViewAssumption DEF TInv, TypeOK
    <2> QED BY <2>2, <2>3 DEF TInv, TypeOK, Order, Busy, Locked
<1>2. CASE HostSend
    <2>1. PICK msg \in Message :
              /\ Distance(down.rd, down.wr) + Len(msg) < DownSize
              /\ down' = [down EXCEPT
                            !.buf = [i \in DownOffset |->
                                       LET j == Distance(down.wr, i) + 1
                                       IN  IF j <= Len(msg) THEN msg[j] ELSE down.buf[i]],
                            !.wr = Wrap(down.wr + Len(msg))]
              /\ inbox' = inbox \o msg
        BY <1>2 DEF HostSend
    <2>2. UNCHANGED <<used, EnableState, RecursionCnt, LastTxTimeStamp, DisabledEvents,
                      modules, todo, now, seen, gap, asked>>
        BY <1>2 DEF HostSend, globals
    <2>3. /\ msg \in Seq(Byte) /\ Len(msg) \in {1, 2}
          /\ down.wr \in DownOffset /\ down.rd \in DownOffset
          /\ down.buf \in [DownOffset -> Byte \cup {0}] /\ inbox \in Seq(Byte)
        BY Messages DEF TInv, TypeOK
    <2>4. Wrap(down.wr + Len(msg)) \in DownOffset
        <3>1. DownSize \in Nat /\ DownSize >= 2
            BY SystemViewAssumption
        <3>2. down.wr \in Nat /\ down.wr < DownSize
            <4>1. down.wr \in DownOffset
                BY <2>3
            <4> QED BY <3>1, <4>1 DEF DownOffset
        <3>3. Len(msg) \in Nat /\ Len(msg) <= DownSize
            <4>1. \A n \in {1, 2} : n \in Nat /\ n <= DownSize
                BY <3>1
            <4> QED BY <2>3, <4>1, Zenon
        <3> QED BY <3>2, <3>3, Offsets
    <2>5. \A i \in DownOffset : Distance(down.wr, i) + 1 <= Len(msg) =>
              msg[Distance(down.wr, i) + 1] \in Byte
        <3>1. \A i \in DownOffset : Distance(down.wr, i) \in Nat
            BY <2>3, Offsets
        <3>2. \A k \in 1..Len(msg) : msg[k] \in Byte
            BY <2>3, ElementOfSeq
        <3> QED BY <2>3, <3>1, <3>2
    <2>6. down' \in [buf : [DownOffset -> Byte \cup {0}], wr : DownOffset, rd : DownOffset]
        <3> DEFINE B == [i \in DownOffset |->
                          LET j == Distance(down.wr, i) + 1
                          IN  IF j <= Len(msg) THEN msg[j] ELSE down.buf[i]]
        <3>1. B \in [DownOffset -> Byte \cup {0}]
            BY <2>3, <2>5
        <3>2. down' = [down EXCEPT !.buf = B, !.wr = Wrap(down.wr + Len(msg))]
            BY <2>1
        <3>3. down \in [buf : [DownOffset -> Byte \cup {0}], wr : DownOffset, rd : DownOffset]
            BY DEF TInv, TypeOK
        <3> HIDE DEF B
        <3> QED BY <2>4, <3>1, <3>2, <3>3
    <2>7. inbox' \in Seq(Byte)
        BY <2>1, <2>3, ConcatProperties
    <2> QED BY <2>2, <2>6, <2>7 DEF TInv, TypeOK, Order, Busy, Locked
<1> QED BY <1>1, <1>2 DEF Host

LEMMA InitEstablishes == Init => TInv
<1> SUFFICES ASSUME Init PROVE TInv
    OBVIOUS
<1>1. TypeOK
    <2>1. /\ 0 \in 0..UpSize /\ 0 \in 0..(TimeMod - 1) /\ 0 \in DownOffset /\ 0 \in 0..MaxModules
        BY SystemViewAssumption DEF DownOffset
    <2>2. <<>> \in Seq(Item) /\ <<>> \in Seq(Byte)
        OBVIOUS
    <2>3. EnableState \in {OFF, ON, DROPPING} /\ RecursionCnt \in {0, 1} /\ gap \in {"no", "open", "muted"}
        BY DEF Init
    <2> QED BY <2>1, <2>2, <2>3 DEF Init, TypeOK
<1>2. todo["main"] = <<>> /\ todo["isr"] = <<>>
    BY DEF Init, Ctx
<1>3. Shape(<<>>) /\ \A e : HeadFits(<<>>, e)
    BY PlainOnes, PlainJoins DEF HeadFits
<1>4. Order
    BY <1>2, <1>3 DEF Order, Ctx
<1>5. RecursionCnt = 0 /\ ~Active(<<>>)
    BY DEF Init, Active
<1>6. Busy
    BY <1>2, <1>5 DEF Busy, Ctx
<1> QED BY <1>1, <1>4, <1>6 DEF TInv

LEMMA StepKeeps == TInv /\ [Next]_vars => TInv'
<1> SUFFICES ASSUME TInv, [Next]_vars PROVE TInv'
    OBVIOUS
<1>1. CASE Caller
    BY <1>1, CallerKeeps
<1>2. CASE Host
    BY <1>2, HostKeeps
<1>3. CASE Tick
    <2>1. /\ now' = (now + 1) % TimeMod
          /\ UNCHANGED <<used, down, EnableState, RecursionCnt, LastTxTimeStamp, DisabledEvents,
                         modules, todo, seen, gap, asked, inbox>>
        BY <1>3 DEF Tick, globals, hist
    <2>2. now' \in 0..(TimeMod - 1)
        BY <2>1, SystemViewAssumption DEF TInv, TypeOK
    <2> QED BY <2>1, <2>2 DEF TInv, TypeOK, Order, Busy, Locked
<1>4. CASE \E c \in Ctx : Step(c)
    BY <1>4, RecordKeeps, SendAgainKeeps, TrySendOverflowKeeps, StorePacketKeeps, UnlockKeeps,
       EnableKeeps, SyncKeeps, StopKeeps, SwitchOffKeeps,
       PollKeeps, ClaimKeeps, LookKeeps, TakeKeeps, ReleaseKeeps DEF Step
<1>5. CASE UNCHANGED vars
    BY <1>5 DEF vars, globals, hist, TInv, TypeOK, Order, Busy, Locked
<1> QED BY <1>1, <1>2, <1>3, <1>4, <1>5 DEF Next

(* The steps that a call has left, and all globals, stay in range.         *)
THEOREM TypeCorrect == Spec => []TypeOK
<1>1. TInv => TypeOK
    BY DEF TInv
<1> QED BY InitEstablishes, StepKeeps, <1>1, PTL DEF Spec

LEMMA InvariantHolds == Spec => []TInv
    BY InitEstablishes, StepKeeps, PTL DEF Spec

-----------------------------------------------------------------------------
(* The host's clock *)

Clock == LastTxTimeStamp = seen.last /\ seen.clock = seen.last

LEMMA StoreKeepsClock ==
    ASSUME TypeOK, Clock, NEW b, Store(b)
    PROVE  Clock'
<1>1. /\ TimeMod \in Nat \ {0} /\ now \in 0..(TimeMod - 1)
      /\ LastTxTimeStamp \in 0..(TimeMod - 1) /\ seen.clock = LastTxTimeStamp
    BY SystemViewAssumption DEF TypeOK, Clock
<1>2. (seen.clock + (now - LastTxTimeStamp)) % TimeMod = now
    <2>1. seen.clock + (now - LastTxTimeStamp) = now
        BY <1>1
    <2>2. now % TimeMod = now
        BY <1>1
    <2> QED BY <2>1, <2>2
<1> QED BY <1>2 DEF Store, Clock

LEMMA ClockKeeps == TInv /\ Clock /\ [Next]_vars => Clock'
<1> SUFFICES ASSUME TInv, Clock, [Next]_vars PROVE Clock'
    OBVIOUS
<1>1. ASSUME UNCHANGED <<LastTxTimeStamp, seen>> PROVE Clock'
    BY <1>1 DEF Clock
<1>2. ASSUME NEW c \in Ctx, TrySendOverflow(c) \/ StorePacket(c) PROVE Clock'
    <2>1. CASE TrySendOverflow(c)
        BY <1>1, <2>1, StoreKeepsClock DEF TrySendOverflow, TInv
    <2>2. CASE StorePacket(c)
        BY <1>1, <2>2, StoreKeepsClock DEF StorePacket, Skipped, TInv
    <2> QED BY <1>2, <2>1, <2>2
<1>3. ASSUME NEW c \in Ctx, Step(c), ~TrySendOverflow(c), ~StorePacket(c)
      PROVE  UNCHANGED <<LastTxTimeStamp, seen>>
    BY <1>3 DEF Step, Record, SendAgain, Unlock, Enable, Sync, Stop, SwitchOff, Poll, Claim, Look,
       Take, Release, globals, hist
<1>4. ASSUME Caller \/ Host \/ Tick \/ UNCHANGED vars
      PROVE  UNCHANGED <<LastTxTimeStamp, seen>>
    BY <1>4 DEF Caller, Interrupt, MainCall, MaskEvents, RegisterModule, Host, HostRead, HostSend,
       Tick, vars, globals, hist
<1> QED BY <1>1, <1>2, <1>3, <1>4 DEF Next

(* Whatever is dropped, stopped and restarted, in any interleaving, adding *)
(* up the time differences in _SendPacket's and _TrySendOverflowPacket's   *)
(* packets gives the time of each.                                         *)
THEOREM ClockRight == Spec => []HostClockRight
<1>1. Init => Clock
    BY DEF Init, Clock
<1>2. Clock => HostClockRight
    BY DEF Clock, HostClockRight
<1> QED BY InvariantHolds, <1>1, <1>2, ClockKeeps, PTL DEF Spec

-----------------------------------------------------------------------------
(* One command at a time *)

LEMMA OneHandler == TInv => RecursesOnce
<1> SUFFICES ASSUME TInv, NEW a \in Handling, NEW b \in Handling PROVE a = b
    BY DEF RecursesOnce
<1>1. PICK c \in Ctx : \E i \in DOMAIN todo[c] :
          a = <<c, i>> /\ todo[c][i].k = "release" /\ todo[c][1].k # "claim"
    BY DEF Handling
<1>2. PICK d \in Ctx : \E j \in DOMAIN todo[d] :
          b = <<d, j>> /\ todo[d][j].k = "release" /\ todo[d][1].k # "claim"
    BY DEF Handling
<1>i. PICK i \in DOMAIN todo[c] :
          a = <<c, i>> /\ todo[c][i].k = "release" /\ todo[c][1].k # "claim"
    BY <1>1
<1>j. PICK j \in DOMAIN todo[d] :
          b = <<d, j>> /\ todo[d][j].k = "release" /\ todo[d][1].k # "claim"
    BY <1>2
<1>3. ASSUME NEW e \in Ctx, NEW m \in DOMAIN todo[e], todo[e][m].k = "release",
             todo[e][1].k # "claim"
      PROVE  /\ Active(todo[e]) /\ m \in 1..Len(todo[e])
             /\ \A n \in 1..Len(todo[e]) : todo[e][n].k = "release" => n = m
    <2>1. todo[e] \in Seq(Item) /\ Shape(todo[e])
        BY DEF TInv, TypeOK, Order
    <2>2. DOMAIN todo[e] = 1..Len(todo[e])
        BY <2>1, LenProperties
    <2>3. todo[e] # <<>>
        BY <2>2
    <2>4. todo[e][m] \in Items(todo[e])
        BY <2>2 DEF Items
    <2>5. Active(todo[e])
        BY <1>3, <2>3, <2>4 DEF Active
    <2>6. \A n \in 1..Len(todo[e]) : todo[e][n].k = "release" => n = m
        BY <1>3, <2>1, <2>2 DEF Shape
    <2> QED BY <2>2, <2>5, <2>6
<1>4. c = d
    <2>1. Active(todo[c]) /\ Active(todo[d])
        BY <1>i, <1>j, <1>3
    <2> QED BY <2>1 DEF TInv, Busy, Ctx
<1>5. i = j
    <2>1. /\ j \in 1..Len(todo[c]) /\ todo[c][j].k = "release"
          /\ \A n \in 1..Len(todo[c]) : todo[c][n].k = "release" => n = i
        BY <1>i, <1>j, <1>3, <1>4
    <2> QED BY <2>1
<1> QED BY <1>i, <1>j, <1>4, <1>5

(* _SendPacket's RecursionCnt, tested outside the lock in IsStarted and    *)
(* set and reset in the handlers, lets one command in at a time, whatever  *)
(* the interleaving and however deep packets and commands nest.            *)
THEOREM RecursionBounded == Spec => []RecursesOnce
    BY InvariantHolds, OneHandler, PTL

-----------------------------------------------------------------------------
(* What a step leaves in the work of the contexts *)

Behind(s) == {s[i] : i \in 2..Len(s)}

LEMMA ItemsConcat ==
    ASSUME NEW p \in Seq(Item), NEW q \in Seq(Item)
    PROVE  p \o q \in Seq(Item) /\ Items(p \o q) = Items(p) \cup Items(q)
<1>1. /\ p \o q \in Seq(Item) /\ Len(p) \in Nat /\ Len(q) \in Nat
      /\ Len(p \o q) = Len(p) + Len(q)
      /\ \A i \in 1..(Len(p) + Len(q)) : (p \o q)[i] = IF i <= Len(p) THEN p[i] ELSE q[i - Len(p)]
    BY ConcatProperties, LenProperties
<1>2. ASSUME NEW x \in Items(p \o q) PROVE x \in Items(p) \cup Items(q)
    <2>1. PICK i \in 1..(Len(p) + Len(q)) : x = (p \o q)[i]
        BY <1>1 DEF Items
    <2>2. CASE i <= Len(p)
        <3>1. i \in 1..Len(p) /\ x = p[i]
            BY <2>1, <2>2, <1>1
        <3> QED BY <3>1 DEF Items
    <2>3. CASE ~(i <= Len(p))
        <3>1. i - Len(p) \in 1..Len(q) /\ x = q[i - Len(p)]
            BY <2>1, <2>3, <1>1
        <3> QED BY <3>1 DEF Items
    <2> QED BY <2>2, <2>3
<1>3. ASSUME NEW x \in Items(p) PROVE x \in Items(p \o q)
    <2>1. PICK i \in 1..Len(p) : x = p[i]
        BY DEF Items
    <2>2. i \in 1..(Len(p) + Len(q)) /\ x = (p \o q)[i]
        BY <2>1, <1>1
    <2> QED BY <2>2, <1>1 DEF Items
<1>4. ASSUME NEW x \in Items(q) PROVE x \in Items(p \o q)
    <2>1. PICK i \in 1..Len(q) : x = q[i]
        BY DEF Items
    <2>2. Len(p) + i \in 1..(Len(p) + Len(q)) /\ x = (p \o q)[Len(p) + i]
        BY <2>1, <1>1
    <2> QED BY <2>2, <1>1 DEF Items
<1> QED BY <1>1, <1>2, <1>3, <1>4

LEMMA AfterStep ==
    ASSUME TInv, NEW c \in Ctx, todo[c] # <<>>, NEW p \in Seq(Item), Becomes(c, p)
    PROVE  /\ todo'[c] = p \o Tail(todo[c])
           /\ Items(todo'[c]) = Items(p) \cup Behind(todo[c])
           /\ Items(todo[c]) = {todo[c][1]} \cup Behind(todo[c])
           /\ \A d \in Ctx \ {c} : todo'[d] = todo[d]
<1>1. todo \in [Ctx -> Seq(Item)] /\ todo[c] \in Seq(Item)
    BY DEF TInv, TypeOK
<1>2. todo'[c] = p \o Tail(todo[c]) /\ \A d \in Ctx \ {c} : todo'[d] = todo[d]
    BY <1>1 DEF Becomes
<1> QED BY <1>1, <1>2, ItemsAfter DEF Behind

(* A step gives way to others; only Stop leaves a switch-off behind, only  *)
(* a look at the down-buffer a byte to be taken from it.                   *)
LEMMA Works ==
    ASSUME TInv, NEW c \in Ctx, Step(c)
    PROVE  /\ todo[c] # <<>> /\ Running(c)
           /\ \E p \in Seq(Item) :
                 /\ Becomes(c, p)
                 /\ todo[c][1].k # "stop" => \A x \in Items(p) : x.k # "off"
                 /\ todo[c][1].k # "look" => \A x \in Items(p) : x.k # "take"
<1> DEFINE s == todo[c]
           Good(p) == /\ p \in Seq(Item)
                      /\ s[1].k # "stop" => \A x \in Items(p) : x.k # "off"
                      /\ s[1].k # "look" => \A x \in Items(p) : x.k # "take"
<1>1. s # <<>> /\ Running(c)
    BY DEF Step, Record, SendAgain, TrySendOverflow, StorePacket, Unlock, Enable, Sync, Stop,
       SwitchOff, Poll, Claim, Look, Take, Release, At
<1>2. Good(<<>>)
    BY DEF Items
<1>3. ASSUME NEW e \in Event
      PROVE  Dispatch(e) \in Seq(Item) /\ \A x \in Items(Dispatch(e)) : x.k \notin {"off", "take"}
    BY DispatchTypes DEF TInv, Items
<1>4. ASSUME Record(c) PROVE \E p : Good(p) /\ Becomes(c, p)
    <2> DEFINE es == s[1].es
               d == Dispatch(Head(es))
               a == [i \in 1..(Len(es) - 1) |-> About("send", es[i + 1])]
               u == <<Do("unlock")>>
               q == a \o u
    <2>1. s[1].k = "rec" /\ Becomes(c, d \o q)
        BY <1>4 DEF Record, At, Arg
    <2>2. es \in Seq(Event) /\ es # <<>> /\ Head(es) \in Event
        BY <1>1, <2>1, HeadItem DEF Recording
    <2>3. Len(es) \in Nat \ {0} /\ \A i \in 1..Len(es) : es[i] \in Event
        BY <2>2, EmptySeq, LenProperties, ElementOfSeq
    <2>4. a \in Seq(Item) /\ \A x \in Items(a) : x.k = "send"
        <3> DEFINE n == Len(es) - 1
        <3>1. n \in Nat /\ \A i \in 1..n : es[i + 1] \in Event
            BY <2>3
        <3>2. \A i \in 1..n : a[i] \in Item /\ a[i].k = "send"
            BY <3>1, ItemTypes DEF Kind
        <3>3. a \in [1..n -> Item] /\ DOMAIN a = 1..n
            BY <3>2
        <3> HIDE DEF a, n
        <3>4. a \in Seq(Item) /\ Len(a) = n
            BY <3>1, <3>3
        <3> QED BY <3>2, <3>4 DEF Items
    <2>5. u \in Seq(Item) /\ \A x \in Items(u) : x.k = "unlock"
        <3> DEFINE z == Do("unlock")
        <3>1. z \in Item /\ z.k = "unlock"
            BY ItemTypes DEF Kind
        <3> HIDE DEF z
        <3>2. <<z>> \in Seq(Item) /\ \A x \in Items(<<z>>) : x = z
            BY <3>1 DEF Items
        <3> QED BY <3>1, <3>2 DEF z
    <2>6. d \in Seq(Item) /\ \A x \in Items(d) : x.k \notin {"off", "take"}
        BY <1>3, <2>2
    <2> HIDE DEF a, u, d
    <2>7. Good(d \o q)
        <3>1. q \in Seq(Item) /\ Items(q) = Items(a) \cup Items(u)
            BY <2>4, <2>5, ItemsConcat
        <3>2. \A x \in Items(q) : x.k \notin {"off", "take"}
            BY <2>4, <2>5, <3>1
        <3> HIDE DEF q
        <3>3. d \o q \in Seq(Item) /\ Items(d \o q) = Items(d) \cup Items(q)
            BY <2>6, <3>1, ItemsConcat
        <3> QED BY <2>6, <3>2, <3>3
    <2> QED BY <2>1, <2>7
<1>5. ASSUME SendAgain(c) PROVE \E p : Good(p) /\ Becomes(c, p)
    <2>1. s[1].k = "send" /\ Becomes(c, Dispatch(Head(s[1].es)))
        BY <1>5 DEF SendAgain, At, Arg
    <2>2. Head(s[1].es) \in Event
        BY <1>1, <2>1, HeadItem DEF Recording
    <2> QED BY <1>3, <2>1, <2>2
<1>6. ASSUME TrySendOverflow(c) PROVE \E p : Good(p) /\ Becomes(c, p)
    <2> DEFINE z == About("packet", s[1].es[1])
    <2>1. Becomes(c, <<z>>) \/ Becomes(c, <<>>)
        BY <1>6 DEF TrySendOverflow, Arg
    <2>2. s[1].es[1] \in Event
        BY <1>1, <1>6, HeadItem DEF TrySendOverflow, At, Recording
    <2>3. z \in Item /\ z.k = "packet"
        BY <2>2, ItemTypes DEF Kind
    <2> HIDE DEF z
    <2>4. <<z>> \in Seq(Item) /\ \A x \in Items(<<z>>) : x = z
        BY <2>3 DEF Items
    <2>5. Good(<<z>>)
        BY <2>3, <2>4
    <2> QED BY <1>2, <2>1, <2>5
<1>7. ASSUME Stop(c) PROVE \E p : Good(p) /\ Becomes(c, p)
    <2> DEFINE q == <<Do("off"), Do("unlock")>>
    <2>1. s[1].k = "stop" /\ (Becomes(c, <<>>) \/ Becomes(c, Dispatch("stop") \o q))
        BY <1>7 DEF Stop, At
    <2>2. q \in Seq(Item) /\ \A x \in Items(q) : x.k # "take"
        BY OffTypes DEF Items
    <2>3. Dispatch("stop") \in Seq(Item) /\ \A x \in Items(Dispatch("stop")) : x.k # "take"
        BY <1>3 DEF Event
    <2> HIDE DEF q
    <2>4. Good(Dispatch("stop") \o q)
        BY <2>1, <2>2, <2>3, ItemsConcat
    <2> QED BY <1>2, <2>1, <2>4
<1>8. ASSUME Poll(c) PROVE \E p : Good(p) /\ Becomes(c, p)
    <2> DEFINE x == Do("claim")
               y == Do("look")
               z == Do("release")
    <2>1. Becomes(c, <<x, y, z>>) \/ Becomes(c, <<>>)
        BY <1>8 DEF Poll
    <2>2. /\ x \in Item /\ x.k = "claim" /\ y \in Item /\ y.k = "look"
          /\ z \in Item /\ z.k = "release"
        BY ItemTypes DEF Kind
    <2> HIDE DEF x, y, z
    <2>3. <<x, y, z>> \in Seq(Item) /\ \A w \in Items(<<x, y, z>>) : w \in {x, y, z}
        BY <2>2 DEF Items
    <2>4. Good(<<x, y, z>>)
        BY <2>2, <2>3
    <2> QED BY <1>2, <2>1, <2>4
<1>9. ASSUME Look(c) PROVE \E p : Good(p) /\ Becomes(c, p)
    <2> DEFINE z == [s[1] EXCEPT !.k = "take", !.byte = down.buf[down.rd], !.at = down.rd]
    <2>1. s[1].k = "look" /\ (Becomes(c, <<z>>) \/ Becomes(c, <<>>))
        BY <1>9 DEF Look, At
    <2>2. s[1] \in Item /\ down.rd \in DownOffset /\ down.buf[down.rd] \in Byte \cup {0}
        BY <1>1, HeadItem DEF TInv, TypeOK
    <2>3. z \in Item /\ z.k = "take"
        BY <2>2 DEF Item, Kind
    <2> HIDE DEF z
    <2>4. <<z>> \in Seq(Item) /\ \A x \in Items(<<z>>) : x = z
        BY <2>3 DEF Items
    <2>5. Good(<<z>>)
        BY <2>1, <2>3, <2>4
    <2> QED BY <1>2, <2>1, <2>5
<1>10. ASSUME Take(c) PROVE \E p : Good(p) /\ Becomes(c, p)
    <2> DEFINE x == s[1]
               p == CASE x.for = "command" -> Handle(x.byte)
                      [] x.for = "module" -> SendModule(x.byte)
                      [] x.for = "skip" -> <<>>
    <2>1. Becomes(c, p) /\ x.k = "take"
        BY <1>10 DEF Take, At
    <2>2. x \in Item /\ s \in Seq(Item) /\ \E j \in 2..Len(s) : Follows(s[j], x)
        BY <1>1, <2>1, HeadItem DEF Reading
    <2>3. PICK j \in 2..Len(s) : s[j].k = "release"
        BY <2>1, <2>2 DEF Follows, Reading
    <2>4. p \in {Handle(x.byte), SendModule(x.byte), <<>>}
        <3>1. x.for \in {"command", "module", "skip"}
            BY <2>2 DEF Item
        <3> QED BY <3>1
    <2> HIDE DEF p
    <2>5. /\ p \in Seq(Item)
          /\ \A i \in 1..Len(p) : p[i].k \notin {"off", "take"}
        BY <2>2, <2>3, <2>4, HandleJoins DEF TInv
    <2>6. Good(p)
        BY <2>5 DEF Items
    <2> QED BY <2>1, <2>6
<1>11. ASSUME \/ StorePacket(c) \/ Unlock(c) \/ Enable(c) \/ Sync(c) \/ SwitchOff(c)
              \/ Claim(c) \/ Release(c)
       PROVE  \E p : Good(p) /\ Becomes(c, p)
    <2>1. Becomes(c, <<>>)
        BY <1>11 DEF StorePacket, Unlock, Enable, Sync, SwitchOff, Claim, Release
    <2> QED BY <1>2, <2>1
<1>12. \E p : Good(p) /\ Becomes(c, p)
    <2> HIDE DEF Good
    <2> QED BY <1>4, <1>5, <1>6, <1>7, <1>8, <1>9, <1>10, <1>11 DEF Step
<1> QED BY <1>1, <1>12

-----------------------------------------------------------------------------
(* Gaps *)

(* Part of a Start whose first packet tells the host of the gap.           *)
Mark(x) == x.k = "sync" \/ (x.k \in {"rec", "packet", "overflow"} /\ x.es = <<"start">>)

Marked == gap = "open" /\ EnableState = ON => Restarting

LEMMA MarksRemain ==
    ASSUME TInv, NEW c \in Ctx, Step(c), Restarting,
           Mark(todo[c][1]) => \E x \in Behind(todo[c]) : Mark(x)
    PROVE  Restarting'
<1>1. PICK p \in Seq(Item) : Becomes(c, p)
    BY Works
<1>2. /\ Items(todo'[c]) = Items(p) \cup Behind(todo[c])
      /\ Items(todo[c]) = {todo[c][1]} \cup Behind(todo[c])
      /\ \A d \in Ctx \ {c} : todo'[d] = todo[d]
    BY <1>1, Works, AfterStep
<1>3. PICK d \in Ctx : \E x \in Items(todo[d]) : Mark(x)
    BY DEF Restarting, Mark
<1>4. CASE d = c
    BY <1>2, <1>3, <1>4 DEF Restarting, Mark
<1>5. CASE d # c
    BY <1>2, <1>3, <1>5 DEF Restarting, Mark
<1> QED BY <1>4, <1>5

LEMMA StartBehind ==
    ASSUME TInv, NEW c \in Ctx, todo[c] # <<>>, todo[c][1].k \in Beginning
    PROVE  \E x \in Behind(todo[c]) : Mark(x)
<1>1. PICK j \in 2..Len(todo[c]) : Follows(todo[c][j], todo[c][1])
    BY HeadItem
<1>2. todo[c][j].k = "rec" /\ todo[c][j].es = <<"start">>
    BY <1>1 DEF Follows
<1> QED BY <1>2 DEF Behind, Mark

LEMMA MarkedStep ==
    ASSUME TInv, Marked, NEW c \in Ctx, Step(c)
    PROVE  Marked'
<1> DEFINE s == todo[c]
<1>1. s # <<>> /\ Running(c)
    BY Works
<1>2. ASSUME UNCHANGED <<gap, EnableState>>,
             Mark(s[1]) => \E x \in Behind(s) : Mark(x)
      PROVE  Marked'
    BY <1>2, MarksRemain DEF Marked
<1>3. CASE Record(c)
    <2>1. s[1].k = "rec" /\ UNCHANGED <<gap, EnableState>>
        BY <1>3 DEF Record, At, globals, hist
    <2>2. CASE s[1].es # <<"start">>
        BY <1>2, <2>1, <2>2 DEF Mark
    <2>3. CASE s[1].es = <<"start">>
        <3> SUFFICES ASSUME EnableState = ON PROVE Restarting'
            BY <2>1 DEF Marked
        <3> DEFINE x == About("packet", "start")
                   d == <<x, Do("poll")>>
                   q == [i \in 1..(Len(s[1].es) - 1) |-> About("send", s[1].es[i + 1])]
                            \o <<Do("unlock")>>
        <3>1. Becomes(c, d \o q)
            <4>1. Head(s[1].es) = "start"
                BY <2>3
            <4>2. Dispatch("start") = d
                <5>1. EnableState = ON /\ EnableState # OFF /\ EnableState # DROPPING
                    BY DEF ON, OFF, DROPPING
                <5> QED BY <5>1 DEF Dispatch
            <4>3. Becomes(c, Dispatch(Head(s[1].es)) \o q)
                BY <1>3 DEF Record, Arg
            <4> QED BY <4>1, <4>2, <4>3
        <3>2. q \in Seq(Item)
            <4>1. s[1].es \in Seq(Event) /\ s[1].es # <<>>
                BY <1>1, <2>1, HeadItem DEF Recording
            <4> QED BY <4>1, SendsTypes
        <3>3. x \in Item /\ x.k = "packet" /\ x.es = <<"start">> /\ Do("poll") \in Item
            <4>1. "start" \in Event /\ "packet" \in Kind /\ "poll" \in Kind
                BY DEF Event, Kind
            <4> QED BY <4>1, ItemTypes
        <3> HIDE DEF x, q
        <3>4. d \in Seq(Item) /\ x \in Items(d)
            BY <3>3 DEF Items
        <3> HIDE DEF d
        <3>5. d \o q \in Seq(Item) /\ x \in Items(d \o q)
            BY <3>2, <3>4, ItemsConcat
        <3>6. x \in Items(todo'[c])
            <4> DEFINE p == d \o q
            <4>1. p \in Seq(Item) /\ x \in Items(p) /\ Becomes(c, p)
                BY <3>1, <3>5
            <4> HIDE DEF p
            <4>2. Items(todo'[c]) = Items(p) \cup Behind(s)
                BY <1>1, <4>1, AfterStep
            <4> QED BY <4>1, <4>2
        <3> QED BY <3>3, <3>6 DEF Restarting
    <2> QED BY <2>2, <2>3
<1>4. CASE TrySendOverflow(c)
    <2>1. EnableState = DROPPING
        BY <1>1, <1>4, HeadItem DEF TrySendOverflow, At, HeadFits
    <2>2. gap' = "no" \/ EnableState' = EnableState
        BY <1>4 DEF TrySendOverflow, Store
    <2> QED BY <2>1, <2>2 DEF Marked, ON, DROPPING
<1>5. CASE StorePacket(c)
    <2>1. s[1].k = "packet"
        BY <1>5 DEF StorePacket, At
    <2>2. EnableState = ON /\ s[1].es # <<>>
        BY <1>1, <2>1, HeadItem DEF HeadFits, Recording
    <2>3. CASE Skipped(s[1].es[1])
        <3>1. CASE s[1].es[1] = "start"
            BY <2>3, <3>1 DEF Skipped, Marked
        <3>2. CASE s[1].es[1] # "start"
            <4>1. s[1].es # <<"start">> /\ UNCHANGED <<gap, EnableState>>
                BY <2>3, <3>2 DEF Skipped
            <4> QED BY <1>2, <2>1, <4>1 DEF Mark
        <3> QED BY <3>1, <3>2
    <2>4. CASE gap' = "no"
        BY <2>4 DEF Marked
    <2>5. CASE EnableState' = EnableState + 1
        BY <2>2, <2>5 DEF Marked, ON
    <2> QED BY <1>5, <2>3, <2>4, <2>5 DEF StorePacket, Store, Arg
<1>6. CASE Enable(c)
    <2>1. s[1].k = "enable" /\ Becomes(c, <<>>)
        BY <1>6 DEF Enable, At
    <2>2. PICK x \in Behind(s) : Mark(x)
        BY <1>1, <2>1, StartBehind DEF Beginning
    <2>3. x \in Items(todo'[c])
        BY <1>1, <2>1, NothingJoins, AfterStep
    <2> QED BY <2>2, <2>3 DEF Marked, Restarting, Mark
<1>7. CASE Sync(c)
    <2>1. s[1].k = "sync" /\ UNCHANGED EnableState
        BY <1>7 DEF Sync, At, globals
    <2>2. gap' = "no" \/ UNCHANGED gap
        BY <1>7 DEF Sync
    <2>3. \E x \in Behind(s) : Mark(x)
        BY <1>1, <2>1, StartBehind DEF Beginning
    <2> QED BY <1>2, <2>1, <2>2, <2>3 DEF Marked
<1>8. CASE SwitchOff(c)
    BY <1>8 DEF SwitchOff, Marked, ON, OFF
<1>9. CASE \/ SendAgain(c) \/ Unlock(c) \/ Stop(c) \/ Poll(c) \/ Claim(c) \/ Look(c)
           \/ Take(c) \/ Release(c)
    <2>1. UNCHANGED <<gap, EnableState>>
        BY <1>9 DEF SendAgain, Unlock, Stop, Poll, Claim, Look, Take, Release, globals, hist
    <2>2. s[1].k \in {"send", "unlock", "stop", "poll", "claim", "look", "take", "release"}
        BY <1>9 DEF SendAgain, Unlock, Stop, Poll, Claim, Look, Take, Release, At
    <2>3. ~Mark(s[1])
        BY <2>2 DEF Mark
    <2> QED BY <1>2, <2>1, <2>3
<1> QED BY <1>3, <1>4, <1>5, <1>6, <1>7, <1>8, <1>9 DEF Step

(* A call that begins takes nothing away.                                 *)
LEMMA CallerAdds ==
    ASSUME TInv, Caller
    PROVE  /\ UNCHANGED <<down, EnableState, gap, asked, inbox>>
           /\ \A c \in Ctx : todo'[c] = todo[c] \/ (todo[c] = <<>> /\ \E p : Begin(c, p))
    BY DEF Caller, Interrupt, MainCall, MaskEvents, RegisterModule, Begin, Ctx, globals, hist,
       TInv, TypeOK

LEMMA MarkedKeeps == TInv /\ Marked /\ [Next]_vars => Marked'
<1> SUFFICES ASSUME TInv, Marked, [Next]_vars PROVE Marked'
    OBVIOUS
<1>1. CASE \E c \in Ctx : Step(c)
    BY <1>1, MarkedStep
<1>2. CASE Caller
    <2>1. UNCHANGED <<EnableState, gap>>
        BY <1>2, CallerAdds
    <2>2. ASSUME Restarting PROVE Restarting'
        <3>1. PICK c \in Ctx : \E x \in Items(todo[c]) : Mark(x)
            BY <2>2 DEF Restarting, Mark
        <3>2. todo'[c] = todo[c]
            BY <1>2, <3>1, CallerAdds DEF Items
        <3> QED BY <3>1, <3>2 DEF Restarting, Mark
    <2> QED BY <2>1, <2>2 DEF Marked
<1>3. CASE Host \/ Tick \/ UNCHANGED vars
    <2>1. UNCHANGED <<EnableState, gap, todo>>
        BY <1>3 DEF Host, HostRead, HostSend, Tick, vars, globals, hist
    <2> QED BY <2>1 DEF Marked, Restarting
<1> QED BY <1>1, <1>2, <1>3 DEF Next

(* Whatever buffer, packets, disabled events and interleaving: the first   *)
(* thing stored after a loss is an overflow packet, a sync or a start      *)
(* event, unless recording is just being restarted, or was restarted       *)
(* with its start event disabled.                                          *)
THEOREM LossesShow == Spec => GapsMarkedUnlessMuted
<1>1. Init => Marked
    BY DEF Init, Marked
<1>2. TInv /\ Marked => \A c \in Ctx : Stored(c) /\ gap = "open" /\ Arg(c) # <<"start">>
                                         => Restarting
    <2> SUFFICES ASSUME TInv, Marked, NEW c \in Ctx, At(c, "packet"), gap = "open"
                 PROVE  Restarting
        BY DEF Stored
    <2>1. EnableState = ON
        BY HeadItem DEF At, HeadFits
    <2> QED BY <2>1 DEF Marked
<1> QED BY InvariantHolds, <1>1, <1>2, MarkedKeeps, PTL DEF Spec, GapsMarkedUnlessMuted

-----------------------------------------------------------------------------
(* What a call begins with *)

Opening == {"enable", "sync", "rec", "poll", "stop", "unlock"}

LEMMA CallerOpens ==
    ASSUME TInv, Caller
    PROVE  /\ UNCHANGED <<down, EnableState, asked, inbox>>
           /\ \A c \in Ctx : todo'[c] = todo[c] \/ \A x \in Items(todo'[c]) : x.k \in Opening
<1> DEFINE Opens(p) == \A x \in Items(p) : x.k \in Opening
<1>1. \A p \in Seq(Item) : Plain(p) => Opens(p)
    BY DEF Plain, Items, Opening
<1>2. Opens(Start)
    BY StartJoins DEF Items, Opening
<1>3. \A e \in Event : Opens(<<Rec(<<e>>)>>)
    BY <1>1, PlainOnes
<1>4. Opens(<<Do("stop")>>) /\ Opens(<<Do("poll")>>)
    <2>1. \A k \in {"stop", "poll"} : <<Do(k)>> \in Seq(Item) /\ Plain(<<Do(k)>>)
        BY PlainOnes
    <2> HIDE DEF Opens
    <2> QED BY <1>1, <2>1
<1>5. Opens(<<Rec(<<"info">>), Rec(<<"info">>), Do("unlock")>>)
    <2> DEFINE x == Rec(<<"info">>)
               u == Do("unlock")
    <2>1. x \in Item /\ x.k = "rec" /\ u \in Item /\ u.k = "unlock"
        <3>1. "info" \in Event /\ "unlock" \in Kind
            BY DEF Event, Kind
        <3> QED BY <3>1, ItemTypes
    <2> HIDE DEF x, u
    <2>2. \A y \in Items(<<x, x, u>>) : y \in {x, u}
        BY <2>1 DEF Items
    <2>3. Opens(<<x, x, u>>)
        BY <2>1, <2>2 DEF Opening
    <2> QED BY <2>3 DEF x, u
<1> HIDE DEF Opens
<1>6. todo' = todo \/ \E d \in Ctx : \E p : Begin(d, p) /\ Opens(p)
    <2>1. "std" \in Event /\ "user" \in Event /\ "main" \in Ctx /\ "isr" \in Ctx
        BY DEF Event, Ctx
    <2> QED BY <1>2, <1>3, <1>4, <1>5, <2>1
               DEF Caller, Interrupt, MainCall, MaskEvents, RegisterModule
<1>7. \A d \in Ctx : \A p : Begin(d, p) =>
          todo'[d] = p /\ \A c \in Ctx \ {d} : todo'[c] = todo[c]
    BY DEF Begin, TInv, TypeOK
<1>8. \A c \in Ctx : todo'[c] = todo[c] \/ Opens(todo'[c])
    BY <1>6, <1>7
<1> QED BY <1>8, CallerAdds DEF Opens

-----------------------------------------------------------------------------
(* Start and Stop *)

SwitchingOff(c) == \E x \in Items(todo[c]) : x.k = "off"

Request ==
    IF \E c \in Ctx : SwitchingOff(c) THEN asked # "start"
    ELSE (EnableState # OFF <=> asked = "start")

(* A Stop under way locks out the other context.                          *)
LEMMA StopAlone ==
    ASSUME TInv, NEW c \in Ctx, todo[c] # <<>>, Running(c), NEW d \in Ctx, SwitchingOff(d)
    PROVE  d = c
<1>1. PICK i \in 1..Len(todo[d]) : todo[d][i].k = "off"
    BY DEF SwitchingOff, Items
<1>2. todo[d] \in Seq(Item) /\ Shape(todo[d])
    BY DEF TInv, TypeOK, Order
<1>3. PICK j \in (i + 1)..Len(todo[d]) : Follows(todo[d][j], todo[d][i])
    BY <1>1, <1>2 DEF Shape, Locking
<1>4. todo[d][j].k = "unlock" /\ j \in 1..Len(todo[d])
    BY <1>1, <1>2, <1>3 DEF Follows, Locking
<1>5. Locked(d)
    BY <1>4 DEF Locked, Items
<1>6. todo[d] # <<>>
    BY <1>1
<1> QED BY <1>5, <1>6 DEF TInv, Order, Running, Ctx

LEMMA RequestStep ==
    ASSUME TInv, Request, NEW c \in Ctx, Step(c)
    PROVE  Request'
<1> DEFINE s == todo[c]
<1>1. s # <<>> /\ Running(c)
    BY Works
<1>2. PICK p \in Seq(Item) :
          /\ Becomes(c, p)
          /\ s[1].k # "stop" => \A x \in Items(p) : x.k # "off"
    BY Works
<1>3. /\ Items(todo'[c]) = Items(p) \cup Behind(s)
      /\ Items(s) = {s[1]} \cup Behind(s)
      /\ \A d \in Ctx \ {c} : todo'[d] = todo[d]
    BY <1>1, <1>2, AfterStep
<1>4. s[1].k \notin {"stop", "off"} => \A d \in Ctx : SwitchingOff(d)' <=> SwitchingOff(d)
    <2> SUFFICES ASSUME s[1].k \notin {"stop", "off"}, NEW d \in Ctx
                 PROVE  SwitchingOff(d)' <=> SwitchingOff(d)
        OBVIOUS
    <2>1. CASE d = c
        BY <1>2, <1>3, <2>1 DEF SwitchingOff
    <2>2. CASE d # c
        BY <1>3, <2>2 DEF SwitchingOff
    <2> QED BY <2>1, <2>2
<1>5. ASSUME s[1].k \notin {"stop", "off"}, UNCHANGED asked,
             EnableState' # OFF <=> EnableState # OFF
      PROVE  Request'
    BY <1>4, <1>5 DEF Request
<1>6. CASE \/ Record(c) \/ SendAgain(c) \/ Unlock(c) \/ Sync(c)
           \/ Poll(c) \/ Claim(c) \/ Look(c) \/ Take(c) \/ Release(c)
    <2>1. UNCHANGED <<asked, EnableState>>
        BY <1>6 DEF Record, SendAgain, Unlock, Sync, Poll, Claim, Look, Take, Release, globals, hist
    <2>2. s[1].k \notin {"stop", "off"}
        BY <1>6 DEF Record, SendAgain, Unlock, Sync, Poll, Claim, Look, Take, Release, At
    <2> QED BY <1>5, <2>1, <2>2
<1>7. CASE TrySendOverflow(c)
    <2>1. s[1].k = "overflow" /\ UNCHANGED asked
        BY <1>7 DEF TrySendOverflow, At
    <2>2. EnableState = DROPPING
        BY <1>1, <2>1, HeadItem DEF HeadFits
    <2>3. EnableState' = EnableState - 1 \/ EnableState' = EnableState
        BY <1>7 DEF TrySendOverflow
    <2> QED BY <1>5, <2>1, <2>2, <2>3 DEF OFF, DROPPING
<1>8. CASE StorePacket(c)
    <2>1. s[1].k = "packet" /\ UNCHANGED asked
        BY <1>8 DEF StorePacket, At
    <2>2. EnableState = ON
        BY <1>1, <2>1, HeadItem DEF HeadFits
    <2>3. EnableState' = EnableState + 1 \/ EnableState' = EnableState
        BY <1>8 DEF StorePacket, Skipped
    <2> QED BY <1>5, <2>1, <2>2, <2>3 DEF OFF, ON
<1>9. CASE Enable(c)
    <2>1. /\ s[1].k = "enable" /\ EnableState' = ON
          /\ asked' = IF SwitchingOff(c) THEN "undone" ELSE "start"
        BY <1>9 DEF Enable, At, SwitchingOff
    <2>2. CASE \E d \in Ctx : SwitchingOff(d)
        <3>1. SwitchingOff(c)
            BY <1>1, <2>2, StopAlone
        <3> QED BY <1>4, <2>1, <2>2, <3>1 DEF Request
    <2>3. CASE ~\E d \in Ctx : SwitchingOff(d)
        BY <1>4, <2>1, <2>3 DEF Request, ON, OFF
    <2> QED BY <2>2, <2>3
<1>10. CASE Stop(c)
    <2>1. asked' = "stop" /\ UNCHANGED EnableState
        BY <1>10 DEF Stop, globals
    <2>2. CASE EnableState = OFF
        BY <2>1, <2>2 DEF Request
    <2>3. CASE EnableState # OFF
        <3> DEFINE q == <<Do("off"), Do("unlock")>>
                   d == Dispatch("stop")
                   r == d \o q
        <3>1. Becomes(c, r)
            BY <1>10, <2>3 DEF Stop
        <3>2. d \in Seq(Item)
            BY DispatchTypes DEF TInv, Event
        <3>3. q \in Seq(Item) /\ \E x \in Items(q) : x.k = "off"
            <4> DEFINE x == Do("off")
                       y == Do("unlock")
            <4>1. x \in Item /\ x.k = "off" /\ y \in Item
                BY ItemTypes DEF Kind
            <4> HIDE DEF x, y
            <4>2. <<x, y>> \in Seq(Item) /\ x \in Items(<<x, y>>)
                BY <4>1 DEF Items
            <4> QED BY <4>1, <4>2 DEF x, y
        <3> HIDE DEF d, q
        <3>4. r \in Seq(Item) /\ \E x \in Items(r) : x.k = "off"
            BY <3>2, <3>3, ItemsConcat
        <3> HIDE DEF r
        <3>5. Items(todo'[c]) = Items(r) \cup Behind(s)
            BY <1>1, <3>1, <3>4, AfterStep
        <3>6. SwitchingOff(c)'
            BY <3>4, <3>5 DEF SwitchingOff
        <3> QED BY <2>1, <3>6 DEF Request
    <2> QED BY <2>2, <2>3
<1>11. CASE SwitchOff(c)
    <2>1. s[1].k = "off" /\ EnableState' = OFF /\ UNCHANGED asked
        BY <1>11 DEF SwitchOff, At, hist
    <2>2. SwitchingOff(c)
        BY <1>3, <2>1 DEF SwitchingOff
    <2>3. asked' # "start"
        BY <2>1, <2>2 DEF Request
    <2> QED BY <2>1, <2>3 DEF Request
<1> QED BY <1>6, <1>7, <1>8, <1>9, <1>10, <1>11 DEF Step

LEMMA RequestKeeps == TInv /\ Request /\ [Next]_vars => Request'
<1> SUFFICES ASSUME TInv, Request, [Next]_vars PROVE Request'
    OBVIOUS
<1>1. CASE \E c \in Ctx : Step(c)
    BY <1>1, RequestStep
<1>2. CASE Caller
    <2>1. UNCHANGED <<EnableState, asked>>
        BY <1>2, CallerOpens
    <2>2. \A c \in Ctx : todo'[c] = todo[c] \/ ~SwitchingOff(c)'
        BY <1>2, CallerOpens DEF SwitchingOff, Opening
    <2>3. \A c \in Ctx : SwitchingOff(c) => SwitchingOff(c)'
        <3>1. \A c \in Ctx : SwitchingOff(c) => todo[c] # <<>>
            BY DEF SwitchingOff, Items
        <3> QED BY <1>2, <3>1, CallerAdds DEF SwitchingOff
    <2>4. \A c \in Ctx : SwitchingOff(c)' <=> SwitchingOff(c)
        BY <2>2, <2>3 DEF SwitchingOff
    <2> QED BY <2>1, <2>4 DEF Request
<1>3. CASE Host \/ Tick \/ UNCHANGED vars
    <2>1. UNCHANGED <<EnableState, asked, todo>>
        BY <1>3 DEF Host, HostRead, HostSend, Tick, vars, globals, hist
    <2> QED BY <2>1 DEF Request, SwitchingOff
<1> QED BY <1>1, <1>2, <1>3 DEF Next

(* Whatever interrupts it and whatever the host asks meanwhile: between    *)
(* calls the recorder does what it was last asked to do, except that a     *)
(* START of the host that is handled inside a Stop, by the _SendPacket of  *)
(* its stop event, leaves it off (SEGGER_SYSVIEW.c:1891).                  *)
THEOREM RequestsCount == Spec => []LastRequestWinsUnlessUndone
<1>1. Init => Request
    BY DEF Init, Request, SwitchingOff, Items
<1>2. Request => LastRequestWinsUnlessUndone
    BY DEF Request, LastRequestWinsUnlessUndone, Idle, SwitchingOff, Items
<1> QED BY InvariantHolds, <1>1, <1>2, RequestKeeps, PTL DEF Spec

-----------------------------------------------------------------------------
(* The bytes of the host *)

(* A byte that is being taken is the first one not yet read.              *)
Taking ==
    \A c \in Ctx : todo[c] # <<>> /\ todo[c][1].k = "take" =>
        /\ todo[c][1].at = down.rd /\ down.rd # down.wr
        /\ todo[c][1].byte = down.buf[down.rd]

Commands == inbox = Unread /\ Taking

(* Only what stands in front can be a byte being taken.                   *)
LEMMA TakesInFront ==
    ASSUME TInv, NEW c \in Ctx
    PROVE  /\ todo[c] \in Seq(Item)
           /\ \A x \in Items(todo[c]) : x.k = "take" => todo[c] # <<>> /\ x = todo[c][1]
           /\ \A x \in Behind(todo[c]) : x.k # "take"
<1>1. todo[c] \in Seq(Item) /\ Shape(todo[c])
    BY DEF TInv, TypeOK, Order
<1>2. \A i \in 1..Len(todo[c]) : todo[c][i].k = "take" => i = 1
    BY <1>1 DEF Shape, Front
<1>3. Len(todo[c]) \in Nat
    BY <1>1
<1>4. \A i \in 2..Len(todo[c]) : todo[c][i].k # "take"
    BY <1>2, <1>3
<1> QED BY <1>1, <1>2, <1>4 DEF Items, Behind

LEMMA FirstItem ==
    ASSUME NEW s \in Seq(Item), s # <<>>
    PROVE  s[1] \in Items(s)
<1>1. 1 \in 1..Len(s)
    BY EmptySeq, LenProperties
<1> QED BY <1>1 DEF Items

(* The contexts do not read at the same time.                             *)
LEMMA ReadsAlone ==
    ASSUME TInv, NEW c \in Ctx, todo[c] # <<>>, todo[c][1].k = "take",
           NEW d \in Ctx, todo[d] # <<>>, todo[d][1].k = "take"
    PROVE  c = d
<1>1. ASSUME NEW e \in Ctx, todo[e] # <<>>, todo[e][1].k = "take"
      PROVE  Active(todo[e])
    <2>1. PICK j \in 2..Len(todo[e]) : Follows(todo[e][j], todo[e][1])
        BY <1>1, HeadItem DEF Reading
    <2>2. todo[e][j].k = "release"
        BY <1>1, <2>1 DEF Follows, Reading
    <2>3. todo[e][j] \in Items(todo[e])
        BY <2>1 DEF Items
    <2> QED BY <1>1, <2>2, <2>3 DEF Active
<1>2. Active(todo[c]) /\ Active(todo[d])
    BY <1>1
<1> QED BY <1>2 DEF TInv, Busy, Ctx

(* Reading a byte takes the first one off.                                *)
LEMMA UnreadTail ==
    ASSUME NEW r \in DownOffset, NEW w \in DownOffset, r # w
    PROVE  /\ Distance(r, w) \in Nat \ {0}
           /\ Wrap(r + 1) \in DownOffset
           /\ Distance(Wrap(r + 1), w) = Distance(r, w) - 1
           /\ \A i \in 1..(Distance(r, w) - 1) :
                 Wrap(Wrap(r + 1) + i - 1) = Wrap(r + (i + 1) - 1)
           /\ Wrap(r + 1 - 1) = r
    BY SystemViewAssumption DEF DownOffset, Wrap, Distance

(* Sending n bytes puts them behind those not yet read.                   *)
LEMMA UnreadMore ==
    ASSUME NEW r \in DownOffset, NEW w \in DownOffset, NEW n \in {1, 2},
           Distance(r, w) + n < DownSize
    PROVE  /\ Distance(r, w) \in Nat
           /\ Distance(r, Wrap(w + n)) = Distance(r, w) + n
           /\ \A i \in 1..Distance(r, w) : /\ Wrap(r + i - 1) \in DownOffset
                                           /\ Distance(w, Wrap(r + i - 1)) + 1 > n
           /\ \A i \in 1..n : /\ Wrap(r + (Distance(r, w) + i) - 1) \in DownOffset
                              /\ Distance(w, Wrap(r + (Distance(r, w) + i) - 1)) + 1 = i
           /\ r # w => r # Wrap(w + n) /\ Distance(w, r) + 1 > n
    BY SystemViewAssumption DEF DownOffset, Wrap, Distance

LEMMA CommandsTake ==
    ASSUME TInv, Commands, NEW c \in Ctx, Take(c)
    PROVE  inbox' = Unread'
<1> DEFINE r == down.rd
           w == down.wr
           n == Distance(r, w)
<1>1. todo[c] # <<>> /\ todo[c][1].k = "take"
    BY DEF Take, At
<1>2. r \in DownOffset /\ w \in DownOffset /\ r # w /\ todo[c][1].at = r
    BY <1>1 DEF Commands, Taking, TInv, TypeOK
<1>3. down.rd' = Wrap(r + 1) /\ down.wr' = w /\ down.buf' = down.buf
    BY <1>2 DEF Take, TInv, TypeOK
<1>4. inbox = [i \in 1..n |-> down.buf[Wrap(r + i - 1)]] /\ inbox' = SubSeq(inbox, 2, Len(inbox))
    BY DEF Commands, Unread, Take
<1>5. /\ n \in Nat \ {0} /\ Distance(Wrap(r + 1), w) = n - 1
      /\ \A i \in 1..(n - 1) : Wrap(Wrap(r + 1) + i - 1) = Wrap(r + (i + 1) - 1)
    BY <1>2, UnreadTail
<1>6. Unread' = [i \in 1..(n - 1) |-> down.buf[Wrap(Wrap(r + 1) + i - 1)]]
    BY <1>3, <1>5 DEF Unread
<1> HIDE DEF n
<1>7. /\ inbox \in Seq(Byte) /\ Len(inbox) = n
      /\ \A i \in 1..n : inbox[i] = down.buf[Wrap(r + i - 1)]
    <2>1. inbox \in Seq(Byte)
        BY DEF TInv, TypeOK
    <2> QED BY <2>1, <1>4, <1>5
<1>8. inbox' = [i \in 1..(n - 1) |-> inbox[i + 1]]
    BY <1>4, <1>5, <1>7
<1>9. \A i \in 1..(n - 1) : inbox[i + 1] = down.buf[Wrap(Wrap(r + 1) + i - 1)]
    <2>1. \A i \in 1..(n - 1) : i + 1 \in 1..n
        BY <1>5
    <2> QED BY <1>5, <1>7, <2>1
<1> QED BY <1>6, <1>8, <1>9

LEMMA CommandsStep ==
    ASSUME TInv, Commands, NEW c \in Ctx, Step(c)
    PROVE  Commands'
<1> DEFINE s == todo[c]
<1>0. TInv'
    <2>1. Next
        BY DEF Next
    <2> QED BY <2>1, StepKeeps
<1>1. s # <<>> /\ Running(c)
    BY Works
<1>2. PICK p \in Seq(Item) :
          /\ Becomes(c, p)
          /\ s[1].k # "look" => \A x \in Items(p) : x.k # "take"
    BY Works
<1>3. /\ Items(todo'[c]) = Items(p) \cup Behind(s)
      /\ \A d \in Ctx \ {c} : todo'[d] = todo[d]
    BY <1>1, <1>2, AfterStep
<1>4. s[1].k # "look" => \A x \in Items(todo'[c]) : x.k # "take"
    BY <1>2, <1>3, TakesInFront
<1>5. s[1].k # "look" => ~(todo'[c] # <<>> /\ todo'[c][1].k = "take")
    <2>1. todo'[c] \in Seq(Item)
        BY <1>0 DEF TInv, TypeOK
    <2> QED BY <1>4, <2>1, FirstItem
<1>6. CASE \/ Record(c) \/ SendAgain(c) \/ TrySendOverflow(c) \/ StorePacket(c) \/ Unlock(c)
           \/ Enable(c) \/ Sync(c) \/ Stop(c) \/ SwitchOff(c)
           \/ Poll(c) \/ Claim(c) \/ Release(c)
    <2>1. UNCHANGED <<down, inbox>>
        BY <1>6 DEF Record, SendAgain, TrySendOverflow, StorePacket, Unlock, Enable, Sync, Stop,
                    SwitchOff, Poll, Claim, Release, globals, hist
    <2>2. s[1].k # "look"
        BY <1>6 DEF Record, SendAgain, TrySendOverflow, StorePacket, Unlock, Enable, Sync, Stop,
                    SwitchOff, Poll, Claim, Release, At
    <2>3. Taking'
        BY <1>3, <1>5, <2>1, <2>2 DEF Commands, Taking
    <2> QED BY <2>1, <2>3 DEF Commands, Unread
<1>7. CASE Look(c)
    <2>1. UNCHANGED <<down, inbox>> /\ s[1].k = "look"
        BY <1>7 DEF Look, At, hist
    <2> DEFINE z == [s[1] EXCEPT !.k = "take", !.byte = down.buf[down.rd], !.at = down.rd]
    <2>2. CASE down.wr = down.rd
        <3>1. Becomes(c, <<>>)
            BY <1>7, <2>2 DEF Look
        <3>2. Items(todo'[c]) = Behind(s)
            <4> DEFINE e == <<>>
            <4>1. e \in Seq(Item) /\ Items(e) = {} /\ Becomes(c, e)
                BY <3>1 DEF Items
            <4> HIDE DEF e
            <4>2. Items(todo'[c]) = Items(e) \cup Behind(s)
                BY <1>1, <4>1, AfterStep
            <4> QED BY <4>1, <4>2
        <3>3. todo'[c] \in Seq(Item) /\ \A x \in Items(todo'[c]) : x.k # "take"
            <4>1. todo'[c] \in Seq(Item)
                BY <1>0 DEF TInv, TypeOK
            <4>2. \A x \in Behind(s) : x.k # "take"
                BY TakesInFront
            <4> QED BY <3>2, <4>1, <4>2
        <3>4. ~(todo'[c] # <<>> /\ todo'[c][1].k = "take")
            BY <3>3, FirstItem
        <3>5. Taking'
            BY <1>3, <2>1, <3>4 DEF Commands, Taking
        <3> QED BY <2>1, <3>5 DEF Commands, Unread
    <2>3. CASE down.wr # down.rd
        <3>1. Becomes(c, <<z>>)
            BY <1>7, <2>3 DEF Look
        <3>2. s \in Seq(Item) /\ s[1] \in Item
            BY <1>1, HeadItem
        <3>3. z.at = down.rd /\ z.byte = down.buf[down.rd] /\ z \in Item
            <4>1. down.rd \in DownOffset /\ down.buf[down.rd] \in Byte \cup {0}
                BY DEF TInv, TypeOK
            <4> QED BY <3>2, <4>1 DEF Item, Kind
        <3> HIDE DEF z
        <3>4. todo'[c] = <<z>> \o Tail(s)
            <4> DEFINE t == <<z>>
            <4>1. t \in Seq(Item) /\ Becomes(c, t)
                BY <3>1, <3>3
            <4> HIDE DEF t
            <4>2. todo'[c] = t \o Tail(s)
                BY <1>1, <4>1, AfterStep
            <4> QED BY <4>2 DEF t
        <3>5. todo'[c][1] = z
            <4>1. /\ <<z>> \in Seq(Item) /\ Len(<<z>>) = 1 /\ <<z>>[1] = z
                BY <3>3
            <4>2. Len(s) \in Nat \ {0} /\ Tail(s) \in Seq(Item)
                BY <1>1, <3>2, EmptySeq, LenProperties, HeadTailProperties
            <4> HIDE DEF s
            <4> QED BY <3>4, <4>1, <4>2, ConcatProperties
        <3>6. Taking'
            BY <1>3, <2>1, <2>3, <3>3, <3>5 DEF Commands, Taking
        <3> QED BY <2>1, <3>6 DEF Commands, Unread
    <2> QED BY <2>2, <2>3
<1>8. CASE Take(c)
    <2>1. s[1].k = "take"
        BY <1>8 DEF Take, At
    <2>2. ASSUME NEW d \in Ctx PROVE ~(todo'[d] # <<>> /\ todo'[d][1].k = "take")
        <3>1. CASE d = c
            BY <1>5, <2>1, <3>1
        <3>2. CASE d # c
            BY <1>1, <1>3, <2>1, <3>2, ReadsAlone
        <3> QED BY <3>1, <3>2
    <2> QED BY <1>8, <2>2, CommandsTake DEF Commands, Taking
<1> QED BY <1>6, <1>7, <1>8 DEF Step

LEMMA CommandsSend ==
    ASSUME TInv, Commands, HostSend
    PROVE  Commands'
<1> DEFINE r == down.rd
           w == down.wr
           n == Distance(r, w)
<1>1. PICK msg \in Message :
          /\ n + Len(msg) < DownSize
          /\ down' = [down EXCEPT
                        !.buf = [i \in DownOffset |->
                                   LET j == Distance(w, i) + 1
                                   IN  IF j <= Len(msg) THEN msg[j] ELSE down.buf[i]],
                        !.wr = Wrap(w + Len(msg))]
          /\ inbox' = inbox \o msg /\ UNCHANGED todo
    BY DEF HostSend
<1> DEFINE m == Len(msg)
<1>2. /\ msg \in Seq(Byte) /\ m \in {1, 2} /\ r \in DownOffset /\ w \in DownOffset
      /\ down \in [buf : [DownOffset -> Byte \cup {0}], wr : DownOffset, rd : DownOffset]
      /\ inbox \in Seq(Byte)
    BY Messages DEF TInv, TypeOK
<1>3. /\ down.rd' = r /\ down.wr' = Wrap(w + m)
      /\ \A i \in DownOffset :
            down.buf'[i] = IF Distance(w, i) + 1 <= m THEN msg[Distance(w, i) + 1] ELSE down.buf[i]
    BY <1>1, <1>2
<1>4. /\ n \in Nat /\ Distance(r, Wrap(w + m)) = n + m
      /\ \A i \in 1..n : Wrap(r + i - 1) \in DownOffset /\ Distance(w, Wrap(r + i - 1)) + 1 > m
      /\ \A i \in 1..m : /\ Wrap(r + (n + i) - 1) \in DownOffset
                         /\ Distance(w, Wrap(r + (n + i) - 1)) + 1 = i
      /\ r # w => r # Wrap(w + m) /\ Distance(w, r) + 1 > m
    <2>1. \A k \in {1, 2} : n + k < DownSize =>
              /\ n \in Nat /\ Distance(r, Wrap(w + k)) = n + k
              /\ \A i \in 1..n : Wrap(r + i - 1) \in DownOffset /\ Distance(w, Wrap(r + i - 1)) + 1 > k
              /\ \A i \in 1..k : /\ Wrap(r + (n + i) - 1) \in DownOffset
                                 /\ Distance(w, Wrap(r + (n + i) - 1)) + 1 = i
              /\ r # w => r # Wrap(w + k) /\ Distance(w, r) + 1 > k
        <3>1. r \in DownOffset /\ w \in DownOffset
            BY <1>2
        <3> HIDE DEF r, w
        <3> QED BY <3>1, UnreadMore
    <2>2. m \in {1, 2} /\ n + m < DownSize
        BY <1>1, <1>2
    <2> HIDE DEF n, m, r, w
    <2> QED BY <2>1, <2>2
<1>5. inbox = [i \in 1..n |-> down.buf[Wrap(r + i - 1)]]
    BY DEF Commands, Unread
<1>6. Unread' = [i \in 1..(n + m) |-> down.buf'[Wrap(r + i - 1)]]
    BY <1>3, <1>4 DEF Unread
<1>7. \A i, j \in DownOffset : Distance(i, j) \in Nat
    BY Offsets
<1>8. \A i \in 1..n : down.buf'[Wrap(r + i - 1)] = down.buf[Wrap(r + i - 1)]
    <2> HIDE DEF n, m, r, w
    <2> SUFFICES ASSUME NEW i \in 1..n
                 PROVE  down.buf'[Wrap(r + i - 1)] = down.buf[Wrap(r + i - 1)]
        OBVIOUS
    <2> DEFINE y == Wrap(r + i - 1)
    <2>1. y \in DownOffset /\ Distance(w, y) + 1 > m
        BY <1>4
    <2> HIDE DEF y
    <2>2. ~(Distance(w, y) + 1 <= m)
        <3>1. Distance(w, y) \in Nat /\ m \in Nat
            BY <1>2, <1>7, <2>1
        <3> QED BY <2>1, <3>1
    <2> QED BY <1>3, <2>1, <2>2 DEF y
<1>9. \A i \in 1..m : down.buf'[Wrap(r + (n + i) - 1)] = msg[i]
    <2> HIDE DEF n, m, r, w
    <2> SUFFICES ASSUME NEW i \in 1..m PROVE down.buf'[Wrap(r + (n + i) - 1)] = msg[i]
        OBVIOUS
    <2> DEFINE y == Wrap(r + (n + i) - 1)
    <2>1. y \in DownOffset /\ Distance(w, y) + 1 = i
        BY <1>4
    <2> HIDE DEF y
    <2>2. i <= m
        BY <1>2
    <2>3. down.buf'[y] = msg[Distance(w, y) + 1]
        BY <1>3, <2>1, <2>2
    <2> QED BY <2>1, <2>3 DEF y
<1> DEFINE f == down.buf
           g == down.buf'
<1> HIDE DEF n, m, f, g
<1>10. inbox' = Unread'
    <2>1. Len(inbox) = n /\ \A i \in 1..n : inbox[i] = f[Wrap(r + i - 1)]
        BY <1>2, <1>4, <1>5 DEF f
    <2>2. m = Len(msg) /\ m \in Nat /\ n \in Nat
        BY <1>2, <1>4 DEF m
    <2>3. inbox' = [i \in 1..(n + m) |-> IF i <= n THEN inbox[i] ELSE msg[i - n]]
        <3>1. /\ inbox \o msg \in Seq(Byte) /\ Len(inbox \o msg) = n + m
              /\ \A i \in 1..(n + m) :
                    (inbox \o msg)[i] = IF i <= n THEN inbox[i] ELSE msg[i - n]
            BY <1>2, <2>1, <2>2, ConcatProperties
        <3>2. inbox \o msg = [i \in 1..(n + m) |-> (inbox \o msg)[i]]
            BY <3>1, LenProperties
        <3> QED BY <1>1, <3>1, <3>2
    <2>4. ASSUME NEW i \in 1..(n + m)
          PROVE  (IF i <= n THEN inbox[i] ELSE msg[i - n]) = g[Wrap(r + i - 1)]
        <3>1. CASE i <= n
            <4>1. i \in 1..n
                BY <2>2, <3>1
            <4> QED BY <1>8, <2>1, <3>1, <4>1 DEF f, g
        <3>2. CASE ~(i <= n)
            <4>1. i - n \in 1..m /\ n + (i - n) = i
                BY <2>2, <3>2
            <4>2. g[Wrap(r + (n + (i - n)) - 1)] = msg[i - n]
                BY <1>9, <4>1 DEF g
            <4> QED BY <3>2, <4>1, <4>2
        <3> QED BY <3>1, <3>2
    <2> QED BY <1>6, <2>3, <2>4 DEF g
<1>11. Taking'
    <2>1. r # w => r # Wrap(w + m) /\ down.buf'[r] = down.buf[r]
        BY <1>2, <1>3, <1>4, <1>7
    <2> QED BY <1>1, <1>3, <2>1 DEF Commands, Taking
<1> QED BY <1>10, <1>11 DEF Commands

LEMMA CommandsKeep == TInv /\ Commands /\ [Next]_vars => Commands'
<1> SUFFICES ASSUME TInv, Commands, [Next]_vars PROVE Commands'
    OBVIOUS
<1>1. CASE \E c \in Ctx : Step(c)
    BY <1>1, CommandsStep
<1>2. CASE Caller
    <2>1. UNCHANGED <<down, inbox>>
        BY <1>2, CallerOpens
    <2>2. TInv'
        BY <1>2, CallerKeeps
    <2>3. \A c \in Ctx : todo'[c] = todo[c] \/ ~(todo'[c] # <<>> /\ todo'[c][1].k = "take")
        <3> SUFFICES ASSUME NEW c \in Ctx, todo'[c] # todo[c], todo'[c] # <<>>
                     PROVE  todo'[c][1].k # "take"
            OBVIOUS
        <3>1. todo'[c] \in Seq(Item)
            BY <2>2 DEF TInv, TypeOK
        <3>2. todo'[c][1] \in Items(todo'[c])
            BY <3>1, FirstItem
        <3> QED BY <1>2, <3>2, CallerOpens DEF Opening
    <2>4. Taking'
        BY <2>1, <2>3 DEF Commands, Taking
    <2> QED BY <2>1, <2>4 DEF Commands, Unread
<1>3. CASE HostSend
    BY <1>3, CommandsSend
<1>4. CASE HostRead \/ Tick \/ UNCHANGED vars
    <2>1. UNCHANGED <<down, inbox, todo>>
        BY <1>4 DEF HostRead, Tick, vars, hist
    <2> QED BY <2>1 DEF Commands, Unread, Taking
<1> QED BY <1>1, <1>2, <1>3, <1>4 DEF Next, Host

(* However the contexts interleave, and wherever the buffer wraps: no byte *)
(* of the host is handled twice, lost or taken for another.                *)
THEOREM BytesConsumedOnce == Spec => []CommandsOnce
<1>1. Init => Commands
    <2> SUFFICES ASSUME Init PROVE Commands
        OBVIOUS
    <2>1. down.rd = 0 /\ down.wr = 0 /\ inbox = <<>>
        BY DEF Init
    <2>2. Distance(down.rd, down.wr) = 0
        BY <2>1 DEF Distance
    <2>3. Unread = <<>>
        BY <2>2 DEF Unread
    <2> QED BY <2>1, <2>3 DEF Commands, Taking, Init
<1>2. TInv /\ Commands => CommandsOnce
    <2> SUFFICES ASSUME TInv, Commands, NEW c \in Ctx, NEW x \in Items(todo[c]), x.k = "take"
                 PROVE  inbox # <<>> /\ x.byte = inbox[1]
        BY DEF CommandsOnce, Commands
    <2>1. todo[c] # <<>> /\ x = todo[c][1]
        BY TakesInFront
    <2>2. down.rd # down.wr /\ x.byte = down.buf[down.rd]
        BY <2>1 DEF Commands, Taking
    <2>3. /\ Distance(down.rd, down.wr) \in Nat \ {0}
          /\ Wrap(down.rd + 1 - 1) = down.rd
        BY <2>2, UnreadTail DEF TInv, TypeOK
    <2>4. 1 \in 1..Distance(down.rd, down.wr)
        BY <2>3
    <2>5. inbox = [i \in 1..Distance(down.rd, down.wr) |-> down.buf[Wrap(down.rd + i - 1)]]
        BY DEF Commands, Unread
    <2>6. inbox[1] = down.buf[down.rd]
        BY <2>3, <2>4, <2>5
    <2>7. inbox # <<>>
        BY <2>4, <2>5
    <2> QED BY <2>2, <2>6, <2>7
<1> QED BY InvariantHolds, <1>1, <1>2, CommandsKeep, PTL DEF Spec

=============================================================================
