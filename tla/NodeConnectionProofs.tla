------------------------ MODULE NodeConnectionProofs ------------------------
(***************************************************************************)
(* Proofs about the connections of NodeLifecycle: the reports that          *)
(* CoreBluetooth has queued for the delegate of the Apple transport, the    *)
(* delegate's tables and the detached threads, for any sets of peripherals  *)
(* and centrals and any number of times Bluetooth is switched off.          *)
(***************************************************************************)
EXTENDS NodeLifecycle, SequenceTheorems, TLAPS

Reports == {"discover", "connect", "fail", "disconnect", "services", "characteristics",
            "error"}

\* The reports that may be outstanding about a peripheral: before it is
\* connected; when connecting has failed; while it is connected; after that.
Fresh  == {<<>>, <<"discover">>}
Failed == {<<"fail">>, <<"discover", "fail">>}
Plain  == {<<>>, <<"discover">>, <<"connect">>, <<"discover", "connect">>, <<"services">>,
           <<"characteristics">>, <<"error">>}
Ended  == {<<"disconnect">>, <<"discover", "disconnect">>, <<"connect", "disconnect">>,
           <<"discover", "connect", "disconnect">>, <<"services", "disconnect">>,
           <<"characteristics", "disconnect">>, <<"error", "disconnect">>}

\* Those in which an answer to a discovery is outstanding.
Asked  == {<<"services">>, <<"characteristics">>, <<"services", "disconnect">>,
           <<"characteristics", "disconnect">>}

-----------------------------------------------------------------------------
(* Lemmas about these lists.                                               *)

\* Appending to a list of one.
LEMMA AppendTwo ==
    ASSUME NEW a, NEW b
    PROVE  Append(<<a>>, b) = <<a, b>>
<1> DEFINE S == {a, b}
           s == Append(<<a>>, b)
<1>1. <<a>> \in Seq(S) /\ <<a, b>> \in Seq(S) /\ Len(<<a>>) = 1 /\ Len(<<a, b>>) = 2
  OBVIOUS
<1>2. s \in Seq(S) /\ Len(s) = 2 /\ s[1] = a /\ s[2] = b
  BY <1>1
<1>3. \A i \in 1..2 : s[i] = <<a, b>>[i]
  BY <1>2
<1> QED
  BY <1>1, <1>2, <1>3, SeqEqual

\* Appending to a list of two.
LEMMA AppendThree ==
    ASSUME NEW a, NEW b, NEW c
    PROVE  Append(<<a, b>>, c) = <<a, b, c>>
<1> DEFINE S == {a, b, c}
           s == Append(<<a, b>>, c)
<1>1. /\ <<a, b>> \in Seq(S) /\ Len(<<a, b>>) = 2
      /\ <<a, b, c>> \in Seq(S) /\ Len(<<a, b, c>>) = 3
  OBVIOUS
<1>2. s \in Seq(S) /\ Len(s) = 3 /\ s[1] = a /\ s[2] = b /\ s[3] = c
  BY <1>1
<1>3. \A i \in 1..3 : s[i] = <<a, b, c>>[i]
  BY <1>2
<1> QED
  BY <1>1, <1>2, <1>3, SeqEqual

\* Heads and tails of short lists.
LEMMA Tails ==
    ASSUME NEW a, NEW b, NEW c
    PROVE  /\ Append(<<>>, a) = <<a>>
           /\ Head(<<a>>) = a /\ Tail(<<a>>) = <<>>
           /\ Head(<<a, b>>) = a /\ Tail(<<a, b>>) = <<b>>
           /\ Head(<<a, b, c>>) = a /\ Tail(<<a, b, c>>) = <<b, c>>
OBVIOUS

\* Every list is one of reports ...
LEMMA ListsType ==
    ASSUME NEW s \in Plain \cup Ended \cup Failed
    PROVE  s \in Seq(Reports)
<1>1. CASE s = <<>>
  BY <1>1
<1>2. ASSUME NEW e \in Reports, s = <<e>>
      PROVE  s \in Seq(Reports)
  BY <1>2
<1>3. ASSUME NEW e \in Reports, NEW f \in Reports, s = <<e, f>>
      PROVE  s \in Seq(Reports)
  BY <1>3
<1>4. CASE s = <<"discover", "connect", "disconnect">>
  BY <1>4 DEF Reports
<1> QED
  BY <1>1, <1>2, <1>3, <1>4 DEF Ended, Plain, Failed, Reports

\* ... and has no report twice.
LEMMA ListsDistinct ==
    ASSUME NEW s \in Plain \cup Ended \cup Failed,
           NEW i \in DOMAIN s, NEW j \in DOMAIN s, s[i] = s[j]
    PROVE  i = j
BY DEF Plain, Ended, Failed

\* What a new report makes of a list.
LEMMA FreshReported ==
    ASSUME NEW s \in Fresh
    PROVE  /\ Append(s, "connect") \in Plain \ Asked
           /\ Append(s, "fail") \in Failed
<1>1. CASE s = <<>>
  BY <1>1, Tails DEF Plain, Failed, Asked
<1>2. CASE s = <<"discover">>
  BY <1>2, AppendTwo DEF Plain, Failed, Asked
<1> QED
  BY <1>1, <1>2 DEF Fresh

\* The connection ends.
LEMMA PlainEnded ==
    ASSUME NEW s \in Plain
    PROVE  /\ Append(s, "disconnect") \in Ended
           /\ Append(s, "disconnect") \in Asked => s \in Asked
<1>1. CASE s = <<>>
  BY <1>1, Tails DEF Ended, Asked
<1>2. CASE s = <<"discover", "connect">>
  BY <1>2, AppendThree DEF Ended, Asked
<1>3. CASE s \in {<<"discover">>, <<"connect">>, <<"error">>}
  <2>1. PICK e \in {"discover", "connect", "error"} : s = <<e>>
    BY <1>3
  <2>2. Append(s, "disconnect") = <<e, "disconnect">>
    BY <2>1, AppendTwo
  <2> QED
    BY <2>1, <2>2 DEF Ended, Asked
<1>4. CASE s \in {<<"services">>, <<"characteristics">>}
  BY <1>4, AppendTwo DEF Ended, Asked
<1> QED
  BY <1>1, <1>2, <1>3, <1>4 DEF Plain

\* What is left of a list when its first report is delivered: before there is a
\* connection,
LEMMA FreshHead ==
    ASSUME NEW s \in Fresh, s # <<>>
    PROVE  Head(s) = "discover" /\ Tail(s) = <<>>
BY Tails DEF Fresh

\* The same after connecting has failed,
LEMMA FailedHead ==
    ASSUME NEW s \in Failed
    PROVE  /\ s # <<>>
           /\ \/ Head(s) = "fail" /\ Tail(s) = <<>>
              \/ Head(s) = "discover" /\ Tail(s) = <<"fail">>
<1>1. CASE s = <<"fail">>
  BY <1>1, Tails
<1>2. CASE s = <<"discover", "fail">>
  BY <1>2, Tails
<1> QED
  BY <1>1, <1>2 DEF Failed

\* while the peripheral is connected,
LEMMA PlainHead ==
    ASSUME NEW s \in Plain, s # <<>>
    PROVE  /\ \/ Head(s) = "discover" /\ Tail(s) \in {<<>>, <<"connect">>}
              \/ Head(s) \in {"connect", "services", "characteristics", "error"} /\ Tail(s) = <<>>
           /\ Head(s) \in {"services", "characteristics"} => s \in Asked
<1>1. CASE s = <<"discover", "connect">>
  BY <1>1, Tails
<1>2. ASSUME NEW e \in {"discover", "connect", "error"}, s = <<e>>
      PROVE  Head(s) = e /\ Tail(s) = <<>>
  BY <1>2, Tails
<1>3. ASSUME NEW e \in {"services", "characteristics"}, s = <<e>>
      PROVE  Head(s) = e /\ Tail(s) = <<>> /\ s \in Asked
  BY <1>3, Tails DEF Asked
<1> QED
  BY <1>1, <1>2, <1>3 DEF Plain

\* and after that.
LEMMA EndedHead ==
    ASSUME NEW s \in Ended
    PROVE  /\ s # <<>>
           /\ \/ Head(s) = "disconnect" /\ Tail(s) = <<>>
              \/ Head(s) = "discover" /\ Tail(s) \in {<<"disconnect">>, <<"connect", "disconnect">>}
              \/ /\ Head(s) \in {"connect", "services", "characteristics", "error"}
                 /\ Tail(s) = <<"disconnect">>
           /\ Head(s) \in {"services", "characteristics"} => s \in Asked
<1>1. CASE s = <<"disconnect">>
  BY <1>1, Tails
<1>2. CASE s = <<"discover", "connect", "disconnect">>
  BY <1>2, Tails
<1>3. ASSUME NEW e \in {"discover", "connect", "error"}, s = <<e, "disconnect">>
      PROVE  s # <<>> /\ Head(s) = e /\ Tail(s) = <<"disconnect">>
  BY <1>3, Tails
<1>4. ASSUME NEW e \in {"services", "characteristics"}, s = <<e, "disconnect">>
      PROVE  s # <<>> /\ Head(s) = e /\ Tail(s) = <<"disconnect">> /\ s \in Asked
  BY <1>4, Tails DEF Asked
<1> QED
  BY <1>1, <1>2, <1>3, <1>4 DEF Ended

\* Where the short lists belong.
LEMMA ShortLists ==
    /\ <<>> \in Fresh /\ <<"discover">> \in Fresh /\ <<"fail">> \in Failed
    /\ {<<>>, <<"discover">>, <<"connect">>, <<"error">>} \subseteq Plain \ Asked
    /\ {<<"services">>, <<"characteristics">>} \subseteq Plain
    /\ {<<"disconnect">>, <<"connect", "disconnect">>} \subseteq Ended \ Asked
BY DEF Fresh, Failed, Plain, Asked, Ended

-----------------------------------------------------------------------------
(* The inductive invariant.                                                *)

\* A peripheral we were never connected to.
Before(p) ==
    /\ connections[p] = 0 /\ p \notin connectedPeripherals
    /\ \/ link[p] = "idle" /\ events[p] \in Fresh
       \/ link[p] = "idle" /\ events[p] \in Failed /\ p \in discoveredPeripherals
       \/ link[p] = "connecting" /\ events[p] \in Fresh /\ p \in discoveredPeripherals

\* One we are or were connected to, once: it stays among the discovered ones,
\* so it is never connected to again.
After(p) ==
    /\ connections[p] = 1 /\ p \in discoveredPeripherals
    /\ \/ link[p] \in {"idle", "connected"} /\ events[p] \in Plain
       \/ link[p] = "idle" /\ events[p] \in Ended
    /\ events[p] \in Asked => p \in connectedPeripherals

PeripheralInv(p) ==
    /\ p \in peripheralCharacteristics => p \in connectedPeripherals
    /\ Before(p) \/ After(p)

ConnectionTypes ==
    /\ link \in [Peripherals -> {"idle", "connecting", "connected"}]
    /\ events \in [Peripherals -> Seq(Reports)]
    /\ connections \in [Peripherals -> {0, 1}]
    /\ discoveredPeripherals \subseteq Peripherals
    /\ connectedPeripherals \subseteq Peripherals
    /\ peripheralCharacteristics \subseteq Peripherals
    /\ delayed \subseteq Peripherals \X {1}

ConnectionInv ==
    /\ ConnectionTypes
    /\ \A p \in Peripherals : PeripheralInv(p)

connVars == <<link, events, tableVars, connections>>

\* A step about p leaves the other peripherals alone.
OnlyAbout(p) ==
    \A q \in Peripherals \ {p} :
        /\ link'[q] = link[q] /\ events'[q] = events[q] /\ connections'[q] = connections[q]
        /\ q \in discoveredPeripherals' <=> q \in discoveredPeripherals
        /\ q \in connectedPeripherals' <=> q \in connectedPeripherals
        /\ q \in peripheralCharacteristics' <=> q \in peripheralCharacteristics

-----------------------------------------------------------------------------
(* The steps.                                                              *)

\* It is enough to look at the peripheral that a step is about.
LEMMA OnlyAboutKeeps ==
    ASSUME ConnectionInv, NEW p \in Peripherals, OnlyAbout(p), ConnectionTypes',
           PeripheralInv(p)'
    PROVE  ConnectionInv'
<1>1. ASSUME NEW q \in Peripherals, q # p
      PROVE  PeripheralInv(q)'
  <2>1. /\ link'[q] = link[q] /\ events'[q] = events[q] /\ connections'[q] = connections[q]
        /\ q \in discoveredPeripherals' <=> q \in discoveredPeripherals
        /\ q \in connectedPeripherals' <=> q \in connectedPeripherals
        /\ q \in peripheralCharacteristics' <=> q \in peripheralCharacteristics
    BY <1>1 DEF OnlyAbout
  <2>2. PeripheralInv(q)
    BY DEF ConnectionInv
  <2> QED
    BY <2>1, <2>2 DEF PeripheralInv, Before, After
<1> QED
  BY <1>1 DEF ConnectionInv

\* A report that is queued.
LEMMA Reported ==
    ASSUME ConnectionTypes, NEW p \in Peripherals, NEW e \in Reports, Report(p, e)
    PROVE  /\ events'[p] = Append(events[p], e)
           /\ events' \in [Peripherals -> Seq(Reports)]
           /\ \A q \in Peripherals \ {p} : events'[q] = events[q]
<1>1. events[p] \in Seq(Reports)
  BY DEF ConnectionTypes
<1>2. Append(events[p], e) \in Seq(Reports)
  BY <1>1
<1> QED
  BY <1>2 DEF Report, ConnectionTypes

\* A report that is delivered, when nothing follows from it ...
LEMMA DeliveredLast ==
    ASSUME ConnectionTypes, NEW p \in Peripherals, NEW e, Deliver(p, e, <<>>)
    PROVE  /\ events[p] # <<>> /\ Head(events[p]) = e
           /\ events'[p] = Tail(events[p])
           /\ events' \in [Peripherals -> Seq(Reports)]
           /\ \A q \in Peripherals \ {p} : events'[q] = events[q]
<1>1. events[p] \in Seq(Reports) /\ events[p] # <<>>
  BY DEF ConnectionTypes, Deliver
<1>2. Tail(events[p]) \in Seq(Reports) /\ Tail(events[p]) \o <<>> = Tail(events[p])
  BY <1>1
<1> QED
  BY <1>2 DEF Deliver, ConnectionTypes

\* ... and when it is answered and was the only one.
LEMMA DeliveredAnswer ==
    ASSUME ConnectionTypes, NEW p \in Peripherals, NEW e, NEW f \in Reports,
           Deliver(p, e, <<f>>), Tail(events[p]) = <<>>
    PROVE  /\ events[p] # <<>> /\ Head(events[p]) = e
           /\ events'[p] = <<f>>
           /\ events' \in [Peripherals -> Seq(Reports)]
           /\ \A q \in Peripherals \ {p} : events'[q] = events[q]
<1>1. <<>> \o <<f>> = <<f>> /\ <<f>> \in Seq(Reports)
  OBVIOUS
<1>2. Tail(events[p]) \o <<f>> = <<f>>
  BY <1>1
<1> QED
  BY <1>1, <1>2 DEF Deliver, ConnectionTypes

\* An advertisement is received.
LEMMA SightingKeeps ==
    ASSUME ConnectionInv, NEW p \in Peripherals, Sighting(p), UNCHANGED <<connections, delayed>>
    PROVE  ConnectionInv'
<1>1. events[p] = <<>> /\ UNCHANGED <<link, tableVars>> /\ Report(p, "discover")
  BY DEF Sighting
<1>2. /\ events'[p] = <<"discover">> /\ events' \in [Peripherals -> Seq(Reports)]
      /\ \A q \in Peripherals \ {p} : events'[q] = events[q]
  BY <1>1, Reported, Tails DEF ConnectionInv, Reports
<1>3. PeripheralInv(p)
  BY DEF ConnectionInv
<1>4. PeripheralInv(p)'
  BY <1>1, <1>2, <1>3, ShortLists, FailedHead, EndedHead
  DEF PeripheralInv, Before, After, tableVars
<1> QED
  BY <1>1, <1>2, <1>4, OnlyAboutKeeps DEF ConnectionInv, ConnectionTypes, OnlyAbout, tableVars

\* A connection is made: the first one to this peripheral.
LEMMA ConnectedKeeps ==
    ASSUME ConnectionInv, NEW p \in Peripherals, Connected(p), UNCHANGED delayed,
           connections' = [connections EXCEPT ![p] = @ + 1]
    PROVE  ConnectionInv'
<1>1. /\ link[p] = "connecting" /\ link' = [link EXCEPT ![p] = "connected"]
      /\ UNCHANGED tableVars /\ Report(p, "connect")
  BY DEF Connected
<1>2. /\ events'[p] = Append(events[p], "connect")
      /\ events' \in [Peripherals -> Seq(Reports)]
      /\ \A q \in Peripherals \ {p} : events'[q] = events[q]
  BY <1>1, Reported DEF ConnectionInv, Reports
<1>3. /\ events[p] \in Fresh /\ p \in discoveredPeripherals /\ connections[p] = 0
      /\ p \in peripheralCharacteristics => p \in connectedPeripherals
  BY <1>1 DEF ConnectionInv, PeripheralInv, Before, After
<1>4. events'[p] \in Plain \ Asked
  BY <1>2, <1>3, FreshReported
<1>5. link'[p] = "connected" /\ connections'[p] = 1
  BY <1>1, <1>3 DEF ConnectionInv, ConnectionTypes
<1>6. PeripheralInv(p)'
  BY <1>1, <1>3, <1>4, <1>5 DEF PeripheralInv, After, tableVars
<1>7. connections' = [connections EXCEPT ![p] = 1]
  BY <1>3 DEF ConnectionInv, ConnectionTypes
<1>8. OnlyAbout(p) /\ ConnectionTypes'
  BY <1>1, <1>2, <1>7 DEF ConnectionInv, ConnectionTypes, OnlyAbout, tableVars
<1> QED
  BY <1>6, <1>8, OnlyAboutKeeps

\* Connecting fails.
LEMMA ConnectFailedKeeps ==
    ASSUME ConnectionInv, NEW p \in Peripherals, ConnectFailed(p),
           UNCHANGED <<connections, delayed>>
    PROVE  ConnectionInv'
<1>1. /\ link[p] = "connecting" /\ link' = [link EXCEPT ![p] = "idle"]
      /\ UNCHANGED tableVars /\ Report(p, "fail")
  BY DEF ConnectFailed
<1>2. /\ events'[p] = Append(events[p], "fail")
      /\ events' \in [Peripherals -> Seq(Reports)]
      /\ \A q \in Peripherals \ {p} : events'[q] = events[q]
  BY <1>1, Reported DEF ConnectionInv, Reports
<1>3. /\ events[p] \in Fresh /\ p \in discoveredPeripherals /\ connections[p] = 0
      /\ p \notin connectedPeripherals /\ p \notin peripheralCharacteristics
  BY <1>1 DEF ConnectionInv, PeripheralInv, Before, After
<1>4. events'[p] \in Failed
  BY <1>2, <1>3, FreshReported
<1>5. link'[p] = "idle"
  BY <1>1 DEF ConnectionInv, ConnectionTypes
<1>6. PeripheralInv(p)'
  BY <1>1, <1>3, <1>4, <1>5 DEF PeripheralInv, Before, tableVars
<1>7. OnlyAbout(p) /\ ConnectionTypes'
  BY <1>1, <1>2, <1>3 DEF ConnectionInv, ConnectionTypes, OnlyAbout, tableVars
<1> QED
  BY <1>6, <1>7, OnlyAboutKeeps

\* A connection breaks.
LEMMA ConnectionLostKeeps ==
    ASSUME ConnectionInv, NEW p \in Peripherals, ConnectionLost(p),
           UNCHANGED <<connections, delayed>>
    PROVE  ConnectionInv'
<1>1. /\ link[p] = "connected" /\ link' = [link EXCEPT ![p] = "idle"]
      /\ UNCHANGED tableVars /\ Report(p, "disconnect")
  BY DEF ConnectionLost
<1>2. /\ events'[p] = Append(events[p], "disconnect")
      /\ events' \in [Peripherals -> Seq(Reports)]
      /\ \A q \in Peripherals \ {p} : events'[q] = events[q]
  BY <1>1, Reported DEF ConnectionInv, Reports
<1>3. /\ events[p] \in Plain /\ p \in discoveredPeripherals /\ connections[p] = 1
      /\ p \in peripheralCharacteristics => p \in connectedPeripherals
      /\ events[p] \in Asked => p \in connectedPeripherals
  BY <1>1 DEF ConnectionInv, PeripheralInv, Before, After
<1>4. events'[p] \in Ended /\ (events'[p] \in Asked => events[p] \in Asked)
  BY <1>2, <1>3, PlainEnded
<1>5. link'[p] = "idle"
  BY <1>1 DEF ConnectionInv, ConnectionTypes
<1>6. PeripheralInv(p)'
  BY <1>1, <1>3, <1>4, <1>5 DEF PeripheralInv, After, tableVars
<1>7. OnlyAbout(p) /\ ConnectionTypes'
  BY <1>1, <1>2, <1>3 DEF ConnectionInv, ConnectionTypes, OnlyAbout, tableVars
<1> QED
  BY <1>6, <1>7, OnlyAboutKeeps

\* didDiscoverPeripheral.
LEMMA DidDiscoverKeeps ==
    ASSUME ConnectionInv, NEW p \in Peripherals, DidDiscover(p),
           UNCHANGED <<connections, delayed>>
    PROVE  ConnectionInv'
<1>1. /\ Deliver(p, "discover", <<>>)
      /\ discoveredPeripherals' = discoveredPeripherals \cup {p}
      /\ link' = IF p \in discoveredPeripherals \/ power["central"] # "on" THEN link
                 ELSE [link EXCEPT ![p] = "connecting"]
      /\ UNCHANGED <<connectedPeripherals, peripheralCharacteristics>>
  BY DEF DidDiscover
<1>2. /\ events[p] # <<>> /\ Head(events[p]) = "discover" /\ events'[p] = Tail(events[p])
      /\ events' \in [Peripherals -> Seq(Reports)]
      /\ \A q \in Peripherals \ {p} : events'[q] = events[q]
  BY <1>1, DeliveredLast DEF ConnectionInv
<1>3. PeripheralInv(p)
  BY DEF ConnectionInv
<1>4. PeripheralInv(p)'
  <2>1. CASE Before(p)
    <3>1. CASE events[p] \in Fresh
      <4>1. events'[p] \in Fresh
        BY <1>2, <3>1, FreshHead, ShortLists
      <4>2. link'[p] \in {"idle", "connecting"}
        BY <1>1, <2>1 DEF ConnectionInv, ConnectionTypes, Before
      <4> QED
        BY <1>1, <1>3, <2>1, <4>1, <4>2 DEF PeripheralInv, Before
    <3>2. CASE events[p] \in Failed /\ link[p] = "idle" /\ p \in discoveredPeripherals
      <4>1. events'[p] \in Failed
        BY <1>2, <3>2, FailedHead, ShortLists
      <4> QED
        BY <1>1, <1>3, <2>1, <3>2, <4>1 DEF PeripheralInv, Before
    <3> QED
      BY <2>1, <3>1, <3>2 DEF Before
  <2>2. CASE After(p)
    <3>1. UNCHANGED link /\ p \in discoveredPeripherals'
      BY <1>1, <2>2 DEF After
    <3>2. CASE events[p] \in Plain
      <4>1. events'[p] \in Plain \ Asked
        BY <1>2, <3>2, PlainHead, ShortLists
      <4> QED
        BY <1>1, <1>3, <2>2, <3>1, <4>1, EndedHead DEF PeripheralInv, After
    <3>3. CASE events[p] \in Ended /\ link[p] = "idle"
      <4>1. events'[p] \in Ended \ Asked
        BY <1>2, <3>3, EndedHead, ShortLists
      <4> QED
        BY <1>1, <1>3, <2>2, <3>1, <3>3, <4>1 DEF PeripheralInv, After
    <3> QED
      BY <2>2, <3>2, <3>3 DEF After
  <2> QED
    BY <1>3, <2>1, <2>2 DEF PeripheralInv
<1>5. OnlyAbout(p) /\ ConnectionTypes'
  BY <1>1, <1>2 DEF ConnectionInv, ConnectionTypes, OnlyAbout
<1> QED
  BY <1>4, <1>5, OnlyAboutKeeps

\* A report that is only about an established connection: what is left after
\* it, with or without an answer.
LEMMA AfterReport ==
    ASSUME ConnectionInv, NEW p \in Peripherals,
           NEW e \in {"connect", "services", "characteristics", "error"},
           NEW f \in {"services", "characteristics"},
           NEW more \in Answers(p, f) \cup {<<>>}, Deliver(p, e, more)
    PROVE  /\ After(p) /\ events' \in [Peripherals -> Seq(Reports)]
           /\ \A q \in Peripherals \ {p} : events'[q] = events[q]
           /\ e \in {"services", "characteristics"} => p \in connectedPeripherals
           /\ \/ link[p] \in {"idle", "connected"} /\ events'[p] \in Plain
              \/ link[p] = "idle" /\ events'[p] \in Ended
           /\ more = <<>> => events'[p] \notin Asked
<1>1. events[p] # <<>> /\ Head(events[p]) = e /\ PeripheralInv(p)
  BY DEF Deliver, ConnectionInv
<1>2. After(p)
  BY <1>1, FreshHead, FailedHead DEF PeripheralInv, Before
<1>3. e \in {"services", "characteristics"} => p \in connectedPeripherals
  BY <1>1, <1>2, PlainHead, EndedHead DEF After
<1>4. CASE more = <<>>
  <2>1. /\ events'[p] = Tail(events[p]) /\ events' \in [Peripherals -> Seq(Reports)]
        /\ \A q \in Peripherals \ {p} : events'[q] = events[q]
    BY <1>4, DeliveredLast DEF ConnectionInv
  <2>2. CASE events[p] \in Plain
    <3>1. events'[p] \in Plain \ Asked
      BY <1>1, <2>1, <2>2, PlainHead, ShortLists
    <3> QED
      BY <1>2, <1>3, <2>1, <3>1 DEF After
  <2>3. CASE events[p] \in Ended /\ link[p] = "idle"
    <3>1. events'[p] \in Ended \ Asked
      BY <1>1, <2>1, <2>3, EndedHead, ShortLists
    <3> QED
      BY <1>2, <1>3, <2>1, <2>3, <3>1
  <2> QED
    BY <1>2, <2>2, <2>3 DEF After
<1>5. CASE more # <<>>
  <2>1. link[p] = "connected" /\ more \in {<<f>>, <<"error">>}
    BY <1>5 DEF Answers
  <2>2. events[p] \in Plain
    BY <1>2, <2>1 DEF After
  <2>3. Tail(events[p]) = <<>>
    BY <1>1, <2>2, PlainHead
  <2>4. PICK g \in {f, "error"} : more = <<g>>
    BY <2>1
  <2>5. g \in Reports
    BY DEF Reports
  <2>6. /\ events'[p] = <<g>> /\ events' \in [Peripherals -> Seq(Reports)]
        /\ \A q \in Peripherals \ {p} : events'[q] = events[q]
    BY <2>3, <2>4, <2>5, DeliveredAnswer DEF ConnectionInv
  <2>7. <<g>> \in Plain
    BY ShortLists
  <2> QED
    BY <1>2, <1>3, <1>5, <2>1, <2>6, <2>7
<1> QED
  BY <1>4, <1>5

\* didConnectPeripheral.
LEMMA DidConnectKeeps ==
    ASSUME ConnectionInv, NEW p \in Peripherals, DidConnect(p),
           UNCHANGED <<connections, delayed>>
    PROVE  ConnectionInv'
<1>1. PICK more \in Answers(p, "services") : Deliver(p, "connect", more)
  BY DEF DidConnect
<1>2. /\ connectedPeripherals' = connectedPeripherals \cup {p}
      /\ UNCHANGED <<link, discoveredPeripherals, peripheralCharacteristics>>
  BY DEF DidConnect
<1>3. /\ After(p) /\ events' \in [Peripherals -> Seq(Reports)]
      /\ \A q \in Peripherals \ {p} : events'[q] = events[q]
      /\ \/ link[p] \in {"idle", "connected"} /\ events'[p] \in Plain
         \/ link[p] = "idle" /\ events'[p] \in Ended
  BY <1>1, AfterReport
<1>4. PeripheralInv(p)'
  BY <1>2, <1>3 DEF PeripheralInv, After
<1>5. OnlyAbout(p) /\ ConnectionTypes'
  BY <1>2, <1>3 DEF ConnectionInv, ConnectionTypes, OnlyAbout
<1> QED
  BY <1>4, <1>5, OnlyAboutKeeps

\* didFailToConnectPeripheral.
LEMMA DidFailToConnectKeeps ==
    ASSUME ConnectionInv, NEW p \in Peripherals, DidFailToConnect(p),
           UNCHANGED <<connections, delayed>>
    PROVE  ConnectionInv'
<1>1. /\ Deliver(p, "fail", <<>>) /\ discoveredPeripherals' = discoveredPeripherals \ {p}
      /\ UNCHANGED <<link, connectedPeripherals, peripheralCharacteristics>>
  BY DEF DidFailToConnect
<1>2. /\ events[p] # <<>> /\ Head(events[p]) = "fail" /\ events'[p] = Tail(events[p])
      /\ events' \in [Peripherals -> Seq(Reports)]
      /\ \A q \in Peripherals \ {p} : events'[q] = events[q]
  BY <1>1, DeliveredLast DEF ConnectionInv
<1>3. PeripheralInv(p)
  BY DEF ConnectionInv
<1>4. Before(p) /\ events[p] \in Failed /\ link[p] = "idle"
  BY <1>2, <1>3, FreshHead, PlainHead, EndedHead DEF PeripheralInv, Before, After
<1>5. events'[p] \in Fresh
  BY <1>2, <1>4, FailedHead, ShortLists
<1>6. PeripheralInv(p)'
  BY <1>1, <1>3, <1>4, <1>5 DEF PeripheralInv, Before
<1>7. OnlyAbout(p) /\ ConnectionTypes'
  BY <1>1, <1>2 DEF ConnectionInv, ConnectionTypes, OnlyAbout
<1> QED
  BY <1>6, <1>7, OnlyAboutKeeps

\* didDisconnectPeripheral.
LEMMA DidDisconnectKeeps ==
    ASSUME ConnectionInv, NEW p \in Peripherals, DidDisconnect(p),
           UNCHANGED <<connections, delayed>>
    PROVE  ConnectionInv'
<1>1. /\ Deliver(p, "disconnect", <<>>)
      /\ connectedPeripherals' = connectedPeripherals \ {p}
      /\ peripheralCharacteristics' = peripheralCharacteristics \ {p}
      /\ UNCHANGED <<link, discoveredPeripherals>>
  BY DEF DidDisconnect
<1>2. /\ events[p] # <<>> /\ Head(events[p]) = "disconnect" /\ events'[p] = Tail(events[p])
      /\ events' \in [Peripherals -> Seq(Reports)]
      /\ \A q \in Peripherals \ {p} : events'[q] = events[q]
  BY <1>1, DeliveredLast DEF ConnectionInv
<1>3. PeripheralInv(p)
  BY DEF ConnectionInv
<1>4. After(p) /\ events[p] \in Ended /\ link[p] = "idle"
  BY <1>2, <1>3, FreshHead, FailedHead, PlainHead DEF PeripheralInv, Before, After
<1>5. events'[p] \in Plain \ Asked
  BY <1>2, <1>4, EndedHead, ShortLists
<1>6. PeripheralInv(p)'
  BY <1>1, <1>4, <1>5 DEF PeripheralInv, After
<1>7. OnlyAbout(p) /\ ConnectionTypes'
  BY <1>1, <1>2 DEF ConnectionInv, ConnectionTypes, OnlyAbout
<1> QED
  BY <1>6, <1>7, OnlyAboutKeeps

\* didDiscoverServices, and the error of either discovery.
LEMMA DidDiscoverServicesKeeps ==
    ASSUME ConnectionInv, NEW p \in Peripherals, DidDiscoverServices(p) \/ DidDiscoverNothing(p),
           UNCHANGED <<connections, delayed>>
    PROVE  ConnectionInv'
<1>0. UNCHANGED <<link, tableVars>>
  BY DEF DidDiscoverServices, DidDiscoverNothing
<1>1. /\ After(p) /\ events' \in [Peripherals -> Seq(Reports)]
      /\ \A q \in Peripherals \ {p} : events'[q] = events[q]
      /\ \/ link[p] \in {"idle", "connected"} /\ events'[p] \in Plain
         \/ link[p] = "idle" /\ events'[p] \in Ended
      /\ events'[p] \in Asked => p \in connectedPeripherals
  <2>1. CASE DidDiscoverServices(p)
    <3>1. PICK more \in Answers(p, "characteristics") : Deliver(p, "services", more)
      BY <2>1 DEF DidDiscoverServices
    <3> QED
      BY <3>1, AfterReport
  <2>2. CASE DidDiscoverNothing(p)
    <3>1. Deliver(p, "error", <<>>) /\ <<>> \in Answers(p, "services") \cup {<<>>}
      BY <2>2 DEF DidDiscoverNothing
    <3> QED
      BY <3>1, AfterReport
  <2> QED
    BY <2>1, <2>2
<1>2. PeripheralInv(p)
  BY DEF ConnectionInv
<1>3. PeripheralInv(p)'
  BY <1>0, <1>1, <1>2 DEF PeripheralInv, After, tableVars
<1>4. OnlyAbout(p) /\ ConnectionTypes'
  BY <1>0, <1>1 DEF ConnectionInv, ConnectionTypes, OnlyAbout, tableVars
<1> QED
  BY <1>3, <1>4, OnlyAboutKeeps

\* didDiscoverCharacteristics, with the detached thread it starts.
LEMMA DidDiscoverCharacteristicsKeeps ==
    ASSUME ConnectionInv, NEW p \in Peripherals, DidDiscoverCharacteristics(p),
           UNCHANGED connections, delayed' = delayed \cup {<<p, connections[p]>>}
    PROVE  ConnectionInv'
<1>1. /\ Deliver(p, "characteristics", <<>>)
      /\ peripheralCharacteristics' = peripheralCharacteristics \cup {p}
      /\ UNCHANGED <<link, discoveredPeripherals, connectedPeripherals>>
  BY DEF DidDiscoverCharacteristics
<1>2. /\ After(p) /\ events' \in [Peripherals -> Seq(Reports)]
      /\ \A q \in Peripherals \ {p} : events'[q] = events[q]
      /\ p \in connectedPeripherals
      /\ \/ link[p] \in {"idle", "connected"} /\ events'[p] \in Plain
         \/ link[p] = "idle" /\ events'[p] \in Ended
  <2>1. <<>> \in Answers(p, "services") \cup {<<>>}
    OBVIOUS
  <2> QED
    BY <1>1, <2>1, AfterReport
<1>3. PeripheralInv(p)'
  BY <1>1, <1>2 DEF PeripheralInv, After
<1>4. connections[p] = 1
  BY <1>2 DEF After
<1>5. OnlyAbout(p) /\ ConnectionTypes'
  BY <1>1, <1>2, <1>4 DEF ConnectionInv, ConnectionTypes, OnlyAbout
<1> QED
  BY <1>3, <1>5, OnlyAboutKeeps

\* Bluetooth is switched off.
LEMMA PowerOffKeeps ==
    ASSUME ConnectionInv, PowerOff, UNCHANGED <<connections, delayed>>
    PROVE  ConnectionInv'
<1>1. PICK told \in BOOLEAN :
         events' = [p \in Peripherals |->
                       IF told /\ link[p] = "connected"
                       THEN Append(events[p], "disconnect") ELSE events[p]]
  BY DEF PowerOff
<1>2. link' = [p \in Peripherals |-> "idle"] /\ UNCHANGED tableVars
  BY DEF PowerOff
<1>3. ASSUME NEW p \in Peripherals
      PROVE  PeripheralInv(p)' /\ events'[p] \in Seq(Reports)
  <2>1. PeripheralInv(p) /\ events[p] \in Seq(Reports)
    BY DEF ConnectionInv, ConnectionTypes
  <2>2. CASE link[p] = "connected" /\ events'[p] = Append(events[p], "disconnect")
    <3>1. After(p) /\ events[p] \in Plain
      BY <2>1, <2>2 DEF PeripheralInv, Before, After
    <3>2. events'[p] \in Ended /\ (events'[p] \in Asked => events[p] \in Asked)
      BY <2>2, <3>1, PlainEnded
    <3> QED
      BY <1>2, <2>1, <3>1, <3>2, ListsType DEF PeripheralInv, After, tableVars
  <2>3. CASE events'[p] = events[p]
    BY <1>2, <2>1, <2>3 DEF PeripheralInv, Before, After, tableVars
  <2> QED
    BY <1>1, <2>2, <2>3
<1>4. ConnectionTypes'
  BY <1>1, <1>2, <1>3 DEF ConnectionInv, ConnectionTypes, tableVars
<1> QED
  BY <1>3, <1>4 DEF ConnectionInv

\* A step that leaves the connections alone, and starts no detached thread.
LEMMA ConnectionsAlone ==
    ASSUME ConnectionInv, UNCHANGED connVars, delayed' \subseteq delayed
    PROVE  ConnectionInv'
BY DEF ConnectionInv, ConnectionTypes, PeripheralInv, Before, After, connVars, tableVars

\* Every step of the transport, with what the node does in it.
LEMMA TransportKeeps ==
    ASSUME ConnectionInv, TransportStep
    PROVE  ConnectionInv'
<1>1. CASE RadioStep
  <2>0. UNCHANGED <<connections, delayed>>
    BY <1>1 DEF RadioStep
  <2>1. ASSUME NEW p \in Peripherals, ConnectFailed(p)
        PROVE  ConnectionInv'
    BY <2>0, <2>1, ConnectFailedKeeps
  <2>2. CASE (\E m \in Managers : PowerOn(m)) \/ (\E c \in Centrals : DidSubscribe(c))
    BY <2>0, <2>2, ConnectionsAlone DEF PowerOn, DidSubscribe, connVars, tableVars
  <2> QED
    BY <1>1, <2>1, <2>2 DEF RadioStep
<1>2. CASE SwitchedOff
  BY <1>2, PowerOffKeeps DEF SwitchedOff
<1>3. ASSUME NEW c \in Centrals, Unsubscribed(c)
      PROVE  ConnectionInv'
  BY <1>3, ConnectionsAlone DEF Unsubscribed, DidUnsubscribe, connVars, tableVars
<1>4. ASSUME NEW m \in Managers, StateUpdate(m)
      PROVE  ConnectionInv'
  BY <1>4, ConnectionsAlone DEF StateUpdate, DidUpdateState, connVars, tableVars
<1>5. ASSUME NEW p \in Peripherals,
             Sighted(p) \/ Established(p) \/ Broken(p) \/ DelegateStep(p) \/ Discovered(p)
      PROVE  ConnectionInv'
  <2>1. CASE Sighted(p)
    BY <2>1, SightingKeeps DEF Sighted
  <2>2. CASE Established(p)
    BY <2>2, ConnectedKeeps DEF Established
  <2>3. CASE Broken(p)
    BY <2>3, ConnectionLostKeeps, DidDiscoverServicesKeeps DEF Broken
  <2>4. CASE DelegateStep(p)
    BY <2>4, DidDiscoverKeeps, DidConnectKeeps, DidFailToConnectKeeps, DidDisconnectKeeps,
       DidDiscoverServicesKeeps DEF DelegateStep
  <2>5. CASE Discovered(p)
    BY <2>5, DidDiscoverCharacteristicsKeeps DEF Discovered
  <2> QED
    BY <1>5, <2>1, <2>2, <2>3, <2>4, <2>5
<1> QED
  BY <1>1, <1>2, <1>3, <1>4, <1>5 DEF TransportStep

\* Every step of the node keeps the invariant.
LEMMA ConnectionStep == ConnectionInv /\ [Next]_vars => ConnectionInv'
<1> SUFFICES ASSUME ConnectionInv, [Next]_vars
             PROVE  ConnectionInv'
  OBVIOUS
<1>1. CASE MainStep
  <2>1. UNCHANGED connVars /\ UNCHANGED delayed
    BY <1>1 DEF MainStep, Initialize, Wait, RunLoop, BluetoothReady, MarkReady,
                StartRunners, StopRunner, JoinRunner, StopBluetooth, StopRadio, Return,
                transportVars, connVars, tableVars
  <2> QED
    BY <2>1, ConnectionsAlone
<1>2. CASE Exit \/ RunnerStep
  BY <1>2, ConnectionsAlone
  DEF Exit, RunnerStep, RunnerTest, RunnerSend, RunnerWake, transportVars, connVars, tableVars
<1>3. CASE TransportStep
  BY <1>3, TransportKeeps
<1>4. ASSUME NEW t \in delayed, DelayedAnnounce(t)
      PROVE  ConnectionInv'
  BY <1>4, ConnectionsAlone DEF DelayedAnnounce, transportVars, connVars, tableVars
<1>5. CASE UNCHANGED vars
  BY <1>5, ConnectionsAlone DEF vars, transportVars, connVars, tableVars
<1> QED
  BY <1>1, <1>2, <1>3, <1>4, <1>5 DEF Next

\* Initially no peripheral is known.
LEMMA ConnectionInit == Init => ConnectionInv
BY ShortLists
DEF Init, TransportInit, ConnectionInv, ConnectionTypes, PeripheralInv, Before

\* The invariant holds in every state.
LEMMA ConnectionInvariant == Spec => []ConnectionInv
BY ConnectionInit, ConnectionStep, PTL DEF Spec

\* The announcement that onPeripheralDiscovered's detached thread sends 200 ms
\* later is written only on the connection it was meant for, and nothing is
\* written to a peripheral whose connection the delegate has seen end: a
\* peripheral that was connected stays among the discovered ones, so there is
\* no second connection (didDiscoverPeripheral, didDisconnectPeripheral).
THEOREM AlwaysOwnConnection == Spec => []OwnConnection
<1>1. ConnectionInv => OwnConnection
  <2> SUFFICES ASSUME ConnectionInv
               PROVE  OwnConnection
    OBVIOUS
  <2>1. peripheralCharacteristics \subseteq connectedPeripherals
    BY DEF ConnectionInv, ConnectionTypes, PeripheralInv
  <2>2. ASSUME NEW t \in delayed, Writable(t[1])
        PROVE  connections[t[1]] = t[2]
    <3>1. t[1] \in Peripherals /\ t[2] = 1
      BY DEF ConnectionInv, ConnectionTypes
    <3>2. link[t[1]] = "connected"
      BY <2>2 DEF Writable
    <3> QED
      BY <3>1, <3>2 DEF ConnectionInv, PeripheralInv, Before, After
  <2> QED
    BY <2>1, <2>2 DEF OwnConnection
<1> QED
  BY <1>1, ConnectionInvariant, PTL

-----------------------------------------------------------------------------
(* Type correctness.                                                       *)

\* The types of the variables that are not about connections.
NodeTypes ==
    /\ power \in [Managers -> {"none", "off", "on"}] /\ powerOffs \in 0..MaxPowerOffs
    /\ updates \subseteq Managers /\ mainQueue \subseteq Managers \cup {"create"}
    /\ active \subseteq Managers /\ service \in BOOLEAN /\ ready \in BOOLEAN
    /\ subscribedCentrals \subseteq Centrals
    /\ pc \in {"initialize", "check", "loop", "start", "ui", "stop", "join",
               "bluetooth", "stopped", "done", "failed"}
    /\ runner \in {"none", "test", "send", "sleep", "done"}
    /\ shouldExit \in BOOLEAN
    /\ announced \subseteq Peripherals \cup Centrals
    /\ lost \subseteq Peripherals

\* The transport's steps keep them.
LEMMA TransportTypes ==
    ASSUME NodeTypes, ConnectionInv, TransportStep
    PROVE  NodeTypes'
<1> USE DEF NodeTypes
<1>1. CASE RadioStep
  <2>1. ASSUME NEW m \in Managers, PowerOn(m), UNCHANGED <<lifeVars, announced, lost>>
        PROVE  NodeTypes'
    BY <2>1 DEF PowerOn, lifeVars
  <2>2. ASSUME NEW p \in Peripherals, ConnectFailed(p), UNCHANGED <<lifeVars, announced, lost>>
        PROVE  NodeTypes'
    BY <2>2 DEF ConnectFailed, radioVars, lifeVars
  <2>3. ASSUME NEW c \in Centrals, DidSubscribe(c), UNCHANGED <<lifeVars, announced, lost>>
        PROVE  NodeTypes'
    BY <2>3 DEF DidSubscribe, radioVars, lifeVars
  <2> QED
    BY <1>1, <2>1, <2>2, <2>3 DEF RadioStep
<1>2. CASE SwitchedOff
  <2>1. discoveredPeripherals \subseteq Peripherals
    BY DEF ConnectionInv, ConnectionTypes
  <2> QED
    BY <1>2, <2>1, AppleAssumption DEF SwitchedOff, PowerOff, lifeVars
<1>3. ASSUME NEW c \in Centrals, Unsubscribed(c)
      PROVE  NodeTypes'
  BY <1>3 DEF Unsubscribed, DidUnsubscribe, radioVars, lifeVars
<1>4. ASSUME NEW m \in Managers, StateUpdate(m)
      PROVE  NodeTypes'
  BY <1>4 DEF StateUpdate, DidUpdateState, lifeVars
<1>5. ASSUME NEW p \in Peripherals,
             Sighted(p) \/ Established(p) \/ Broken(p) \/ DelegateStep(p) \/ Discovered(p)
      PROVE  NodeTypes'
  <2>1. UNCHANGED <<radioVars, lifeVars, subscribedCentrals>>
    BY <1>5 DEF Sighted, Sighting, Established, Connected, Broken, ConnectionLost,
                DidDiscoverNothing, DelegateStep, DidDiscover, DidConnect, DidFailToConnect,
                DidDisconnect, DidDiscoverServices, Discovered, DidDiscoverCharacteristics
  <2>2. announced' \subseteq announced /\ lost' \subseteq lost \cup {p}
    BY <1>5 DEF Sighted, Established, Broken, DelegateStep, Discovered
  <2> QED
    BY <2>1, <2>2 DEF radioVars, lifeVars
<1> QED
  BY <1>1, <1>2, <1>3, <1>4, <1>5 DEF TransportStep

\* So does every other step.
LEMMA NodeTypesStep ==
    ASSUME NodeTypes, ConnectionInv, [Next]_vars
    PROVE  NodeTypes'
<1> USE DEF NodeTypes
<1>1. CASE MainStep
  <2>1. CASE Wait
    <3>1. CASE pc' = "loop" /\ UNCHANGED transportVars
      BY <2>1, <3>1 DEF Wait, transportVars, radioVars
    <3>2. CASE RunLoop /\ pc' = "check"
      BY <2>1, <3>2 DEF Wait, RunLoop
    <3> QED
      BY <2>1, <3>1, <3>2 DEF Wait
  <2>2. CASE BluetoothReady
    BY <2>2 DEF BluetoothReady, MarkReady
  <2>3. CASE StopBluetooth
    BY <2>3 DEF StopBluetooth, StopRadio
  <2>4. CASE Initialize \/ StartRunners \/ StopRunner \/ JoinRunner \/ Return
    BY <2>4 DEF Initialize, StartRunners, StartRunner, StopRunner, JoinRunner, Return,
                transportVars, radioVars
  <2> QED
    BY <1>1, <2>1, <2>2, <2>3, <2>4 DEF MainStep
<1>2. CASE Exit
  BY <1>2 DEF Exit, transportVars, radioVars
<1>3. CASE RunnerStep
  <2>1. Audience \subseteq Peripherals \cup Centrals
    BY DEF Audience
  <2> QED
    BY <1>3, <2>1 DEF RunnerStep, RunnerTest, RunnerSend, RunnerWake, transportVars, radioVars
<1>4. CASE TransportStep
  BY <1>4, TransportTypes
<1>5. ASSUME NEW t \in delayed, DelayedAnnounce(t)
      PROVE  NodeTypes'
  <2>1. t[1] \in Peripherals
    BY DEF ConnectionInv, ConnectionTypes
  <2> QED
    BY <1>5, <2>1 DEF DelayedAnnounce, transportVars, radioVars, lifeVars
<1>6. CASE UNCHANGED vars
  BY <1>6 DEF vars, transportVars, radioVars
<1> QED
  BY <1>1, <1>2, <1>3, <1>4, <1>5, <1>6 DEF Next

\* The state of a node has its types, and CoreBluetooth never has the same
\* report about a peripheral outstanding twice.
THEOREM TypeCorrect == Spec => []TypeOK
<1>1. Init => NodeTypes
  <2> SUFFICES ASSUME Init
               PROVE  NodeTypes
    OBVIOUS
  <2>1. power \in [Managers -> {"none", "off", "on"}] /\ powerOffs \in 0..MaxPowerOffs
    BY AppleAssumption DEF Init, TransportInit
  <2>2. /\ updates = {} /\ mainQueue = {"create"} /\ active = {} /\ subscribedCentrals = {}
        /\ service = FALSE /\ ready = FALSE
    BY Zenon DEF Init, TransportInit
  <2>3. service \in BOOLEAN /\ ready \in BOOLEAN
    BY <2>2, Zenon
  <2>4. shouldExit \in BOOLEAN
    BY DEF Init
  <2> QED
    BY <2>1, <2>2, <2>3, <2>4 DEF Init, NodeTypes
<1>2. NodeTypes /\ ConnectionInv => TypeOK
  <2> SUFFICES ASSUME NodeTypes, ConnectionInv
               PROVE  TypeOK
    OBVIOUS
  <2>1. ASSUME NEW p \in Peripherals, NEW i \in DOMAIN events[p], NEW j \in DOMAIN events[p],
               events[p][i] = events[p][j]
        PROVE  i = j
    <3>1. events[p] \in Plain \cup Ended \cup Failed
      <4>1. Fresh \subseteq Plain
        BY DEF Fresh, Plain
      <4> QED
        BY <4>1 DEF ConnectionInv, PeripheralInv, Before, After
    <3> QED
      BY <2>1, <3>1, ListsDistinct
  <2>2. TransportTypeOK
    BY <2>1 DEF NodeTypes, ConnectionInv, ConnectionTypes, TransportTypeOK, Reports
  <2>3. /\ delayed \subseteq Peripherals \X (1..MaxConnections)
        /\ connections \in [Peripherals -> 0..MaxConnections]
    BY DEF ConnectionInv, ConnectionTypes, MaxConnections
  <2> QED
    BY <2>2, <2>3 DEF NodeTypes, TypeOK
<1>3. NodeTypes /\ ConnectionInv /\ [Next]_vars => NodeTypes'
  BY NodeTypesStep
<1> QED
  BY <1>1, <1>2, <1>3, ConnectionInvariant, PTL DEF Spec

=============================================================================
