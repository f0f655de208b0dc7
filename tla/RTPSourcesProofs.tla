-------------------------- MODULE RTPSourcesProofs --------------------------
(***************************************************************************)
(* What the runs of RTPSources check on a small table, proved for every    *)
(* set of identifiers, addresses and packets, any delays and any number of *)
(* packets.                                                                *)
(***************************************************************************)
EXTENDS RTPSources, Iteration

-----------------------------------------------------------------------------
(* Constants.                                                              *)

\* An age is a natural number, and older than every delay at the most.
LEMMA NeverType ==
  /\ Never \in Nat /\ 0 \in Age /\ Never \in Age
  /\ \A d \in DOMAIN Delay : Delay[d] \in Nat /\ Delay[d] < Never
<1> DEFINE S == {Delay[d] : d \in DOMAIN Delay}
           D == {"sender", "bye", "general", "note"}
<1>1. S = {Delay["sender"], Delay["bye"], Delay["general"], Delay["note"]}
  BY DelayAssumption
<1>2. \A d \in D : Delay[d] \in Nat
  BY DelayAssumption
<1>3. \E x \in S : \A y \in S : x >= y
  <2>1. ASSUME NEW a \in Nat, NEW b \in Nat, NEW c \in Nat, NEW d \in Nat
        PROVE  \E x \in {a, b, c, d} : \A y \in {a, b, c, d} : x >= y
    OBVIOUS
  <2> HIDE DEF S
  <2> QED BY <1>1, <1>2, <2>1
<1>4. Max(S) \in S /\ \A y \in S : Max(S) >= y
  BY <1>3 DEF Max
<1>5. Never = 1 + Max(S)
  BY DEF Never
<1>6. Max(S) \in Nat
  BY <1>1, <1>2, <1>4
<1>7. \A d \in DOMAIN Delay : Delay[d] \in S /\ Delay[d] \in Nat
  BY DelayAssumption
<1> HIDE DEF S
<1> QED BY <1>4, <1>5, <1>6, <1>7 DEF Age

\* A new entry is neither a sender nor active.
LEMMA NewSourceType ==
  /\ NewSource \in Source
  /\ ~ NewSource.sender /\ ~ IsActive(NewSource)
  BY NeverType, ProbationAssumption DEF NewSource, Source, AddressState, IsActive

-----------------------------------------------------------------------------
(* The inductive invariant, of a table and of a step between two.          *)

Lists == UNION {[K -> Source] : K \in SUBSET SSRC}

Tables ==
  [list : Lists, own : SSRC \cup {None},
   total : Nat, senders : Nat, active : Int, announced : SUBSET SSRC,
   owncollision : BOOLEAN, status : {"ok", "error"}]

EntrySound(src) ==
  /\ Unset \notin {src.rtp, src.rtcp} => SameHost(src.rtp, src.rtcp)
  /\ src.sender => src.validated

OwnSound(src) == IsActive(src) /\ src.rtp = Self /\ src.rtcp = Self

Sound(t) ==
  /\ t \in Tables
  /\ IsFiniteSet(Known(t))
  /\ t.total = Cardinality(Known(t))
  /\ t.senders = Cardinality(Senders(t))
  /\ t.active <= Cardinality(ActiveMembers(t))
  /\ t.announced = Known(t)
  /\ t.own # None => t.own \in Known(t) /\ OwnSound(t.list[t.own])
  /\ \A s \in Known(t) : EntrySound(t.list[s])

Keeps(old, new) ==
  /\ old.rtp # Unset => new.rtp = old.rtp
  /\ old.rtcp # Unset => new.rtcp = old.rtcp
  /\ old.cname # None => new.cname = old.cname
  /\ old.validated => new.validated
  /\ old.bye => new.bye

\* u comes from t by the arrival of something: no entry is lost.
Grows(t, u) ==
  /\ u.own = t.own
  /\ Known(t) \subseteq Known(u)
  /\ \A s \in Known(t) : Keeps(t.list[s], u.list[s])

Good(t) == {u \in Tables : Sound(u) /\ Grows(t, u)}

\* The entry of s, or what ObtainSourceDataInstance makes for it.
Entry(t, s) == IF s \in Known(t) THEN t.list[s] ELSE NewSource

\* The list of a table maps the identifiers it knows to entries.
LEMMA TablesList ==
  ASSUME NEW t \in Tables
  PROVE  /\ Known(t) \subseteq SSRC
         /\ t.list \in [Known(t) -> Source]
         /\ \A s \in Known(t) : t.list[s] \in Source
         /\ t.list = [s \in Known(t) |-> t.list[s]]
<1>1. PICK K \in SUBSET SSRC : t.list \in [K -> Source]
  BY DEF Tables, Lists
<1>2. K = Known(t)
  BY <1>1 DEF Known
<1> QED BY <1>1, <1>2

\* An identifier has an entry, in the table or new.
LEMMA EntryType ==
  ASSUME NEW t \in Tables, NEW s \in SSRC
  PROVE  Entry(t, s) \in Source
  BY TablesList, NewSourceType DEF Entry

\* Nothing arrives.
LEMMA GrowsReflexive ==
  ASSUME NEW t
  PROVE  Grows(t, t)
  BY DEF Grows, Keeps

\* What arrives in two parts.
LEMMA GrowsTransitive ==
  ASSUME NEW t, NEW u, NEW v, Grows(t, u), Grows(u, v)
  PROVE  Grows(t, v)
<1> SUFFICES ASSUME NEW s \in Known(t) PROVE Keeps(t.list[s], v.list[s])
  BY DEF Grows
<1>1. Keeps(t.list[s], u.list[s]) /\ Keeps(u.list[s], v.list[s])
  BY DEF Grows
<1> QED BY <1>1 DEF Keeps

\* A table in which only the entry of s is another one, and the counts follow.
LEMMA OneEntryChanges ==
  ASSUME NEW t, Sound(t), NEW s \in SSRC, NEW u \in Tables,
         Known(u) = Known(t) \cup {s},
         \A x \in Known(t) \ {s} : u.list[x] = t.list[x],
         u.own = t.own, u.announced = t.announced \cup {s},
         s \in Known(t) => Keeps(t.list[s], u.list[s]),
         EntrySound(u.list[s]),
         s = t.own => OwnSound(u.list[s]),
         u.total = IF s \in Known(t) THEN t.total ELSE t.total + 1,
         Entry(t, s).sender => u.list[s].sender,
         u.senders = IF ~ Entry(t, s).sender /\ u.list[s].sender
                     THEN t.senders + 1 ELSE t.senders,
         u.active <= t.active + (IF IsActive(u.list[s]) THEN 1 ELSE 0)
                              - (IF IsActive(Entry(t, s)) THEN 1 ELSE 0)
  PROVE  u \in Good(t)
<1>1. t \in Tables /\ IsFiniteSet(Known(t))
  BY DEF Sound
<1>2. IsFiniteSet(Known(u)) /\ u.total = Cardinality(Known(u))
  BY <1>1, FS_AddElement DEF Sound
<1>3. u.senders = Cardinality(Senders(u))
  <2>1. IsFiniteSet(Senders(t))
    BY <1>1, FS_Subset DEF Senders
  <2>2. CASE u.list[s].sender
    <3>1. Senders(u) = Senders(t) \cup {s}
      BY <2>2 DEF Senders, Entry
    <3>2. s \in Senders(t) <=> Entry(t, s).sender
      BY NewSourceType DEF Senders, Entry
    <3>3. Cardinality(Senders(t) \cup {s}) =
            IF s \in Senders(t) THEN Cardinality(Senders(t))
            ELSE Cardinality(Senders(t)) + 1
      BY <2>1, FS_AddElement
    <3> QED BY <2>2, <3>1, <3>2, <3>3 DEF Sound
  <2>3. CASE ~ u.list[s].sender
    <3>1. Senders(u) = Senders(t)
      BY <2>3, NewSourceType DEF Senders, Entry
    <3> QED BY <2>3, <3>1 DEF Sound
  <2> QED BY <2>2, <2>3
<1>4. u.active <= Cardinality(ActiveMembers(u))
  <2>1. IsFiniteSet(ActiveMembers(t)) /\ Cardinality(ActiveMembers(t)) \in Nat
    BY <1>1, FS_Subset, FS_CardinalityType DEF ActiveMembers
  <2>2. s \in ActiveMembers(t) <=> IsActive(Entry(t, s))
    BY NewSourceType DEF ActiveMembers, Entry
  <2>3. t.active \in Int /\ u.active \in Int
        /\ t.active <= Cardinality(ActiveMembers(t))
    BY <1>1 DEF Tables, Sound
  <2>4. CASE IsActive(u.list[s])
    <3>1. ActiveMembers(u) = ActiveMembers(t) \cup {s}
      BY <2>4 DEF ActiveMembers
    <3>2. Cardinality(ActiveMembers(u)) =
            IF IsActive(Entry(t, s)) THEN Cardinality(ActiveMembers(t))
            ELSE Cardinality(ActiveMembers(t)) + 1
      BY <2>1, <2>2, <3>1, FS_AddElement, ZenonT(30)
    <3>3. CASE IsActive(Entry(t, s))
      <4>1. u.active <= t.active
        BY <2>3, <2>4, <3>3
      <4>2. Cardinality(ActiveMembers(u)) = Cardinality(ActiveMembers(t))
        BY <3>2, <3>3
      <4> QED BY ONLY <2>1, <2>3, <4>1, <4>2
    <3>4. CASE ~ IsActive(Entry(t, s))
      <4>1. u.active <= t.active + 1
        BY <2>3, <2>4, <3>4
      <4>2. Cardinality(ActiveMembers(u)) = Cardinality(ActiveMembers(t)) + 1
        BY <3>2, <3>4
      <4> QED BY ONLY <2>1, <2>3, <4>1, <4>2
    <3> QED BY <3>3, <3>4
  <2>5. CASE ~ IsActive(u.list[s])
    <3>1. ActiveMembers(u) = ActiveMembers(t) \ {s}
      BY <2>5 DEF ActiveMembers
    <3>2. Cardinality(ActiveMembers(t) \ {s}) =
            IF s \in ActiveMembers(t) THEN Cardinality(ActiveMembers(t)) - 1
            ELSE Cardinality(ActiveMembers(t))
      BY <2>1, FS_RemoveElement
    <3> QED BY <2>1, <2>2, <2>3, <2>5, <3>1, <3>2
  <2> QED BY <2>4, <2>5
<1>5. u.own # None => u.own \in Known(u) /\ OwnSound(u.list[u.own])
  BY DEF Sound
<1>6. \A x \in Known(u) : EntrySound(u.list[x])
  BY DEF Sound
<1>7. u.announced = Known(u)
  BY DEF Sound
<1>8. Grows(t, u)
  BY DEF Grows, Keeps
<1> QED BY <1>2, <1>3, <1>4, <1>5, <1>6, <1>7, <1>8 DEF Good, Sound

-----------------------------------------------------------------------------
(* The pieces that the functions are made of.                              *)

Senders0 == Address \cup {Self}
Kinds == {"rtp", "rtcp"}

\* An address a packet comes from is one, and no other is on the host of Self.
LEMMA SenderTypes ==
  /\ Unset \notin Senders0 /\ Self # Unset
  /\ Self \in Senders0
  /\ \A a \in Senders0 : a = Self \/ ~ SameHost(Self, a)
  /\ \A a \in Senders0 : a = Self \/ ~ SameHost(a, Self)
  BY AddressAssumption DEF Senders0, Self, Unset, SameHost

\* ObtainSourceDataInstance: the identifier has an entry now.
LEMMA ObtainTable ==
  ASSUME NEW t \in Tables, NEW s \in SSRC
  PROVE  LET u == Obtain(t, s)
         IN  /\ u \in Tables
             /\ Known(u) = Known(t) \cup {s}
             /\ \A x \in Known(t) : u.list[x] = t.list[x]
             /\ u.list[s] = Entry(t, s)
             /\ u.total = IF s \in Known(t) THEN t.total ELSE t.total + 1
             /\ u.own = t.own /\ u.announced = t.announced
             /\ u.senders = t.senders /\ u.active = t.active
<1>1. CASE s \in Known(t)
  BY <1>1 DEF Obtain, Entry
<1>2. CASE s \notin Known(t)
  <2> DEFINE list == WithEntry(t.list, s, NewSource)
             u == [t EXCEPT !.list = list, !.total = @ + 1]
  <2>1. /\ DOMAIN list = Known(t) \cup {s}
        /\ \A x \in Known(t) : list[x] = t.list[x]
        /\ list[s] = NewSource
        /\ list = [x \in DOMAIN list |-> list[x]]
    BY <1>2 DEF Known, WithEntry
  <2>2. list \in Lists
    <3>1. DOMAIN list \in SUBSET SSRC
      BY <2>1, TablesList
    <3>2. list \in [DOMAIN list -> Source]
      <4> HIDE DEF list
      <4> QED BY <2>1, TablesList, NewSourceType
    <3> QED BY <3>1, <3>2 DEF Lists
  <2>3. u \in Tables /\ u.list = list /\ u.total = t.total + 1
        /\ u.own = t.own /\ u.announced = t.announced
        /\ u.senders = t.senders /\ u.active = t.active
    <3> HIDE DEF list
    <3>1. t.total + 1 \in Nat
      BY DEF Tables
    <3> QED BY <2>2, <3>1 DEF Tables
  <2>4. u = Obtain(t, s)
    BY <1>2 DEF Obtain
  <2> HIDE DEF list, u
  <2> QED BY <1>2, <2>1, <2>3, <2>4 DEF Known, Entry
<1> QED BY <1>1, <1>2

\* The entry src with the address from for this kind, if it had none.
Addressed(src, from, kind) ==
  [src EXCEPT ![kind] = IF src[kind] = Unset THEN from ELSE src[kind]]

\* Another entry in the place of one that is there.
LEMMA PutEntry ==
  ASSUME NEW t \in Tables, NEW s \in Known(t), NEW new \in Source
  PROVE  LET list == [t.list EXCEPT ![s] = new]
         IN  /\ list \in Lists
             /\ DOMAIN list = Known(t)
             /\ list[s] = new
             /\ \A x \in Known(t) \ {s} : list[x] = t.list[x]
<1> DEFINE list == [t.list EXCEPT ![s] = new]
<1>1. t.list \in [Known(t) -> Source] /\ Known(t) \in SUBSET SSRC
  BY TablesList
<1>2. list \in [Known(t) -> Source]
  BY <1>1
<1> QED BY <1>1, <1>2 DEF Lists

\* The entry of s has an address of this kind now, and is the same otherwise.
LEMMA EntryForTable ==
  ASSUME NEW t \in Tables, NEW s \in SSRC, NEW from \in Senders0,
         NEW kind \in Kinds
  PROVE  LET u == EntryFor(t, s, from, kind)
             new == Addressed(Entry(t, s), from, kind)
         IN  /\ u \in Tables
             /\ Known(u) = Known(t) \cup {s}
             /\ \A x \in Known(t) \ {s} : u.list[x] = t.list[x]
             /\ new \in Source
             /\ u.list[s] = new
             /\ u.total = IF s \in Known(t) THEN t.total ELSE t.total + 1
             /\ u.own = t.own /\ u.announced = t.announced
             /\ u.senders = t.senders /\ u.active = t.active
<1> DEFINE old == Entry(t, s)
           o == Obtain(t, s)
           address == IF old[kind] = Unset THEN from ELSE old[kind]
           new == Addressed(old, from, kind)
           u == [o EXCEPT !.list = [@ EXCEPT ![s] = new]]
<1>1. old \in Source
  BY EntryType
<1>2. address \in AddressState
  BY <1>1 DEF Source, Kinds, Senders0, AddressState
<1>3. new \in Source
  <2>1. CASE kind = "rtp"
    BY <1>1, <1>2, <2>1 DEF Source, Addressed
  <2>2. CASE kind = "rtcp"
    BY <1>1, <1>2, <2>2 DEF Source, Addressed
  <2> QED BY <2>1, <2>2 DEF Kinds
<1>4. /\ o \in Tables /\ s \in Known(o) /\ o.list[s] = old
  BY ObtainTable
<1>5. EntryFor(t, s, from, kind) = u
  BY <1>4 DEF EntryFor, Addressed, Tables
<1>6. /\ [o.list EXCEPT ![s] = new] \in Lists
      /\ DOMAIN [o.list EXCEPT ![s] = new] = Known(o)
      /\ [o.list EXCEPT ![s] = new][s] = new
      /\ \A x \in Known(o) \ {s} : [o.list EXCEPT ![s] = new][x] = o.list[x]
  <2> HIDE DEF o, new
  <2> QED BY <1>3, <1>4, PutEntry
<1>7. /\ u \in Tables
      /\ u.list = [o.list EXCEPT ![s] = new]
      /\ u.total = o.total /\ u.own = o.own /\ u.announced = o.announced
      /\ u.senders = o.senders /\ u.active = o.active
  <2> HIDE DEF o, new
  <2> QED BY <1>4, <1>6 DEF Tables
<1> HIDE DEF u
<1> QED BY <1>3, <1>5, <1>6, <1>7, ObtainTable DEF Known

\* An entry that accepts a sender stays sound, and its own one stays so too.
LEMMA EntryForSound ==
  ASSUME NEW t, Sound(t), NEW s \in SSRC, NEW from \in Senders0,
         NEW kind \in Kinds, Accepts(t, s, from, kind)
  PROVE  LET old == Entry(t, s)
             new == Addressed(old, from, kind)
         IN  /\ EntrySound(new) /\ Keeps(old, new)
             /\ new.sender = old.sender /\ new.validated = old.validated
             /\ new.bye = old.bye /\ new.cname = old.cname
             /\ s = t.own => OwnSound(new)
<1> DEFINE old == Entry(t, s)
           address == IF old[kind] = Unset THEN from ELSE old[kind]
           new == Addressed(old, from, kind)
<1>1. old \in Source
  BY EntryType DEF Sound
<1>2. EntrySound(old) /\ (s = t.own => OwnSound(old))
  <2>1. CASE s \in Known(t)
    BY <2>1, SSRCAssumption DEF Sound, Entry
  <2>2. CASE s \notin Known(t)
    BY <2>2, SSRCAssumption DEF Sound, Entry, EntrySound, NewSource
  <2> QED BY <2>1, <2>2
<1>3. old[Other(kind)] # Unset /\ address # Unset
        => SameHost(old[Other(kind)], address)
  <2>1. CASE s \in Known(t)
    <3>1. ~ Collides(old, from, kind)
      BY <2>1 DEF Accepts, Entry
    <3>2. old[kind] # Unset /\ old[Other(kind)] # Unset
            => SameHost(old[Other(kind)], old[kind])
      BY <1>2 DEF EntrySound, Other, Kinds, SameHost
    <3> QED BY <3>1, <3>2 DEF Collides
  <2>2. CASE s \notin Known(t)
    BY <2>2 DEF Entry, NewSource, Other, Kinds
  <2> QED BY <2>1, <2>2
<1>4. CASE kind = "rtp"
  <2>1. /\ new.rtp = address /\ new.rtcp = old.rtcp
        /\ new.sender = old.sender /\ new.validated = old.validated
        /\ new.bye = old.bye /\ new.cname = old.cname
    BY <1>1, <1>4 DEF Source, Addressed
  <2>2. old.rtcp # Unset /\ address # Unset => SameHost(old.rtcp, address)
    BY <1>3, <1>4 DEF Other
  <2>3. EntrySound(new)
    BY <1>2, <2>1, <2>2 DEF EntrySound, SameHost
  <2>4. old.rtp # Unset => address = old.rtp
    BY <1>4
  <2> HIDE DEF address
  <2>5. Keeps(old, new)
    BY <2>1, <2>4 DEF Keeps
  <2>6. s = t.own => OwnSound(new)
    BY <1>2, <2>1, <2>4, SenderTypes DEF OwnSound, IsActive
  <2> QED BY <2>1, <2>3, <2>5, <2>6
<1>5. CASE kind = "rtcp"
  <2>1. /\ new.rtcp = address /\ new.rtp = old.rtp
        /\ new.sender = old.sender /\ new.validated = old.validated
        /\ new.bye = old.bye /\ new.cname = old.cname
    BY <1>1, <1>5 DEF Source, Addressed
  <2>2. old.rtp # Unset /\ address # Unset => SameHost(old.rtp, address)
    BY <1>3, <1>5 DEF Other
  <2>3. EntrySound(new)
    BY <1>2, <2>1, <2>2 DEF EntrySound, SameHost
  <2>4. old.rtcp # Unset => address = old.rtcp
    BY <1>5
  <2> HIDE DEF address
  <2>5. Keeps(old, new)
    BY <2>1, <2>4 DEF Keeps
  <2>6. s = t.own => OwnSound(new)
    BY <1>2, <2>1, <2>4, SenderTypes DEF OwnSound, IsActive
  <2> QED BY <2>1, <2>3, <2>5, <2>6
<1> QED BY <1>4, <1>5 DEF Kinds

-----------------------------------------------------------------------------
(* RTCP: each piece of a packet gives a good table.                        *)

\* The entry of s is new, its time is now, and the application knows it.
LEMMA UpdateRTCPTable ==
  ASSUME NEW t \in Tables, NEW s \in Known(t), NEW new \in Source
  PROVE  LET u == UpdateRTCP(t, s, new)
         IN  /\ u \in Tables
             /\ Known(u) = Known(t)
             /\ \A x \in Known(t) \ {s} : u.list[x] = t.list[x]
             /\ u.list[s] = [new EXCEPT !.lastmsg = 0]
             /\ u.announced = t.announced \cup {s}
             /\ u.total = t.total /\ u.own = t.own
             /\ u.senders = t.senders /\ u.active = t.active
<1> DEFINE last == [new EXCEPT !.lastmsg = 0]
           u == [t EXCEPT !.list = [@ EXCEPT ![s] = last],
                          !.announced = @ \cup {s}]
<1>1. last \in Source
  BY NeverType DEF Source
<1>2. /\ [t.list EXCEPT ![s] = last] \in Lists
      /\ DOMAIN [t.list EXCEPT ![s] = last] = Known(t)
      /\ [t.list EXCEPT ![s] = last][s] = last
      /\ \A x \in Known(t) \ {s} : [t.list EXCEPT ![s] = last][x] = t.list[x]
  <2> HIDE DEF last
  <2> QED BY <1>1, PutEntry
<1>3. UpdateRTCP(t, s, new) = u
  BY TablesList, ZenonT(30) DEF UpdateRTCP, OnNewSource, Tables
<1>4. s \in SSRC
  BY TablesList
<1>5. /\ u \in Tables
      /\ u.list = [t.list EXCEPT ![s] = last]
      /\ u.announced = t.announced \cup {s}
      /\ u.total = t.total /\ u.own = t.own
      /\ u.senders = t.senders /\ u.active = t.active
  <2> HIDE DEF last
  <2>1. t.announced \cup {s} \in SUBSET SSRC
    BY <1>4 DEF Tables
  <2> QED BY <1>2, <2>1 DEF Tables
<1> HIDE DEF u
<1> QED BY <1>2, <1>3, <1>5 DEF Known

\* What an RTCP packet says of s leaves a good table, if the new entry keeps what
\* the old one had and the number of active members follows it.
LEMMA RTCPGood ==
  ASSUME NEW t, Sound(t), NEW s \in SSRC, NEW from \in Senders0,
         Accepts(t, s, from, "rtcp"), NEW new \in Source, NEW a \in Int,
         LET e == EntryFor(t, s, from, "rtcp").list[s]
         IN  /\ Keeps(e, new) /\ new.rtp = e.rtp /\ new.rtcp = e.rtcp
             /\ new.sender = e.sender
             /\ s = t.own => ~ new.bye
             /\ a <= t.active + (IF IsActive(new) THEN 1 ELSE 0)
                              - (IF IsActive(e) THEN 1 ELSE 0)
  PROVE  [UpdateRTCP(EntryFor(t, s, from, "rtcp"), s, new) EXCEPT !.active = a]
           \in Good(t)
<1> DEFINE
      old == Entry(t, s)
      e == Addressed(old, from, "rtcp")
      f == EntryFor(t, s, from, "rtcp")
      v == UpdateRTCP(f, s, new)
      u == [v EXCEPT !.active = a]
      last == [new EXCEPT !.lastmsg = 0]
<1>1. t \in Tables /\ "rtcp" \in Kinds
  BY DEF Sound, Kinds
<1>2. /\ f \in Tables /\ e \in Source /\ f.list[s] = e
      /\ Known(f) = Known(t) \cup {s}
      /\ \A x \in Known(t) \ {s} : f.list[x] = t.list[x]
      /\ f.total = IF s \in Known(t) THEN t.total ELSE t.total + 1
      /\ f.own = t.own /\ f.announced = t.announced
      /\ f.senders = t.senders /\ f.active = t.active
  BY <1>1, EntryForTable
<1>3. /\ EntrySound(e) /\ Keeps(old, e)
      /\ e.sender = old.sender /\ e.validated = old.validated
      /\ e.bye = old.bye
      /\ s = t.own => OwnSound(e)
  BY <1>1, EntryForSound
<1>0. /\ Keeps(e, new) /\ new.rtp = e.rtp /\ new.rtcp = e.rtcp
      /\ new.sender = e.sender
      /\ s = t.own => ~ new.bye
      /\ a <= t.active + (IF IsActive(new) THEN 1 ELSE 0)
                       - (IF IsActive(e) THEN 1 ELSE 0)
  BY <1>2
<1> HIDE DEF f, e, old
<1>4. /\ v \in Tables /\ Known(v) = Known(f) /\ v.list[s] = last
      /\ \A x \in Known(f) \ {s} : v.list[x] = f.list[x]
      /\ v.announced = f.announced \cup {s} /\ v.total = f.total
      /\ v.own = f.own /\ v.senders = f.senders
  BY <1>2, UpdateRTCPTable
<1> HIDE DEF v
<1>5. /\ u \in Tables /\ u.list = v.list /\ u.announced = v.announced
      /\ u.total = v.total /\ u.own = v.own /\ u.senders = v.senders
      /\ u.active = a
  BY <1>4 DEF Tables
<1> HIDE DEF u
<1>6. /\ last.rtp = new.rtp /\ last.rtcp = new.rtcp /\ last.sender = new.sender
      /\ last.validated = new.validated /\ last.bye = new.bye
      /\ last.cname = new.cname
  BY DEF Source
<1> HIDE DEF last
<1>7. Keeps(old, last)
  BY <1>0, <1>2, <1>3, <1>6 DEF Keeps
<1>8. EntrySound(last)
  BY <1>0, <1>2, <1>3, <1>6 DEF EntrySound, Keeps
<1>9. s = t.own => OwnSound(last)
  BY <1>0, <1>2, <1>3, <1>6 DEF OwnSound, Keeps, IsActive
<1>10. u.active <= t.active + (IF IsActive(last) THEN 1 ELSE 0)
                            - (IF IsActive(old) THEN 1 ELSE 0)
  BY <1>0, <1>2, <1>3, <1>5, <1>6 DEF IsActive
<1>11. /\ Known(u) = Known(t) \cup {s}
       /\ \A x \in Known(t) \ {s} : u.list[x] = t.list[x]
       /\ u.own = t.own /\ u.announced = t.announced \cup {s}
       /\ u.list[s] = last /\ u.senders = t.senders
       /\ u.total = IF s \in Known(t) THEN t.total ELSE t.total + 1
  BY <1>2, <1>4, <1>5 DEF Known
<1>12. s \in Known(t) => old = t.list[s]
  BY DEF old, Entry
<1>13. old.sender => last.sender
  BY <1>0, <1>2, <1>3, <1>6
<1>14. u.senders = IF ~ old.sender /\ last.sender THEN t.senders + 1 ELSE t.senders
  BY <1>0, <1>2, <1>3, <1>6, <1>11
<1>15. u \in Good(t)
  BY <1>5, <1>7, <1>8, <1>9, <1>10, <1>11, <1>12, <1>13, <1>14, OneEntryChanges DEF old
<1> QED BY <1>15 DEF u, v, f

\* A table whose entries and counts are those of t.
LEMMA SameGood ==
  ASSUME NEW t, Sound(t), NEW u \in Tables,
         u.list = t.list, u.own = t.own, u.total = t.total,
         u.senders = t.senders, u.active = t.active, u.announced = t.announced
  PROVE  u \in Good(t)
<1>1. /\ Known(u) = Known(t) /\ Senders(u) = Senders(t)
      /\ ActiveMembers(u) = ActiveMembers(t)
  BY DEF Known, Senders, ActiveMembers
<1>2. Grows(t, u)
  BY DEF Grows, Keeps, Known
<1> QED BY <1>1, <1>2 DEF Good, Sound

\* A collision changes no entry.
LEMMA CollisionGood ==
  ASSUME NEW t, Sound(t), NEW s
  PROVE  OnSSRCCollision(t, s) \in Good(t)
<1>1. t \in Tables
  BY DEF Sound
<1>2. t.owncollision \in BOOLEAN
  BY <1>1 DEF Tables
<1>3. (t.owncollision \/ s = t.own) \in BOOLEAN
  BY <1>2
<1>4. OnSSRCCollision(t, s) = [t EXCEPT !.owncollision = t.owncollision \/ s = t.own]
  BY DEF OnSSRCCollision
<1> DEFINE c == t.owncollision \/ s = t.own
           u == [t EXCEPT !.owncollision = c]
<1>5. /\ u \in Tables /\ u.list = t.list /\ u.own = t.own /\ u.total = t.total
      /\ u.senders = t.senders /\ u.active = t.active /\ u.announced = t.announced
  <2>1. ASSUME NEW b \in BOOLEAN PROVE [t EXCEPT !.owncollision = b] \in Tables
    BY <1>1 DEF Tables
  <2>2. c \in BOOLEAN
    BY <1>3
  <2> HIDE DEF c
  <2>3. u \in Tables
    BY <2>1, <2>2
  <2> QED BY <1>1, <2>3 DEF Tables
<1>6. u \in Good(t)
  <2> HIDE DEF u
  <2> QED BY <1>5, SameGood
<1> QED BY <1>4, <1>6

\* What stores only the time: sender information, blocks, private items.
LEMMA SenderInfoGood ==
  ASSUME NEW t, Sound(t), NEW s \in SSRC, NEW from \in Senders0
  PROVE  ProcessSenderInfo(t, s, from) \in Good(t)
<1>1. CASE ~ Accepts(t, s, from, "rtcp")
  BY <1>1, CollisionGood DEF ProcessSenderInfo
<1>2. CASE Accepts(t, s, from, "rtcp")
  <2> DEFINE f == EntryFor(t, s, from, "rtcp")
             e == f.list[s]
             v == UpdateRTCP(f, s, e)
  <2>1. /\ t \in Tables /\ f \in Tables /\ s \in Known(f) /\ e \in Source
        /\ f.own = t.own /\ f.active = t.active
    BY EntryForTable DEF Sound, Kinds
  <2>2. s = t.own => ~ e.bye
    BY <1>2, <2>1, EntryForTable, EntryForSound DEF OwnSound, IsActive, Kinds
  <2>3. t.active \in Int
    BY <2>1 DEF Tables
  <2>4. Keeps(e, e)
    BY DEF Keeps
  <2>5. [v EXCEPT !.active = t.active] \in Good(t)
    <3> HIDE DEF v
    <3> SUFFICES [UpdateRTCP(EntryFor(t, s, from, "rtcp"), s, e)
                    EXCEPT !.active = t.active] \in Good(t)
      BY DEF v
    <3> QED BY <1>2, <2>1, <2>2, <2>3, <2>4, RTCPGood
  <2>6. v \in Tables /\ v.active = t.active
    <3> HIDE DEF f, e
    <3>1. v \in Tables /\ v.active = f.active
      BY <2>1, UpdateRTCPTable
    <3> QED BY <2>1, <3>1
  <2>7. [v EXCEPT !.active = t.active] = v
    <3> HIDE DEF v
    <3> QED BY <2>6 DEF Tables
  <2>8. ProcessSenderInfo(t, s, from) = v
    BY <1>2 DEF ProcessSenderInfo
  <2> QED BY <2>5, <2>7, <2>8
<1> QED BY <1>1, <1>2

\* An item of SDES keeps the entry's addresses, its BYE and its first CNAME.
LEMMA SetItemKeeps ==
  ASSUME NEW src \in Source, NEW item \in Items, item.type # "Unknown"
  PROVE  LET new == SetItem(src, item)
         IN  /\ new \in Source /\ Keeps(src, new)
             /\ new.rtp = src.rtp /\ new.rtcp = src.rtcp
             /\ new.sender = src.sender /\ new.bye = src.bye
             /\ IsActive(src) => IsActive(new)
<1>1. CASE item.type = "CNAME" /\ src.cname = None
  <2> DEFINE new == [src EXCEPT !.cname = item.value, !.validated = TRUE]
  <2>1. SetItem(src, item) = new
    BY <1>1 DEF SetItem
  <2>2. item.value \in CName
    BY <1>1 DEF Items
  <2>3. new \in Source
    BY <2>2 DEF Source
  <2> QED BY <1>1, <2>1, <2>3 DEF Keeps, IsActive, Source
<1>2. CASE item.type = "NOTE"
  <2> DEFINE new == [src EXCEPT !.note = item.value, !.notetime = 0]
  <2>1. SetItem(src, item) = new
    BY <1>2 DEF SetItem
  <2>2. item.value \in BOOLEAN
    BY <1>2 DEF Items
  <2>3. ASSUME NEW b \in BOOLEAN
        PROVE  [src EXCEPT !.note = b, !.notetime = 0] \in Source
    BY NeverType DEF Source
  <2>4. new \in Source
    BY <2>2, <2>3
  <2> QED BY <1>2, <2>1, <2>4 DEF Keeps, IsActive, Source
<1>3. CASE ~ (item.type = "CNAME" /\ src.cname = None) /\ item.type # "NOTE"
  <2>1. SetItem(src, item) = src
    BY <1>3 DEF SetItem
  <2> QED BY <2>1 DEF Keeps
<1> QED BY <1>1, <1>2, <1>3

\* A table that came from a sound one is sound.
LEMMA GoodSound ==
  ASSUME NEW t, NEW u \in Good(t)
  PROVE  Sound(u) /\ u \in Tables
  BY DEF Good

\* A sound table when nothing arrives.
LEMMA GoodReflexive ==
  ASSUME NEW t, Sound(t)
  PROVE  t \in Good(t)
  BY GrowsReflexive DEF Good, Sound

\* Two parts of a packet.
LEMMA GoodTransitive ==
  ASSUME NEW t, NEW u \in Good(t), NEW v \in Good(u)
  PROVE  v \in Good(t)
  BY GrowsTransitive DEF Good

\* An error changes no entry.
LEMMA ErrorGood ==
  ASSUME NEW t, Sound(t)
  PROVE  [t EXCEPT !.status = "error"] \in Good(t)
<1> DEFINE u == [t EXCEPT !.status = "error"]
<1>1. /\ u \in Tables
      /\ u.list = t.list /\ u.own = t.own /\ u.total = t.total
      /\ u.senders = t.senders /\ u.active = t.active /\ u.announced = t.announced
  BY DEF Sound, Tables
<1> HIDE DEF u
<1>2. u \in Good(t)
  BY <1>1, SameGood
<1> QED BY <1>2 DEF u

\* An item can make its source active, and is counted then.
LEMMA NormalItemGood ==
  ASSUME NEW t, Sound(t), NEW s \in SSRC, NEW from \in Senders0, NEW item \in Items
  PROVE  ProcessSDESNormalItem(t, s, item, from) \in Good(t)
<1>1. CASE item.type = "Unknown"
  BY <1>1, ErrorGood DEF ProcessSDESNormalItem
<1>2. CASE item.type # "Unknown" /\ ~ Accepts(t, s, from, "rtcp")
  BY <1>2, CollisionGood DEF ProcessSDESNormalItem
<1>3. CASE item.type # "Unknown" /\ Accepts(t, s, from, "rtcp")
  <2> DEFINE f == EntryFor(t, s, from, "rtcp")
             e == f.list[s]
             new == SetItem(e, item)
             v == UpdateRTCP(f, s, new)
             a == IF ~ IsActive(e) /\ IsActive(new) THEN t.active + 1 ELSE t.active
  <2>1. /\ t \in Tables /\ f \in Tables /\ s \in Known(f) /\ e \in Source
        /\ f.own = t.own /\ f.active = t.active
    BY EntryForTable DEF Sound, Kinds
  <2>2. s = t.own => ~ e.bye
    BY <1>3, <2>1, EntryForTable, EntryForSound DEF OwnSound, IsActive, Kinds
  <2>3. t.active \in Int
    BY <2>1 DEF Tables
  <2>4. /\ new \in Source /\ Keeps(e, new)
        /\ new.rtp = e.rtp /\ new.rtcp = e.rtcp
        /\ new.sender = e.sender /\ new.bye = e.bye
        /\ IsActive(e) => IsActive(new)
    <3> HIDE DEF e
    <3> QED BY <1>3, <2>1, SetItemKeeps
  <2>5. v \in Tables /\ v.active = t.active
    <3> HIDE DEF f, e, new
    <3>1. v \in Tables /\ v.active = f.active
      BY <2>1, <2>4, UpdateRTCPTable
    <3> QED BY <2>1, <3>1
  <2>6. a \in Int /\ a <= t.active + (IF IsActive(new) THEN 1 ELSE 0)
                                   - (IF IsActive(e) THEN 1 ELSE 0)
    <3> HIDE DEF e, new
    <3> QED BY <2>3, <2>4
  <2>7. [v EXCEPT !.active = a] \in Good(t)
    <3> HIDE DEF new, a
    <3> QED BY <1>3, <2>2, <2>4, <2>6, RTCPGood
  <2>8. ProcessSDESNormalItem(t, s, item, from) = [v EXCEPT !.active = a]
    <3>1. ProcessSDESNormalItem(t, s, item, from) =
            [v EXCEPT !.active = IF ~ IsActive(e) /\ IsActive(new)
                                 THEN v.active + 1 ELSE v.active]
      BY <1>3 DEF ProcessSDESNormalItem
    <3> HIDE DEF v, e, new
    <3> QED BY <2>5, <3>1
  <2> QED BY <2>7, <2>8
<1> QED BY <1>1, <1>2, <1>3

\* A BYE takes its source out of the active members, and not the session's own.
LEMMA BYEGood ==
  ASSUME NEW t, Sound(t), NEW s \in SSRC, NEW from \in Senders0
  PROVE  ProcessBYE(t, s, from) \in Good(t)
<1>1. CASE ~ Accepts(t, s, from, "rtcp")
  BY <1>1, CollisionGood DEF ProcessBYE
<1>2. CASE Accepts(t, s, from, "rtcp") /\ s = t.own
  <2> DEFINE f == EntryFor(t, s, from, "rtcp")
             old == Entry(t, s)
             e == Addressed(old, from, "rtcp")
  <2>1. t \in Tables /\ "rtcp" \in Kinds /\ s \in Known(t)
    BY <1>2, SSRCAssumption DEF Sound, Kinds
  <2>2. /\ f \in Tables /\ f.list[s] = e
        /\ Known(f) = Known(t) \cup {s}
        /\ \A x \in Known(t) \ {s} : f.list[x] = t.list[x]
        /\ f.total = t.total
        /\ f.own = t.own /\ f.announced = t.announced
        /\ f.senders = t.senders /\ f.active = t.active
    BY <2>1, EntryForTable
  <2>3. /\ EntrySound(e) /\ Keeps(old, e)
        /\ e.sender = old.sender /\ e.validated = old.validated
        /\ e.bye = old.bye /\ OwnSound(e)
    BY <1>2, <2>1, EntryForSound
  <2>4. old = t.list[s] /\ s \in t.announced /\ t.active \in Int
    BY <2>1 DEF Sound, Entry, Tables
  <2> HIDE DEF f, e, old
  <2>5. /\ f.announced = t.announced \cup {s}
        /\ f.active <= t.active + (IF IsActive(e) THEN 1 ELSE 0)
                                - (IF IsActive(old) THEN 1 ELSE 0)
    BY <2>2, <2>3, <2>4 DEF IsActive
  <2>6. f \in Good(t)
    BY <2>1, <2>2, <2>3, <2>4, <2>5, OneEntryChanges DEF old
  <2>7. ProcessBYE(t, s, from) = f
    BY <1>2 DEF ProcessBYE, f
  <2> QED BY <2>6, <2>7
<1>3. CASE Accepts(t, s, from, "rtcp") /\ s # t.own
  <2> DEFINE f == EntryFor(t, s, from, "rtcp")
             e == f.list[s]
             new == [e EXCEPT !.bye = TRUE, !.byetime = 0]
             v == UpdateRTCP(f, s, new)
             a == IF IsActive(e) THEN t.active - 1 ELSE t.active
  <2>1. /\ t \in Tables /\ f \in Tables /\ s \in Known(f) /\ e \in Source
        /\ f.own = t.own /\ f.active = t.active
    BY EntryForTable DEF Sound, Kinds
  <2>2. t.active \in Int
    BY <2>1 DEF Tables
  <2>3. /\ new \in Source /\ Keeps(e, new)
        /\ new.rtp = e.rtp /\ new.rtcp = e.rtcp
        /\ new.sender = e.sender /\ ~ IsActive(new)
    <3> HIDE DEF e
    <3> QED BY <2>1, NeverType DEF Source, Keeps, IsActive
  <2>4. v \in Tables /\ v.active = t.active
    <3> HIDE DEF f, e, new
    <3>1. v \in Tables /\ v.active = f.active
      BY <2>1, <2>3, UpdateRTCPTable
    <3> QED BY <2>1, <3>1
  <2>5. a \in Int /\ a <= t.active + (IF IsActive(new) THEN 1 ELSE 0)
                                   - (IF IsActive(e) THEN 1 ELSE 0)
    <3> HIDE DEF e, new
    <3> QED BY <2>2, <2>3
  <2>6. [v EXCEPT !.active = a] \in Good(t)
    <3> HIDE DEF new, a
    <3> QED BY <1>3, <2>3, <2>5, RTCPGood
  <2>7. ProcessBYE(t, s, from) = [v EXCEPT !.active = a]
    <3>1. ProcessBYE(t, s, from) =
            [v EXCEPT !.active = IF IsActive(e) THEN v.active - 1 ELSE v.active]
      BY <1>3 DEF ProcessBYE
    <3> HIDE DEF v, e, new
    <3> QED BY <2>4, <3>1
  <2> QED BY <2>6, <2>7
<1> QED BY <1>1, <1>2, <1>3

\* An item of any type.
LEMMA ItemGood ==
  ASSUME NEW t, Sound(t), NEW s \in SSRC, NEW item \in Items, NEW from \in Senders0
  PROVE  ProcessItem(t, s, item, from) \in Good(t)
  BY GoodReflexive, SenderInfoGood, NormalItemGood
  DEF ProcessItem, ProcessSDESPrivateItem

\* A loop over a list keeps the table good if its body does.
LEMMA ItemsGood ==
  ASSUME NEW t, Sound(t), NEW s \in SSRC, NEW items \in Seq(Items), NEW from \in Senders0
  PROVE  ProcessItems(t, s, items, from) \in Good(t)
<1> DEFINE
      L == Len(items)
      step == [y \in Good(t) \X (1..L) |-> ProcessItem(y[1], s, items[y[2]], from)]
      Steps(h) == h = [n \in 0..L |-> IF n = 0 THEN t ELSE ProcessItem(h[n - 1], s, items[n], from)]
      after == CHOOSE h : Steps(h)
<1>1. L \in Nat /\ \A n \in 1..L : items[n] \in Items
  OBVIOUS
<1>2. ASSUME NEW u \in Good(t), NEW n \in 1..L
      PROVE  ProcessItem(u, s, items[n], from) \in Good(t)
  BY <1>1, GoodSound, GoodTransitive, ItemGood
<1>3. t \in Good(t)
  BY GoodReflexive
<1>4. \E g : Steps(g)
  <2>1. step \in [Good(t) \X (1..L) -> Good(t)]
    <3> SUFFICES ASSUME NEW y \in Good(t) \X (1..L) PROVE step[y] \in Good(t)
      OBVIOUS
    <3>1. y[1] \in Good(t) /\ y[2] \in 1..L
      OBVIOUS
    <3>2. ProcessItem(y[1], s, items[y[2]], from) \in Good(t)
      <4> HIDE DEF L
      <4> QED BY <1>2, <3>1
    <3> QED BY <3>2
  <2>2. PICK g : Iterates(g, Good(t), t, L, step)
    <3> HIDE DEF L, step
    <3> QED BY <1>1, <1>3, <2>1, IterationExists
  <2>3. ASSUME NEW n \in 1..L
        PROVE  step[<<g[n - 1], n>>] = ProcessItem(g[n - 1], s, items[n], from)
    <3> HIDE DEF L
    <3>1. n - 1 \in 0..L /\ g[n - 1] \in Good(t)
      BY <1>1, <2>2 DEF Iterates
    <3>2. <<g[n - 1], n>> \in Good(t) \X (1..L)
      BY <3>1
    <3> QED BY <3>2
  <2>4. /\ g = [n \in 0..L |-> g[n]] /\ g[0] = t
        /\ \A n \in 1..L : g[n] = step[<<g[n - 1], n>>]
    <3> HIDE DEF L, step
    <3> QED BY <2>2 DEF Iterates
  <2>5. Steps(g)
    <3> HIDE DEF L, step
    <3> QED BY <1>1, <2>3, <2>4, SMTT(30)
  <2> QED BY <2>5
<1>5. Steps(after)
  <2> HIDE DEF Steps
  <2> QED BY <1>4
<1>6. /\ after[0] = t
      /\ \A n \in 1..L : after[n] = ProcessItem(after[n - 1], s, items[n], from)
  <2> HIDE DEF after, L
  <2> QED BY <1>1, <1>5
<1>7. after[L] \in Good(t)
  <2> HIDE DEF after, L
  <2>1. after[0] \in Good(t)
    BY <1>3, <1>6
  <2>2. \A n \in 1..L : after[n - 1] \in Good(t) => after[n] \in Good(t)
    BY <1>2, <1>6
  <2> QED BY <1>1, <2>1, <2>2, IterationStays
<1>8. ProcessItems(t, s, items, from) = after[L]
  BY DEF ProcessItems
<1> QED BY <1>7, <1>8

\* The sources of a BYE packet.
LEMMA BYEsGood ==
  ASSUME NEW t, Sound(t), NEW ssrcs \in Seq(SSRC), NEW from \in Senders0
  PROVE  ProcessBYEs(t, ssrcs, from) \in Good(t)
<1> DEFINE
      L == Len(ssrcs)
      step == [y \in Good(t) \X (1..L) |-> ProcessBYE(y[1], ssrcs[y[2]], from)]
      Steps(h) == h = [n \in 0..L |-> IF n = 0 THEN t ELSE ProcessBYE(h[n - 1], ssrcs[n], from)]
      after == CHOOSE h : Steps(h)
<1>1. L \in Nat /\ \A n \in 1..L : ssrcs[n] \in SSRC
  OBVIOUS
<1>2. ASSUME NEW u \in Good(t), NEW n \in 1..L
      PROVE  ProcessBYE(u, ssrcs[n], from) \in Good(t)
  BY <1>1, GoodSound, GoodTransitive, BYEGood
<1>3. t \in Good(t)
  BY GoodReflexive
<1>4. \E g : Steps(g)
  <2>1. step \in [Good(t) \X (1..L) -> Good(t)]
    <3> SUFFICES ASSUME NEW y \in Good(t) \X (1..L) PROVE step[y] \in Good(t)
      OBVIOUS
    <3>1. y[1] \in Good(t) /\ y[2] \in 1..L
      OBVIOUS
    <3>2. ProcessBYE(y[1], ssrcs[y[2]], from) \in Good(t)
      <4> HIDE DEF L
      <4> QED BY <1>2, <3>1
    <3> QED BY <3>2
  <2>2. PICK g : Iterates(g, Good(t), t, L, step)
    <3> HIDE DEF L, step
    <3> QED BY <1>1, <1>3, <2>1, IterationExists
  <2>3. ASSUME NEW n \in 1..L
        PROVE  step[<<g[n - 1], n>>] = ProcessBYE(g[n - 1], ssrcs[n], from)
    <3> HIDE DEF L
    <3>1. n - 1 \in 0..L /\ g[n - 1] \in Good(t)
      BY <1>1, <2>2 DEF Iterates
    <3>2. <<g[n - 1], n>> \in Good(t) \X (1..L)
      BY <3>1
    <3> QED BY <3>2
  <2>4. /\ g = [n \in 0..L |-> g[n]] /\ g[0] = t
        /\ \A n \in 1..L : g[n] = step[<<g[n - 1], n>>]
    <3> HIDE DEF L, step
    <3> QED BY <2>2 DEF Iterates
  <2>5. Steps(g)
    <3> HIDE DEF L, step
    <3> QED BY <1>1, <2>3, <2>4
  <2> QED BY <2>5
<1>5. Steps(after)
  <2> HIDE DEF Steps
  <2> QED BY <1>4
<1>6. /\ after[0] = t
      /\ \A n \in 1..L : after[n] = ProcessBYE(after[n - 1], ssrcs[n], from)
  <2> HIDE DEF after, L
  <2> QED BY <1>1, <1>5
<1>7. after[L] \in Good(t)
  <2> HIDE DEF after, L
  <2>1. after[0] \in Good(t)
    BY <1>3, <1>6
  <2>2. \A n \in 1..L : after[n - 1] \in Good(t) => after[n] \in Good(t)
    BY <1>2, <1>6
  <2> QED BY <1>1, <2>1, <2>2, IterationStays
<1>8. ProcessBYEs(t, ssrcs, from) = after[L]
  BY DEF ProcessBYEs
<1> QED BY <1>7, <1>8

\* The blocks of a report.
LEMMA BlocksGood ==
  ASSUME NEW t, Sound(t), NEW p, p.ssrc \in SSRC, NEW from \in Senders0
  PROVE  ProcessBlocks(t, p, from) \in Good(t)
  BY SenderInfoGood DEF ProcessBlocks, UpdateReceiveTime, ProcessReportBlock

\* A packet of a compound one.
LEMMA PacketGood ==
  ASSUME NEW t, Sound(t), NEW p \in RTCPPackets, NEW from \in Senders0
  PROVE  ProcessPacket(t, p, from) \in Good(t)
<1>1. CASE t.status = "error"
  BY <1>1, GoodReflexive DEF ProcessPacket
<1>2. CASE t.status # "error" /\ p.type = "SR"
  <2>1. p.ssrc \in SSRC
    BY <1>2 DEF RTCPPackets
  <2> DEFINE u == ProcessSenderInfo(t, p.ssrc, from)
  <2>2. u \in Good(t) /\ Sound(u)
    BY <2>1, SenderInfoGood, GoodSound
  <2>3. ProcessBlocks(u, p, from) \in Good(t)
    <3> HIDE DEF u
    <3> QED BY <2>1, <2>2, BlocksGood, GoodTransitive
  <2> QED BY <1>2, <2>3 DEF ProcessPacket
<1>3. CASE t.status # "error" /\ p.type = "RR"
  <2>1. p.ssrc \in SSRC
    BY <1>3 DEF RTCPPackets
  <2> QED BY <1>3, <2>1, BlocksGood DEF ProcessPacket
<1>4. CASE t.status # "error" /\ p.type = "SDES"
  <2>1. p.ssrc \in SSRC /\ p.items \in Seq(Items)
    BY <1>4 DEF RTCPPackets
  <2>2. ProcessSDESChunk(t, p, from) \in Good(t)
    BY <2>1, SenderInfoGood, ItemsGood DEF ProcessSDESChunk, UpdateReceiveTime
  <2> QED BY <1>4, <2>2 DEF ProcessPacket
<1>5. CASE t.status # "error" /\ p.type = "BYE"
  <2>1. p.ssrcs \in Seq(SSRC)
    BY <1>5 DEF RTCPPackets
  <2> QED BY <1>5, <2>1, BYEsGood DEF ProcessPacket
<1>6. CASE t.status # "error" /\ p.type \notin {"SR", "RR", "SDES", "BYE"}
  BY <1>6, GoodReflexive DEF ProcessPacket
<1> QED BY <1>1, <1>2, <1>3, <1>4, <1>5, <1>6

\* An RTCP compound packet.
LEMMA CompoundGood ==
  ASSUME NEW t, Sound(t), NEW ps \in Seq(RTCPPackets), NEW from \in Senders0
  PROVE  ProcessRTCPCompoundPacket(t, ps, from) \in Good(t)
<1> DEFINE
      L == Len(ps)
      step == [y \in Good(t) \X (1..L) |-> ProcessPacket(y[1], ps[y[2]], from)]
      Steps(h) == h = [n \in 0..L |-> IF n = 0 THEN t ELSE ProcessPacket(h[n - 1], ps[n], from)]
      after == CHOOSE h : Steps(h)
<1>1. L \in Nat /\ \A n \in 1..L : ps[n] \in RTCPPackets
  OBVIOUS
<1>2. ASSUME NEW u \in Good(t), NEW n \in 1..L
      PROVE  ProcessPacket(u, ps[n], from) \in Good(t)
  BY <1>1, GoodSound, GoodTransitive, PacketGood
<1>3. t \in Good(t)
  BY GoodReflexive
<1>4. \E g : Steps(g)
  <2>1. step \in [Good(t) \X (1..L) -> Good(t)]
    <3> SUFFICES ASSUME NEW y \in Good(t) \X (1..L) PROVE step[y] \in Good(t)
      OBVIOUS
    <3>1. y[1] \in Good(t) /\ y[2] \in 1..L
      OBVIOUS
    <3>2. ProcessPacket(y[1], ps[y[2]], from) \in Good(t)
      <4> HIDE DEF L
      <4> QED BY <1>2, <3>1
    <3> QED BY <3>2
  <2>2. PICK g : Iterates(g, Good(t), t, L, step)
    <3> HIDE DEF L, step
    <3> QED BY <1>1, <1>3, <2>1, IterationExists
  <2>3. ASSUME NEW n \in 1..L
        PROVE  step[<<g[n - 1], n>>] = ProcessPacket(g[n - 1], ps[n], from)
    <3> HIDE DEF L
    <3>1. n - 1 \in 0..L /\ g[n - 1] \in Good(t)
      BY <1>1, <2>2 DEF Iterates
    <3>2. <<g[n - 1], n>> \in Good(t) \X (1..L)
      BY <3>1
    <3> QED BY <3>2
  <2>4. /\ g = [n \in 0..L |-> g[n]] /\ g[0] = t
        /\ \A n \in 1..L : g[n] = step[<<g[n - 1], n>>]
    <3> HIDE DEF L, step
    <3> QED BY <2>2 DEF Iterates
  <2>5. Steps(g)
    <3> HIDE DEF L, step
    <3> QED BY <1>1, <2>3, <2>4
  <2> QED BY <2>5
<1>5. Steps(after)
  <2> HIDE DEF Steps
  <2> QED BY <1>4
<1>6. /\ after[0] = t
      /\ \A n \in 1..L : after[n] = ProcessPacket(after[n - 1], ps[n], from)
  <2> HIDE DEF after, L
  <2> QED BY <1>1, <1>5
<1>7. after[L] \in Good(t)
  <2> HIDE DEF after, L
  <2>1. after[0] \in Good(t)
    BY <1>3, <1>6
  <2>2. \A n \in 1..L : after[n - 1] \in Good(t) => after[n] \in Good(t)
    BY <1>2, <1>6
  <2> QED BY <1>1, <2>1, <2>2, IterationStays
<1>8. ProcessRTCPCompoundPacket(t, ps, from) = after[L]
  BY DEF ProcessRTCPCompoundPacket
<1> QED BY <1>7, <1>8

-----------------------------------------------------------------------------
(* RTP: the packet's own source and the contributing ones.                 *)

\* Probation and the statistics leave everything else as it is.
LEMMA StatsKeep ==
  ASSUME NEW src \in Source, NEW expected \in BOOLEAN, NEW own \in BOOLEAN
  PROVE  LET new == ProcessStats(src, expected, own)
         IN  /\ new \in Source
             /\ new.rtp = src.rtp /\ new.rtcp = src.rtcp /\ new.cname = src.cname
             /\ new.sender = src.sender /\ new.bye = src.bye
             /\ new.validated = src.validated
<1>1. Trial(src, expected) \in 0..ProbationCount /\ 0 \in 0..ProbationCount
  BY ProbationAssumption DEF Trial, Source
<1>2. CASE Accepted(src, expected)
  <2> DEFINE p == IF OnTrial(src) THEN 0 ELSE src.probation
             l == IF own THEN src.lastrtp ELSE 0
  <2>1. p \in 0..ProbationCount /\ l \in Age
    BY <1>1, NeverType DEF Source
  <2>2. ProcessStats(src, expected, own) =
          [src EXCEPT !.sentdata = TRUE, !.lastmsg = 0, !.probation = p, !.lastrtp = l]
    BY <1>2 DEF ProcessStats, Source
  <2> HIDE DEF p, l
  <2> QED BY <2>1, <2>2, NeverType DEF Source
<1>3. CASE ~ Accepted(src, expected)
  <2> DEFINE p == Trial(src, expected)
  <2>1. ProcessStats(src, expected, own) = [src EXCEPT !.lastmsg = 0, !.probation = p]
    BY <1>3 DEF ProcessStats
  <2>2. p \in 0..ProbationCount
    BY <1>1
  <2> HIDE DEF p
  <2> QED BY <2>1, <2>2, NeverType DEF Source
<1> QED BY <1>2, <1>3

\* An RTP packet makes its source valid and a sender, and never less.
LEMMA SourcePacketKeeps ==
  ASSUME NEW src \in Source, EntrySound(src),
         NEW expected \in BOOLEAN, NEW own \in BOOLEAN
  PROVE  LET new == ProcessSourcePacket(src, expected, own)
         IN  /\ new \in Source /\ Keeps(src, new) /\ EntrySound(new)
             /\ new.rtp = src.rtp /\ new.rtcp = src.rtcp /\ new.bye = src.bye
             /\ src.sender => new.sender
             /\ IsActive(src) => IsActive(new)
<1> DEFINE
      stats == ProcessStats(src, expected, own)
      valid == src.validated \/ Accepted(src, expected)
      sends == src.sender \/ (Accepted(src, expected) /\ ~ own)
      new == [stats EXCEPT !.validated = valid, !.sender = sends]
<1>1. /\ stats \in Source
      /\ stats.rtp = src.rtp /\ stats.rtcp = src.rtcp /\ stats.cname = src.cname
      /\ stats.sender = src.sender /\ stats.bye = src.bye
      /\ stats.validated = src.validated
  BY StatsKeep
<1>2. ProcessSourcePacket(src, expected, own) = new
  <2>1. stats.validated = src.validated /\ stats.sender = src.sender
        /\ stats = [stats EXCEPT !.validated = stats.validated]
    <3> HIDE DEF stats
    <3> QED BY <1>1 DEF Source
  <2> QED BY <2>1, <1>1 DEF ProcessSourcePacket, Source
<1>3. valid \in BOOLEAN /\ sends \in BOOLEAN
      /\ (src.validated => valid) /\ (src.sender => sends)
      /\ (sends => valid)
  <2>1. src.validated \in BOOLEAN /\ src.sender \in BOOLEAN
    BY DEF Source
  <2>2. src.sender => src.validated
    BY DEF EntrySound
  <2> QED BY <2>1, <2>2
<1>4. ASSUME NEW a \in BOOLEAN, NEW b \in BOOLEAN
      PROVE  LET n == [stats EXCEPT !.validated = a, !.sender = b]
             IN  /\ n \in Source /\ n.validated = a /\ n.sender = b
                 /\ n.rtp = stats.rtp /\ n.rtcp = stats.rtcp
                 /\ n.cname = stats.cname /\ n.bye = stats.bye
  <2> HIDE DEF stats
  <2> QED BY <1>1 DEF Source
<1>5. /\ new \in Source /\ new.validated = valid /\ new.sender = sends
      /\ new.rtp = src.rtp /\ new.rtcp = src.rtcp
      /\ new.cname = src.cname /\ new.bye = src.bye
  <2> HIDE DEF stats, valid, sends
  <2> QED BY <1>1, <1>3, <1>4
<1> HIDE DEF new, valid, sends
<1>6. Keeps(src, new) /\ EntrySound(new)
  BY <1>3, <1>5 DEF Keeps, EntrySound
<1>7. IsActive(src) => IsActive(new)
  BY <1>3, <1>5 DEF IsActive
<1> QED BY <1>2, <1>3, <1>5, <1>6, <1>7

\* The counts follow the source's entry.
LEMMA UpdateSenderTable ==
  ASSUME NEW t \in Tables, NEW s \in Known(t), NEW new \in Source
  PROVE  LET u == UpdateSender(t, s, new)
             old == t.list[s]
         IN  /\ u \in Tables
             /\ Known(u) = Known(t)
             /\ \A x \in Known(t) \ {s} : u.list[x] = t.list[x]
             /\ u.list[s] = new
             /\ u.announced = t.announced \cup {s}
             /\ u.total = t.total /\ u.own = t.own
             /\ u.senders = IF ~ old.sender /\ new.sender THEN t.senders + 1
                            ELSE t.senders
             /\ u.active = IF ~ IsActive(old) /\ IsActive(new) THEN t.active + 1
                           ELSE t.active
<1> DEFINE
      old == t.list[s]
      n == IF ~ old.sender /\ new.sender THEN t.senders + 1 ELSE t.senders
      a == IF ~ IsActive(old) /\ IsActive(new) THEN t.active + 1 ELSE t.active
      list == [t.list EXCEPT ![s] = new]
      u == [t EXCEPT !.list = list, !.senders = n, !.active = a,
                     !.announced = @ \cup {s}]
<1>1. /\ list \in Lists
      /\ DOMAIN list = Known(t)
      /\ list[s] = new
      /\ \A x \in Known(t) \ {s} : list[x] = t.list[x]
  BY PutEntry
<1>2. n \in Nat /\ a \in Int
  <2>1. t.senders \in Nat /\ t.active \in Int
    BY DEF Tables
  <2> HIDE DEF old
  <2> QED BY <2>1
<1>3. UpdateSender(t, s, new) = u
  BY DEF UpdateSender, OnNewSource, Tables
<1>4. t.announced \cup {s} \in SUBSET SSRC
  BY TablesList DEF Tables
<1>5. /\ u \in Tables
      /\ u.list = list
      /\ u.announced = t.announced \cup {s}
      /\ u.total = t.total /\ u.own = t.own
      /\ u.senders = n /\ u.active = a
  <2> HIDE DEF list, n, a
  <2> QED BY <1>1, <1>2, <1>4 DEF Tables
<1> HIDE DEF u, list
<1> QED BY <1>1, <1>3, <1>5 DEF Known

\* The packet's own source.
LEMMA SenderGood ==
  ASSUME NEW t, Sound(t), NEW s \in SSRC, NEW from \in Senders0,
         Accepts(t, s, from, "rtp"), NEW expected \in BOOLEAN, NEW own \in BOOLEAN
  PROVE  LET f == EntryFor(t, s, from, "rtp")
         IN  UpdateSender(f, s, ProcessSourcePacket(f.list[s], expected, own))
               \in Good(t)
<1> DEFINE
      old == Entry(t, s)
      e == Addressed(old, from, "rtp")
      f == EntryFor(t, s, from, "rtp")
      new == ProcessSourcePacket(e, expected, own)
      u == UpdateSender(f, s, new)
<1>1. t \in Tables /\ "rtp" \in Kinds
  BY DEF Sound, Kinds
<1>2. /\ f \in Tables /\ e \in Source /\ f.list[s] = e
      /\ Known(f) = Known(t) \cup {s}
      /\ \A x \in Known(t) \ {s} : f.list[x] = t.list[x]
      /\ f.total = IF s \in Known(t) THEN t.total ELSE t.total + 1
      /\ f.own = t.own /\ f.announced = t.announced
      /\ f.senders = t.senders /\ f.active = t.active
  BY <1>1, EntryForTable
<1>3. /\ EntrySound(e) /\ Keeps(old, e)
      /\ e.sender = old.sender /\ e.validated = old.validated
      /\ e.bye = old.bye
      /\ s = t.own => OwnSound(e)
  BY <1>1, EntryForSound
<1> HIDE DEF f, e, old
<1>4. /\ new \in Source /\ Keeps(e, new) /\ EntrySound(new)
      /\ new.rtp = e.rtp /\ new.rtcp = e.rtcp /\ new.bye = e.bye
      /\ e.sender => new.sender
      /\ IsActive(e) => IsActive(new)
  BY <1>2, <1>3, SourcePacketKeeps
<1> HIDE DEF new
<1>5. /\ u \in Tables /\ Known(u) = Known(f) /\ u.list[s] = new
      /\ \A x \in Known(f) \ {s} : u.list[x] = f.list[x]
      /\ u.announced = f.announced \cup {s} /\ u.total = f.total
      /\ u.own = f.own
      /\ u.senders = IF ~ e.sender /\ new.sender THEN f.senders + 1 ELSE f.senders
      /\ u.active = IF ~ IsActive(e) /\ IsActive(new) THEN f.active + 1
                    ELSE f.active
  BY <1>2, <1>4, UpdateSenderTable
<1> HIDE DEF u
<1>6. Keeps(old, new)
  BY <1>3, <1>4 DEF Keeps
<1>7. s = t.own => OwnSound(new)
  BY <1>3, <1>4 DEF OwnSound
<1>8. t.active \in Int /\ f.active = t.active
  BY <1>1, <1>2 DEF Tables
<1>9. IsActive(old) <=> IsActive(e)
  BY <1>3 DEF IsActive
<1>10. u.active <= t.active + (IF IsActive(new) THEN 1 ELSE 0)
                            - (IF IsActive(old) THEN 1 ELSE 0)
  BY <1>4, <1>5, <1>8, <1>9
<1>11. u.senders = IF ~ old.sender /\ new.sender THEN t.senders + 1 ELSE t.senders
  BY <1>2, <1>3, <1>5
<1>12. old.sender => new.sender
  BY <1>3, <1>4
<1>13. /\ Known(u) = Known(t) \cup {s} /\ u.list[s] = new
       /\ \A x \in Known(t) \ {s} : u.list[x] = t.list[x]
       /\ u.own = t.own /\ u.announced = t.announced \cup {s}
       /\ u.total = IF s \in Known(t) THEN t.total ELSE t.total + 1
  BY <1>2, <1>5
<1>14. s \in Known(t) => old = t.list[s]
  BY DEF old, Entry
<1>15. u \in Good(t)
  BY <1>4, <1>5, <1>6, <1>7, <1>10, <1>11, <1>12, <1>13, <1>14, OneEntryChanges
  DEF old
<1>16. u = UpdateSender(f, s, ProcessSourcePacket(f.list[s], expected, own))
  BY <1>2 DEF u, new
<1> QED BY <1>15, <1>16 DEF f

\* The table f with the entry of c validated and these sources announced.
Validated(f, c, active, told) ==
  [f EXCEPT !.list[c].validated = TRUE, !.active = active, !.announced = told]

\* A table in which c is valid, counted as active when it is a new entry.
LEMMA ValidatedGood ==
  ASSUME NEW t, Sound(t), NEW c \in SSRC, NEW f \in Tables,
         Known(f) = Known(t) \cup {c},
         \A x \in Known(t) \ {c} : f.list[x] = t.list[x],
         f.own = t.own,
         f.total = IF c \in Known(t) THEN t.total ELSE t.total + 1,
         f.senders = t.senders, f.active = t.active,
         f.announced = t.announced,
         EntrySound(f.list[c]),
         Keeps(Entry(t, c), f.list[c]),
         f.list[c].sender = Entry(t, c).sender,
         f.list[c].bye = Entry(t, c).bye,
         c = t.own => OwnSound(f.list[c]),
         NEW a \in Int, NEW told \in SUBSET SSRC, told = t.announced \cup {c},
         a <= IF c \in Known(t) THEN t.active ELSE t.active + 1
  PROVE  Validated(f, c, a, told) \in Good(t)
<1> DEFINE
      old == Entry(t, c)
      e == f.list[c]
      new == [e EXCEPT !.validated = TRUE]
      list == [f.list EXCEPT ![c] = new]
      u == [f EXCEPT !.list = list, !.active = a, !.announced = told]
<1>1. e \in Source /\ t \in Tables
  BY TablesList DEF Sound
<1>2. /\ new \in Source /\ new.validated /\ new.rtp = e.rtp /\ new.rtcp = e.rtcp
      /\ new.cname = e.cname /\ new.sender = e.sender /\ new.bye = e.bye
  <2> HIDE DEF e
  <2> QED BY <1>1 DEF Source
<1>3. /\ list \in Lists /\ DOMAIN list = Known(f) /\ list[c] = new
      /\ \A x \in Known(f) \ {c} : list[x] = f.list[x]
  <2> HIDE DEF new
  <2> QED BY <1>2, PutEntry
<1>4. /\ u \in Tables /\ u.list = list /\ u.active = a /\ u.announced = told
      /\ u.total = f.total /\ u.own = f.own /\ u.senders = f.senders
  <2> HIDE DEF list
  <2> QED BY <1>3 DEF Tables
<1>5. u = Validated(f, c, a, told)
  BY DEF Tables, Validated
<1> HIDE DEF u, list, new, e, old
<1>6. Keeps(e, new) /\ Keeps(old, e)
  BY <1>2 DEF Keeps, old, e
<1>7. Keeps(old, new)
  BY <1>6 DEF Keeps
<1>8. EntrySound(new) /\ (c = t.own => OwnSound(new))
  BY <1>2 DEF EntrySound, OwnSound, IsActive, e
<1>9. /\ new.sender = old.sender
      /\ new.bye = old.bye
  BY <1>2 DEF old, e
<1>10. /\ Known(u) = Known(t) \cup {c} /\ u.list[c] = new
       /\ \A x \in Known(t) \ {c} : u.list[x] = t.list[x]
       /\ u.own = t.own /\ u.announced = t.announced \cup {c}
       /\ u.total = IF c \in Known(t) THEN t.total ELSE t.total + 1
       /\ u.senders = IF ~ old.sender /\ new.sender THEN t.senders + 1 ELSE t.senders
  BY <1>3, <1>4, <1>9 DEF Known
<1>11. u.active <= t.active + (IF IsActive(new) THEN 1 ELSE 0)
                            - (IF IsActive(old) THEN 1 ELSE 0)
  <2>1. t.active \in Int
    BY <1>1 DEF Tables
  <2>2. IsActive(old) => IsActive(new)
    BY <1>2, <1>9 DEF IsActive
  <2>3. c \notin Known(t) => ~ IsActive(old) /\ IsActive(new)
    BY <1>2, <1>9 DEF old, Entry, IsActive, NewSource
  <2> QED BY <1>4, <2>1, <2>2, <2>3
<1>12. c \in Known(t) => Keeps(t.list[c], u.list[c])
  BY <1>7, <1>10 DEF old, Entry
<1>13. u \in Good(t)
  BY <1>4, <1>8, <1>9, <1>10, <1>11, <1>12, OneEntryChanges DEF old
<1> QED BY <1>5, <1>13

\* A contributing source.
LEMMA CSRCGood ==
  ASSUME NEW t, Sound(t), NEW c \in SSRC, NEW from \in Senders0
  PROVE  ProcessCSRC(t, c, from) \in Good(t)
<1>1. t \in Tables /\ t.active \in Int /\ t.announced = Known(t)
      /\ t.announced \cup {c} \in SUBSET SSRC
  BY TablesList DEF Sound, Tables
<1>2. CASE c \notin Known(t)
  <2> DEFINE f == Obtain(t, c)
             told == t.announced \cup {c}
             u == Validated(f, c, t.active + 1, told)
  <2>1. /\ f \in Tables /\ Known(f) = Known(t) \cup {c}
        /\ \A x \in Known(t) : f.list[x] = t.list[x]
        /\ f.list[c] = Entry(t, c)
        /\ f.total = t.total + 1 /\ f.own = t.own
        /\ f.announced = t.announced
        /\ f.senders = t.senders /\ f.active = t.active
    BY <1>1, <1>2, ObtainTable
  <2>2. Entry(t, c) = NewSource /\ c # t.own
    BY <1>2, SSRCAssumption DEF Entry, Sound
  <2>3. EntrySound(NewSource) /\ Keeps(NewSource, NewSource)
    BY DEF EntrySound, NewSource, Keeps
  <2>4. /\ t.active + 1 \in Int
        /\ t.active + 1 <= IF c \in Known(t) THEN t.active ELSE t.active + 1
    BY <1>1, <1>2
  <2> HIDE DEF f
  <2>5. u \in Good(t)
    <3> HIDE DEF told
    <3>1. told \in SUBSET SSRC /\ told = t.announced \cup {c}
      BY <1>1 DEF told
    <3> QED BY <1>2, <2>1, <2>2, <2>3, <2>4, <3>1, ValidatedGood
  <2>6. ProcessCSRC(t, c, from) =
          OnNewSource([f EXCEPT !.list[c].validated = TRUE, !.active = @ + 1], c)
    BY <1>2 DEF ProcessCSRC, f
  <2>7. ProcessCSRC(t, c, from) = u
    BY <2>1, <2>6 DEF OnNewSource, Tables, Validated
  <2> QED BY <2>5, <2>7
<1>3. CASE c \in Known(t) /\ ~ Accepts(t, c, from, "rtp")
  BY <1>3, CollisionGood DEF ProcessCSRC
<1>4. CASE c \in Known(t) /\ Accepts(t, c, from, "rtp")
  <2> DEFINE f == EntryFor(t, c, from, "rtp")
             u == Validated(f, c, t.active, t.announced)
  <2>1. /\ f \in Tables /\ Known(f) = Known(t) \cup {c}
        /\ \A x \in Known(t) \ {c} : f.list[x] = t.list[x]
        /\ f.list[c] = Addressed(Entry(t, c), from, "rtp")
        /\ f.total = t.total /\ f.own = t.own
        /\ f.announced = t.announced
        /\ f.senders = t.senders /\ f.active = t.active
    BY <1>1, <1>4, EntryForTable DEF Kinds
  <2>2. /\ EntrySound(f.list[c]) /\ Keeps(Entry(t, c), f.list[c])
        /\ f.list[c].sender = Entry(t, c).sender
        /\ f.list[c].bye = Entry(t, c).bye
        /\ c = t.own => OwnSound(f.list[c])
    BY <1>4, <2>1, EntryForSound DEF Kinds
  <2>3. /\ t.announced = t.announced \cup {c} /\ t.announced \in SUBSET SSRC
        /\ t.active <= IF c \in Known(t) THEN t.active ELSE t.active + 1
    BY <1>1, <1>4
  <2> HIDE DEF f
  <2>4. u \in Good(t)
    BY <1>1, <1>4, <2>1, <2>2, <2>3, ValidatedGood
  <2>5. ProcessCSRC(t, c, from) = [f EXCEPT !.list[c].validated = TRUE]
    BY <1>4 DEF ProcessCSRC, f
  <2>6. ProcessCSRC(t, c, from) = u
    BY <2>1, <2>5 DEF Tables, Validated
  <2> QED BY <2>4, <2>6
<1> QED BY <1>2, <1>3, <1>4

\* The contributing sources of a packet.
LEMMA CSRCsGood ==
  ASSUME NEW t, Sound(t), NEW csrcs \in Seq(SSRC), NEW from \in Senders0
  PROVE  ProcessCSRCs(t, csrcs, from) \in Good(t)
<1> DEFINE
      L == Len(csrcs)
      step == [y \in Good(t) \X (1..L) |-> ProcessCSRC(y[1], csrcs[y[2]], from)]
      Steps(h) == h = [n \in 0..L |-> IF n = 0 THEN t ELSE ProcessCSRC(h[n - 1], csrcs[n], from)]
      after == CHOOSE h : Steps(h)
<1>1. L \in Nat /\ \A n \in 1..L : csrcs[n] \in SSRC
  OBVIOUS
<1>2. ASSUME NEW u \in Good(t), NEW n \in 1..L
      PROVE  ProcessCSRC(u, csrcs[n], from) \in Good(t)
  BY <1>1, GoodSound, GoodTransitive, CSRCGood
<1>3. t \in Good(t)
  BY GoodReflexive
<1>4. \E g : Steps(g)
  <2>1. step \in [Good(t) \X (1..L) -> Good(t)]
    <3> SUFFICES ASSUME NEW y \in Good(t) \X (1..L) PROVE step[y] \in Good(t)
      OBVIOUS
    <3>1. y[1] \in Good(t) /\ y[2] \in 1..L
      OBVIOUS
    <3>2. ProcessCSRC(y[1], csrcs[y[2]], from) \in Good(t)
      <4> HIDE DEF L
      <4> QED BY <1>2, <3>1
    <3> QED BY <3>2
  <2>2. PICK g : Iterates(g, Good(t), t, L, step)
    <3> HIDE DEF L, step
    <3> QED BY <1>1, <1>3, <2>1, IterationExists
  <2>3. ASSUME NEW n \in 1..L
        PROVE  step[<<g[n - 1], n>>] = ProcessCSRC(g[n - 1], csrcs[n], from)
    <3> HIDE DEF L
    <3>1. n - 1 \in 0..L /\ g[n - 1] \in Good(t)
      BY <1>1, <2>2 DEF Iterates
    <3>2. <<g[n - 1], n>> \in Good(t) \X (1..L)
      BY <3>1
    <3> QED BY <3>2
  <2>4. /\ g = [n \in 0..L |-> g[n]] /\ g[0] = t
        /\ \A n \in 1..L : g[n] = step[<<g[n - 1], n>>]
    <3> HIDE DEF L, step
    <3> QED BY <2>2 DEF Iterates
  <2>5. Steps(g)
    <3> HIDE DEF L, step
    <3> QED BY <1>1, <2>3, <2>4
  <2> QED BY <2>5
<1>5. Steps(after)
  <2> HIDE DEF Steps
  <2> QED BY <1>4
<1>6. /\ after[0] = t
      /\ \A n \in 1..L : after[n] = ProcessCSRC(after[n - 1], csrcs[n], from)
  <2> HIDE DEF after, L
  <2> QED BY <1>1, <1>5
<1>7. after[L] \in Good(t)
  <2> HIDE DEF after, L
  <2>1. after[0] \in Good(t)
    BY <1>3, <1>6
  <2>2. \A n \in 1..L : after[n - 1] \in Good(t) => after[n] \in Good(t)
    BY <1>2, <1>6
  <2> QED BY <1>1, <2>1, <2>2, IterationStays
<1>8. ProcessCSRCs(t, csrcs, from) = after[L]
  BY DEF ProcessCSRCs
<1> QED BY <1>7, <1>8

\* An RTP packet.
LEMMA RTPGood ==
  ASSUME NEW t, Sound(t), NEW p \in RTPPackets, NEW from \in Senders0
  PROVE  ProcessRTPPacket(t, p, from) \in Good(t)
<1> DEFINE
      s == p.ssrc
      u == EntryFor(t, s, from, "rtp")
      v == UpdateSender(u, s, ProcessSourcePacket(u.list[s], p.expected, s = t.own))
<1>1. s \in SSRC /\ p.expected \in BOOLEAN /\ p.csrcs \in Seq(SSRC)
      /\ (s = t.own) \in BOOLEAN
  BY PacketsAssumption
<1>2. CASE ~ Accepts(t, s, from, "rtp")
  BY <1>1, <1>2, CollisionGood DEF ProcessRTPPacket
<1>3. CASE Accepts(t, s, from, "rtp")
  <2>1. v \in Good(t)
    <3>1. ASSUME NEW own \in BOOLEAN
          PROVE  UpdateSender(u, s, ProcessSourcePacket(u.list[s], p.expected, own))
                   \in Good(t)
      BY <1>1, <1>3, SenderGood
    <3> HIDE DEF u
    <3> QED BY <1>1, <3>1
  <2>2. Sound(v)
    <3> HIDE DEF v
    <3> QED BY <2>1, GoodSound
  <2>3. ProcessCSRCs(v, p.csrcs, from) \in Good(t)
    <3> HIDE DEF v
    <3> QED BY <1>1, <2>1, <2>2, CSRCsGood, GoodTransitive
  <2>4. ProcessRTPPacket(t, p, from) \in {v, ProcessCSRCs(v, p.csrcs, from)}
    BY <1>3 DEF ProcessRTPPacket
  <2> HIDE DEF v
  <2> QED BY <2>1, <2>3, <2>4
<1> QED BY <1>2, <1>3

-----------------------------------------------------------------------------
(* Timeouts and time.                                                      *)

\* u comes from t in one step: the entries that are in both kept what they had.
Kept(t, u) == \A s \in Known(t) \cap Known(u) : Keeps(t.list[s], u.list[s])

\* What arrives keeps what the entries are known by.
LEMMA GoodKept ==
  ASSUME NEW t, NEW u \in Good(t)
  PROVE  Kept(t, u)
  BY DEF Good, Grows, Kept

\* A list with the entries of t, each sound and keeping what it had.
Follows(t, list) ==
  /\ list \in [Known(t) -> Source]
  /\ \A s \in Known(t) :
       /\ Keeps(t.list[s], list[s]) /\ EntrySound(list[s])
       /\ s = t.own => OwnSound(list[s])

\* The list of the table itself.
LEMMA OwnFollows ==
  ASSUME NEW t, Sound(t)
  PROVE  Follows(t, t.list)
<1>1. t.list \in [Known(t) -> Source]
  BY TablesList DEF Sound
<1>2. ASSUME NEW s \in Known(t), s = t.own PROVE OwnSound(t.list[s])
  <2>1. s # None
    BY TablesList, SSRCAssumption DEF Sound
  <2> QED BY <1>2, <2>1 DEF Sound
<1> QED BY <1>1, <1>2 DEF Follows, Sound, Keeps

\* Deleting others and counting again leaves a sound table.
LEMMA SweepSound ==
  ASSUME NEW t, Sound(t), NEW gone, gone \subseteq Others(t),
         NEW list, Follows(t, list)
  PROVE  Sound(Sweep(t, gone, list)) /\ Kept(t, Sweep(t, gone, list))
<1> DEFINE
      K == Known(t) \ gone
      left == [s \in K |-> list[s]]
      v == [t EXCEPT !.list = left, !.announced = @ \ gone, !.status = "ok"]
      u == Recount(v)
      n == Cardinality(Known(v))
      m == Cardinality(Senders(v))
      a == Cardinality(ActiveMembers(v))
<1>1. t \in Tables /\ IsFiniteSet(Known(t)) /\ Known(t) \in SUBSET SSRC
  BY TablesList DEF Sound
<1>2. left \in [K -> Source] /\ K \in SUBSET SSRC
  BY <1>1 DEF Follows
<1>3. left \in Lists /\ DOMAIN left = K /\ \A s \in K : left[s] = list[s]
  BY <1>2 DEF Lists
<1>4. /\ v \in Tables /\ v.list = left /\ v.own = t.own
      /\ v.announced = t.announced \ gone
  <2> HIDE DEF left, K
  <2>1. t.announced \ gone \in SUBSET SSRC
    BY <1>1 DEF Tables
  <2> QED BY <1>1, <1>3, <2>1 DEF Tables
<1> HIDE DEF v, left
<1>5. Known(v) = K
  BY <1>3, <1>4 DEF Known
<1>6. /\ IsFiniteSet(Known(v))
      /\ IsFiniteSet(Senders(v)) /\ IsFiniteSet(ActiveMembers(v))
  BY <1>1, <1>5, FS_Subset DEF Senders, ActiveMembers
<1>7. n \in Nat /\ m \in Nat /\ a \in Int
  BY <1>6, FS_CardinalityType
<1>8. u = [v EXCEPT !.total = n, !.senders = m, !.active = a]
  BY DEF Recount
<1>9. /\ u \in Tables /\ u.list = v.list /\ u.own = v.own
      /\ u.announced = v.announced
      /\ u.total = n /\ u.senders = m /\ u.active = a
  <2> HIDE DEF n, m, a, u
  <2> QED BY <1>4, <1>7, <1>8 DEF Tables
<1> HIDE DEF u
<1>10. /\ Known(u) = K /\ Known(u) = Known(v)
       /\ Senders(u) = Senders(v) /\ ActiveMembers(u) = ActiveMembers(v)
  BY <1>5, <1>9 DEF Known, Senders, ActiveMembers
<1>11. /\ u.total = Cardinality(Known(u))
       /\ u.senders = Cardinality(Senders(u))
       /\ u.active <= Cardinality(ActiveMembers(u))
  BY <1>7, <1>9, <1>10
<1>12. u.announced = Known(u)
  BY <1>4, <1>9, <1>10 DEF Sound
<1>13. \A s \in Known(u) : s \in Known(t) /\ u.list[s] = list[s]
  BY <1>3, <1>4, <1>9, <1>10
<1>14. u.own # None => u.own \in Known(u) /\ OwnSound(u.list[u.own])
  <2>1. t.own # None => t.own \in Known(t) \ gone
    BY DEF Sound, Others
  <2> QED BY <1>4, <1>9, <1>10, <1>13, <2>1 DEF Follows
<1>15. \A s \in Known(u) : EntrySound(u.list[s])
  BY <1>13 DEF Follows
<1>16. Sound(u)
  BY <1>6, <1>9, <1>10, <1>11, <1>12, <1>14, <1>15 DEF Sound
<1>17. Kept(t, u)
  BY <1>13 DEF Kept, Follows
<1>18. u = Sweep(t, gone, list)
  BY DEF u, v, left, Sweep
<1> QED BY <1>16, <1>17, <1>18

\* A list that differs in less than what entries are known by.
LEMMA FollowsAgain ==
  ASSUME NEW t, NEW list, Follows(t, list), NEW new \in [Known(t) -> Source],
         \A s \in Known(t) :
           /\ new[s].rtp = list[s].rtp /\ new[s].rtcp = list[s].rtcp
           /\ new[s].cname = list[s].cname
           /\ new[s].validated = list[s].validated /\ new[s].bye = list[s].bye
           /\ new[s].sender => list[s].sender
  PROVE  Follows(t, new)
<1> SUFFICES ASSUME NEW s \in Known(t)
             PROVE  /\ Keeps(t.list[s], new[s]) /\ EntrySound(new[s])
                    /\ s = t.own => OwnSound(new[s])
  BY DEF Follows
<1>1. /\ Keeps(t.list[s], list[s]) /\ EntrySound(list[s])
      /\ s = t.own => OwnSound(list[s])
  BY DEF Follows
<1> QED BY <1>1 DEF Keeps, EntrySound, OwnSound, IsActive

\* Sources that were silent are senders no more.
LEMMA ClearSendersFollows ==
  ASSUME NEW t, NEW list, Follows(t, list)
  PROVE  Follows(t, ClearSenders(list))
<1> DEFINE new == ClearSenders(list)
           quiet(s) == list[s].sender /\ list[s].lastrtp <= Delay["sender"]
<1>1. list \in [Known(t) -> Source]
  BY DEF Follows
<1>2. new = [s \in Known(t) |-> [list[s] EXCEPT !.sender = quiet(s)]]
  BY <1>1 DEF ClearSenders, Source
<1>3. ASSUME NEW src \in Source, NEW b \in BOOLEAN
      PROVE  LET n == [src EXCEPT !.sender = b]
             IN  /\ n \in Source /\ n.sender = b
                 /\ n.rtp = src.rtp /\ n.rtcp = src.rtcp /\ n.cname = src.cname
                 /\ n.validated = src.validated /\ n.bye = src.bye
  BY DEF Source
<1>4. ASSUME NEW s \in Known(t)
      PROVE  /\ new[s] \in Source
             /\ new[s].rtp = list[s].rtp /\ new[s].rtcp = list[s].rtcp
             /\ new[s].cname = list[s].cname
             /\ new[s].validated = list[s].validated
             /\ new[s].bye = list[s].bye
             /\ new[s].sender => list[s].sender
  <2>1. list[s] \in Source /\ list[s].sender \in BOOLEAN
    BY <1>1 DEF Source
  <2>2. quiet(s) \in BOOLEAN /\ (quiet(s) => list[s].sender)
    BY <2>1
  <2>3. new[s] = [list[s] EXCEPT !.sender = quiet(s)]
    <3> HIDE DEF new, quiet
    <3> QED BY <1>2
  <2> HIDE DEF new, quiet
  <2> QED BY <1>3, <2>1, <2>2, <2>3
<1> HIDE DEF new
<1>5. new \in [Known(t) -> Source]
  BY <1>2, <1>4
<1>6. Follows(t, new)
  BY <1>4, <1>5, FollowsAgain
<1> QED BY <1>6 DEF new

\* Notes grow old.
LEMMA ClearNotesFollows ==
  ASSUME NEW t, NEW list, Follows(t, list)
  PROVE  Follows(t, ClearNotes(list))
<1> DEFINE new == ClearNotes(list)
           fresh(s) == list[s].note /\ list[s].notetime <= Delay["note"]
<1>1. list \in [Known(t) -> Source]
  BY DEF Follows
<1>2. new = [s \in Known(t) |-> [list[s] EXCEPT !.note = fresh(s)]]
  BY <1>1 DEF ClearNotes, Source
<1>3. ASSUME NEW src \in Source, NEW b \in BOOLEAN
      PROVE  LET n == [src EXCEPT !.note = b]
             IN  /\ n \in Source /\ n.sender = src.sender
                 /\ n.rtp = src.rtp /\ n.rtcp = src.rtcp /\ n.cname = src.cname
                 /\ n.validated = src.validated /\ n.bye = src.bye
  BY DEF Source
<1>4. ASSUME NEW s \in Known(t)
      PROVE  /\ new[s] \in Source
             /\ new[s].rtp = list[s].rtp /\ new[s].rtcp = list[s].rtcp
             /\ new[s].cname = list[s].cname
             /\ new[s].validated = list[s].validated
             /\ new[s].bye = list[s].bye
             /\ new[s].sender => list[s].sender
  <2>1. list[s] \in Source /\ list[s].note \in BOOLEAN
    BY <1>1 DEF Source
  <2>2. fresh(s) \in BOOLEAN
    BY <2>1
  <2>3. new[s] = [list[s] EXCEPT !.note = fresh(s)]
    <3> HIDE DEF new, fresh
    <3> QED BY <1>2
  <2> HIDE DEF new, fresh
  <2> QED BY <1>3, <2>1, <2>2, <2>3
<1> HIDE DEF new
<1>5. new \in [Known(t) -> Source]
  BY <1>2, <1>4
<1>6. Follows(t, new)
  BY <1>4, <1>5, FollowsAgain
<1> QED BY <1>6 DEF new

\* Each timeout leaves a sound table.
LEMMA TimeoutsSound ==
  ASSUME NEW t, Sound(t),
         NEW u \in {Timeout(t), SenderTimeout(t), BYETimeout(t), NoteTimeout(t),
                    MultipleTimeouts(t)}
  PROVE  Sound(u) /\ Kept(t, u)
<1>1. /\ TimedOut(t) \subseteq Others(t) /\ Gone(t) \subseteq Others(t)
      /\ {} \subseteq Others(t) /\ Gone(t) \cup TimedOut(t) \subseteq Others(t)
  BY DEF TimedOut, Gone
<1>2. /\ Follows(t, t.list) /\ Follows(t, ClearSenders(t.list))
      /\ Follows(t, ClearNotes(t.list))
      /\ Follows(t, ClearSenders(ClearNotes(t.list)))
  BY OwnFollows, ClearSendersFollows, ClearNotesFollows
<1>3. CASE u = Timeout(t)
  BY <1>1, <1>2, <1>3, SweepSound DEF Timeout
<1>4. CASE u = SenderTimeout(t)
  BY <1>1, <1>2, <1>4, SweepSound DEF SenderTimeout
<1>5. CASE u = BYETimeout(t)
  BY <1>1, <1>2, <1>5, SweepSound DEF BYETimeout
<1>6. CASE u = NoteTimeout(t)
  BY <1>1, <1>2, <1>6, SweepSound DEF NoteTimeout
<1>7. CASE u = MultipleTimeouts(t)
  BY <1>1, <1>2, <1>7, SweepSound DEF MultipleTimeouts
<1> QED BY <1>3, <1>4, <1>5, <1>6, <1>7

-----------------------------------------------------------------------------
(* The other public functions.                                             *)

\* The call begins.
LEMMA BegunGood ==
  ASSUME Sound(table)
  PROVE  Begun \in Good(table)
<1>1. /\ Begun \in Tables
      /\ Begun.list = table.list /\ Begun.own = table.own
      /\ Begun.total = table.total /\ Begun.senders = table.senders
      /\ Begun.active = table.active /\ Begun.announced = table.announced
  BY DEF Begun, Sound, Tables
<1> QED BY <1>1, SameGood

\* Whatever arrives, and from wherever, leaves a good table.
LEMMA ReceiveGood ==
  ASSUME Sound(table),
         \/ \E p \in RTPPackets, from \in RTPFrom : ReceiveRTP(p, from)
         \/ \E ps \in Compounds, from \in RTCPFrom : ReceiveRTCP(ps, from)
  PROVE  table' \in Good(table)
<1>1. ASSUME NEW from \in RTPFrom \cup RTCPFrom PROVE Sender(from) \in Senders0
  BY PacketsAssumption DEF Sender, Senders0
<1>2. Begun \in Good(table) /\ Sound(Begun)
  BY BegunGood, GoodSound
<1>3. ASSUME NEW p \in RTPPackets, NEW from \in RTPFrom, ReceiveRTP(p, from)
      PROVE  table' \in Good(table)
  <2>1. ProcessRTPPacket(Begun, p, Sender(from)) \in Good(Begun)
    BY <1>1, <1>2, RTPGood
  <2> QED BY <1>2, <1>3, <2>1, GoodTransitive DEF ReceiveRTP, ProcessRawPacket
<1>4. ASSUME NEW ps \in Compounds, NEW from \in RTCPFrom, ReceiveRTCP(ps, from)
      PROVE  table' \in Good(table)
  <2>1. ps \in Seq(RTCPPackets)
    BY PacketsAssumption
  <2>2. ProcessRTCPCompoundPacket(Begun, ps, Sender(from)) \in Good(Begun)
    BY <1>1, <1>2, <2>1, CompoundGood
  <2> QED BY <1>2, <1>4, <2>2, GoodTransitive DEF ReceiveRTCP, ProcessRawPacket
<1> QED BY <1>3, <1>4

\* A new session's own entry is valid, active and told of.
LEMMA CreateOwnSound ==
  ASSUME Sound(table), NEW s \in SSRC, CreateOwnSSRC(s)
  PROVE  Sound(table') /\ Kept(table, table')
<1> DEFINE
      new == [NewSource EXCEPT !.validated = TRUE, !.rtp = Self, !.rtcp = Self]
      o == Obtain(table, s)
      list == [o.list EXCEPT ![s] = new]
      told == table.announced \cup {s}
      \* The entry first, whose it is then.
      v == [o EXCEPT !.list = list, !.active = table.active + 1,
                     !.status = "ok", !.announced = told]
      u == [v EXCEPT !.own = s]
<1>1. table.own = None /\ s \notin Known(table) /\ s # None
  BY SSRCAssumption DEF CreateOwnSSRC
<1>2. /\ table \in Tables /\ table.active \in Int
      /\ table.active + 1 \in Int /\ told \in SUBSET SSRC
      /\ table.announced = Known(table)
  BY DEF Sound, Tables
<1>3. /\ o \in Tables
      /\ Known(o) = Known(table) \cup {s}
      /\ \A x \in Known(table) : o.list[x] = table.list[x]
      /\ o.list[s] = NewSource
      /\ o.total = table.total + 1 /\ o.own = None
      /\ o.announced = table.announced
      /\ o.senders = table.senders /\ o.active = table.active
  BY <1>1, <1>2, ObtainTable DEF Entry
<1>4. /\ new \in Source /\ new.validated /\ new.rtp = Self /\ new.rtcp = Self
      /\ ~ new.sender /\ ~ new.bye
  BY NewSourceType DEF NewSource, Source, AddressState
<1>5. /\ list \in Lists /\ DOMAIN list = Known(o) /\ list[s] = new
      /\ \A x \in Known(o) \ {s} : list[x] = o.list[x]
  <2> HIDE DEF o, new
  <2> QED BY <1>3, <1>4, PutEntry
<1>6. table' = u
  <2> HIDE DEF o
  <2>1. table' = OnNewSource(
                   [o EXCEPT !.own = s, !.active = @ + 1,
                      !.list[s].validated = TRUE, !.list[s].rtp = Self,
                      !.list[s].rtcp = Self, !.status = "ok"], s)
    BY DEF CreateOwnSSRC, o
  <2>2. o.list \in [Known(o) -> Source] /\ s \in Known(o)
    BY <1>3, TablesList
  <2>3. [o.list EXCEPT ![s].validated = TRUE, ![s].rtp = Self, ![s].rtcp = Self]
          = list
    BY <1>3, <2>2
  <2> QED BY <1>3, <2>1, <2>2, <2>3 DEF OnNewSource, Tables
<1>7. /\ v \in Tables /\ v.list = list /\ v.own = None /\ v.total = o.total
      /\ v.senders = o.senders /\ v.active = table.active + 1
      /\ v.announced = told
  <2> HIDE DEF o, list, told
  <2> QED BY <1>2, <1>3, <1>5 DEF Tables
<1>8. /\ u \in Tables /\ u.list = list /\ u.own = s /\ u.total = v.total
      /\ u.senders = v.senders /\ u.active = v.active
      /\ u.announced = v.announced
  <2> HIDE DEF v
  <2> QED BY <1>7 DEF Tables
<1> HIDE DEF u, v, list, new, o
<1>9. v \in Good(table)
  <2>1. EntrySound(new)
    BY <1>4 DEF EntrySound, SameHost
  <2>2. Known(v) = Known(table) \cup {s} /\ v.list[s] = new
        /\ \A x \in Known(table) : v.list[x] = table.list[x]
    BY <1>1, <1>3, <1>5, <1>7 DEF Known
  <2>3. Entry(table, s) = NewSource
    BY <1>1 DEF Entry
  <2>4. v.senders = IF ~ Entry(table, s).sender /\ v.list[s].sender
                    THEN table.senders + 1 ELSE table.senders
    BY <1>3, <1>4, <1>7, <2>2
  <2>5. v.active <= table.active + (IF IsActive(v.list[s]) THEN 1 ELSE 0)
                                 - (IF IsActive(Entry(table, s)) THEN 1 ELSE 0)
    BY <1>2, <1>4, <1>7, <2>2, <2>3, NewSourceType DEF IsActive
  <2>6. Entry(table, s).sender => v.list[s].sender
    BY <2>3, NewSourceType
  <2> QED BY <1>1, <1>3, <1>7, <2>1, <2>2, <2>4, <2>5, <2>6, OneEntryChanges
<1>10. Sound(v) /\ Kept(table, v)
  BY <1>9, GoodSound, GoodKept
<1>11. /\ Known(u) = Known(v) /\ Senders(u) = Senders(v)
       /\ ActiveMembers(u) = ActiveMembers(v)
  BY <1>7, <1>8 DEF Known, Senders, ActiveMembers
<1>12. s \in Known(u) /\ OwnSound(u.list[s])
  BY <1>3, <1>4, <1>5, <1>8 DEF Known, OwnSound, IsActive
<1>13. Sound(u)
  BY <1>7, <1>8, <1>10, <1>11, <1>12 DEF Sound
<1>14. Kept(table, u)
  BY <1>7, <1>8, <1>10, <1>11 DEF Kept
<1> QED BY <1>6, <1>13, <1>14

\* The own entry leaves, and the counts follow.
LEMMA DeleteOwnSound ==
  ASSUME Sound(table), DeleteOwnSSRC
  PROVE  Sound(table') /\ Kept(table, table')
<1> DEFINE
      s == table.own
      K == Known(table) \ {s}
      list == [x \in K |-> table.list[x]]
      m == IF table.list[s].sender THEN table.senders - 1 ELSE table.senders
      told == table.announced \ {s}
      u == [table EXCEPT !.own = None, !.list = list, !.announced = told,
              !.status = "ok", !.total = @ - 1, !.senders = m, !.active = @ - 1]
<1>1. /\ table \in Tables /\ IsFiniteSet(Known(table))
      /\ s \in Known(table) /\ OwnSound(table.list[s])
  BY DEF Sound, DeleteOwnSSRC
<1>2. Known(table) \in SUBSET SSRC /\ table.list \in [Known(table) -> Source]
      /\ table.active \in Int /\ table.senders \in Nat
  BY <1>1, TablesList DEF Tables
<1>3. table' = u
  BY <1>1 DEF DeleteOwnSSRC, OwnSound, Tables
<1>4. list \in Lists /\ DOMAIN list = K /\ \A x \in K : list[x] = table.list[x]
  <2>1. list \in [K -> Source] /\ K \in SUBSET SSRC
    BY <1>2
  <2> QED BY <2>1 DEF Lists
<1>5. /\ IsFiniteSet(K) /\ Cardinality(K) = Cardinality(Known(table)) - 1
      /\ Cardinality(K) \in Nat
  BY <1>1, FS_RemoveElement, FS_CardinalityType
<1>6. /\ IsFiniteSet(Senders(table)) /\ IsFiniteSet(ActiveMembers(table))
      /\ Cardinality(ActiveMembers(table)) \in Nat
  BY <1>1, FS_Subset, FS_CardinalityType DEF Senders, ActiveMembers
<1>7. Cardinality(Senders(table) \ {s}) = m /\ m \in Nat
  <2>1. Cardinality(Senders(table) \ {s}) =
          IF s \in Senders(table) THEN Cardinality(Senders(table)) - 1
          ELSE Cardinality(Senders(table))
    BY <1>6, FS_RemoveElement
  <2>2. s \in Senders(table) <=> table.list[s].sender
    BY <1>1 DEF Senders
  <2>3. Cardinality(Senders(table) \ {s}) \in Nat
    BY <1>6, FS_RemoveElement, FS_CardinalityType
  <2> QED BY <2>1, <2>2, <2>3 DEF Sound
<1>8. Cardinality(ActiveMembers(table) \ {s})
        = Cardinality(ActiveMembers(table)) - 1
  <2>1. s \in ActiveMembers(table)
    BY <1>1 DEF ActiveMembers, OwnSound
  <2> QED BY <1>6, <2>1, FS_RemoveElement
<1>9. told \in SUBSET SSRC /\ told = K
  BY <1>2 DEF Sound
<1>10. table.total - 1 \in Nat /\ table.active - 1 \in Int
  BY <1>2, <1>5 DEF Sound
<1>11. /\ u \in Tables /\ u.list = list /\ u.own = None
       /\ u.total = table.total - 1 /\ u.senders = m
       /\ u.active = table.active - 1 /\ u.announced = told
  <2> HIDE DEF list, m, told
  <2> QED BY <1>1, <1>4, <1>7, <1>9, <1>10 DEF Tables
<1> HIDE DEF u, list, m, told
<1>12. /\ Known(u) = K
       /\ Senders(u) = Senders(table) \ {s}
       /\ ActiveMembers(u) = ActiveMembers(table) \ {s}
  BY <1>4, <1>11 DEF Known, Senders, ActiveMembers
<1>13. /\ u.total = Cardinality(Known(u))
       /\ u.senders = Cardinality(Senders(u))
       /\ u.active <= Cardinality(ActiveMembers(u))
  BY <1>2, <1>5, <1>6, <1>7, <1>8, <1>11, <1>12 DEF Sound
<1>14. \A x \in Known(u) : x \in Known(table) /\ u.list[x] = table.list[x]
  BY <1>4, <1>11, <1>12
<1>15. Sound(u)
  BY <1>5, <1>9, <1>11, <1>12, <1>13, <1>14 DEF Sound
<1>16. Kept(table, u)
  BY <1>14 DEF Kept, Keeps
<1> QED BY <1>3, <1>15, <1>16

\* The session is a sender, which its own entry, being active, may be.
LEMMA SentGood ==
  ASSUME Sound(table), SentRTPPacket
  PROVE  table' \in Good(table)
<1> DEFINE
      s == table.own
      old == table.list[s]
      new == [old EXCEPT !.sender = TRUE, !.lastrtp = 0, !.lastmsg = 0]
      list == [table.list EXCEPT ![s] = new]
      m == IF old.sender THEN table.senders ELSE table.senders + 1
      u == [table EXCEPT !.status = "ok", !.list = list, !.senders = m]
<1>1. /\ table \in Tables
      /\ s \in Known(table) /\ OwnSound(old) /\ EntrySound(old)
  BY DEF Sound, SentRTPPacket
<1>2. /\ s \in SSRC /\ table.list \in [Known(table) -> Source]
      /\ old \in Source /\ table.senders \in Nat /\ table.active \in Int
  BY <1>1, TablesList DEF Tables
<1>3. /\ new \in Source /\ new.sender /\ new.rtp = old.rtp /\ new.rtcp = old.rtcp
      /\ new.cname = old.cname /\ new.validated = old.validated
      /\ new.bye = old.bye
  <2> HIDE DEF old
  <2> QED BY <1>2, NeverType DEF Source
<1>4. /\ list \in Lists /\ DOMAIN list = Known(table) /\ list[s] = new
      /\ \A x \in Known(table) \ {s} : list[x] = table.list[x]
  <2> HIDE DEF new
  <2> QED BY <1>1, <1>3, PutEntry
<1>5. table' = u
  BY <1>1, <1>2 DEF SentRTPPacket, Tables
<1>6. m \in Nat
  BY <1>2
<1>7. /\ u \in Tables /\ u.list = list /\ u.own = s /\ u.total = table.total
      /\ u.senders = m /\ u.active = table.active
      /\ u.announced = table.announced
  <2> HIDE DEF list, m
  <2> QED BY <1>1, <1>4, <1>6 DEF Tables
<1> HIDE DEF u, list, new, old
<1>8. /\ Known(u) = Known(table) \cup {s}
      /\ \A x \in Known(table) \ {s} : u.list[x] = table.list[x]
      /\ u.list[s] = new
      /\ u.announced = table.announced \cup {s}
  BY <1>1, <1>4, <1>7 DEF Known, Sound
<1>9. /\ Keeps(old, new) /\ EntrySound(new) /\ OwnSound(new)
  BY <1>1, <1>3 DEF Keeps, EntrySound, OwnSound, IsActive
<1>10. Entry(table, s) = old
  BY <1>1 DEF Entry, old
<1>11. u.active <= table.active + (IF IsActive(new) THEN 1 ELSE 0)
                                - (IF IsActive(old) THEN 1 ELSE 0)
  BY <1>1, <1>2, <1>7, <1>9 DEF OwnSound
<1>12. u.senders = IF ~ old.sender /\ new.sender THEN table.senders + 1
                   ELSE table.senders
  BY <1>3, <1>7
<1>13. u \in Good(table)
  BY <1>1, <1>2, <1>3, <1>7, <1>8, <1>9, <1>10, <1>11, <1>12, OneEntryChanges
  DEF old
<1> QED BY <1>5, <1>13

\* A cleared table.
LEMMA EmptySound ==
  ASSUME NEW t
  PROVE  Sound(EmptyTable) /\ Kept(t, EmptyTable)
<1> DEFINE none == [s \in {} |-> NewSource]
<1>1. none \in Lists /\ DOMAIN none = {}
  <2>1. none \in [{} -> Source] /\ {} \in SUBSET SSRC
    OBVIOUS
  <2> QED BY <2>1 DEF Lists
<1>2. /\ EmptyTable \in Tables /\ EmptyTable.list = none
      /\ EmptyTable.own = None /\ EmptyTable.total = 0
      /\ EmptyTable.senders = 0 /\ EmptyTable.active = 0
      /\ EmptyTable.announced = {}
  <2> HIDE DEF none
  <2>1. EmptyTable =
          [list |-> none, own |-> None, total |-> 0, senders |-> 0, active |-> 0,
           announced |-> {}, owncollision |-> FALSE, status |-> "ok"]
    BY DEF EmptyTable, none
  <2> QED BY <1>1, <2>1 DEF Tables
<1> HIDE DEF none
<1>3. /\ Known(EmptyTable) = {} /\ Senders(EmptyTable) = {}
      /\ ActiveMembers(EmptyTable) = {}
  BY <1>1, <1>2 DEF Known, Senders, ActiveMembers
<1>4. IsFiniteSet({}) /\ Cardinality({}) = 0
  BY FS_EmptySet
<1> QED BY <1>2, <1>3, <1>4 DEF Sound, Kept

\* Time changes only ages.
LEMMA TickSound ==
  ASSUME Sound(table), Tick
  PROVE  Sound(table') /\ Kept(table, table')
<1> DEFINE
      list == [s \in Known(table) |-> Aged(table.list[s])]
      u == [table EXCEPT !.list = list]
<1>1. table \in Tables /\ table.list \in [Known(table) -> Source]
      /\ Known(table) \in SUBSET SSRC
  BY TablesList DEF Sound
<1>2. \A age \in Age : Older(age) \in Age
  BY NeverType DEF Older, Age
<1>3. ASSUME NEW src \in Source
      PROVE  LET new == Aged(src)
             IN  /\ new \in Source /\ new.sender = src.sender
                 /\ new.rtp = src.rtp /\ new.rtcp = src.rtcp
                 /\ new.cname = src.cname
                 /\ new.validated = src.validated /\ new.bye = src.bye
  BY <1>2 DEF Aged, Source
<1>4. /\ list \in Lists /\ DOMAIN list = Known(table)
      /\ \A s \in Known(table) : list[s] = Aged(table.list[s])
  <2>1. list \in [Known(table) -> Source]
    BY <1>1, <1>3
  <2> QED BY <1>1, <2>1 DEF Lists
<1>5. table' = u
  BY DEF Tick, Known
<1>6. /\ u \in Tables /\ u.list = list /\ u.own = table.own
      /\ u.total = table.total /\ u.senders = table.senders
      /\ u.active = table.active /\ u.announced = table.announced
  <2> HIDE DEF list
  <2> QED BY <1>1, <1>4 DEF Tables
<1> HIDE DEF u, list
<1>7. ASSUME NEW s \in Known(table)
      PROVE  LET old == table.list[s]
                 new == u.list[s]
             IN  /\ new.sender = old.sender
                 /\ new.rtp = old.rtp /\ new.rtcp = old.rtcp
                 /\ new.cname = old.cname
                 /\ new.validated = old.validated /\ new.bye = old.bye
  BY <1>1, <1>3, <1>4, <1>6
<1>8. /\ Known(u) = Known(table) /\ Senders(u) = Senders(table)
      /\ ActiveMembers(u) = ActiveMembers(table)
  BY <1>4, <1>6, <1>7 DEF Known, Senders, ActiveMembers, IsActive
<1>9. \A s \in Known(u) : EntrySound(u.list[s])
  BY <1>7, <1>8 DEF Sound, EntrySound
<1>10. u.own # None => u.own \in Known(u) /\ OwnSound(u.list[u.own])
  BY <1>6, <1>7, <1>8 DEF Sound, OwnSound, IsActive
<1>11. Sound(u)
  BY <1>6, <1>8, <1>9, <1>10 DEF Sound
<1>12. Kept(table, u)
  BY <1>7, <1>8 DEF Kept, Keeps
<1> QED BY <1>5, <1>11, <1>12

-----------------------------------------------------------------------------
(* The theorems.                                                           *)

\* What every call keeps: a sound table is TableInvariant and AppKnowsTable, both
\* needed at once, since a call announces what it adds, and adds what is counted.
IInv == Sound(table) /\ packets \in 0..MaxPackets

\* The invariant holds at first.
LEMMA InitIInv == Init => IInv
  BY EmptySound, MaxPacketsAssumption DEF Init, IInv

\* A step keeps the invariant and what the entries are known by.
LEMMA StepIInv ==
  ASSUME IInv, [Next]_vars
  PROVE  IInv' /\ Kept(table, table')
<1>1. Sound(table) /\ packets \in 0..MaxPackets
  BY DEF IInv
<1> USE <1>1
<1>2. ASSUME NEW s \in SSRC, CreateOwnSSRC(s)
      PROVE  IInv' /\ Kept(table, table')
  BY <1>2, CreateOwnSound DEF IInv, CreateOwnSSRC
<1>3. CASE DeleteOwnSSRC
  BY <1>3, DeleteOwnSound DEF IInv, DeleteOwnSSRC
<1>4. CASE SentRTPPacket
  BY <1>4, SentGood, GoodSound, GoodKept DEF IInv, SentRTPPacket
<1>5. CASE \/ \E p \in RTPPackets, from \in RTPFrom : ReceiveRTP(p, from)
           \/ \E ps \in Compounds, from \in RTCPFrom : ReceiveRTCP(ps, from)
  <2>1. Sound(table') /\ Kept(table, table')
    BY <1>5, ReceiveGood, GoodSound, GoodKept
  <2>2. packets' \in 0..MaxPackets
    BY <1>5, MaxPacketsAssumption DEF ReceiveRTP, ReceiveRTCP, ProcessRawPacket
  <2> QED BY <2>1, <2>2 DEF IInv
<1>6. CASE \/ RunTimeouts(Timeout(table)) \/ RunTimeouts(SenderTimeout(table))
           \/ RunTimeouts(BYETimeout(table)) \/ RunTimeouts(NoteTimeout(table))
           \/ TimeoutStep
  BY <1>6, TimeoutsSound DEF IInv, RunTimeouts, TimeoutStep
<1>7. CASE Clear
  BY <1>7, EmptySound DEF IInv, Clear
<1>8. CASE Tick
  BY <1>8, TickSound DEF IInv, Tick
<1>9. CASE UNCHANGED vars
  BY <1>9 DEF IInv, vars, Kept, Keeps
<1> QED BY <1>2, <1>3, <1>4, <1>5, <1>6, <1>7, <1>8, <1>9 DEF Next

\* The inductive invariant of the table.
THEOREM Invariance == Spec => []IInv
<1>1. Init => IInv
  BY InitIInv
<1>2. IInv /\ [Next]_vars => IInv'
  BY StepIInv
<1> QED BY <1>1, <1>2, PTL DEF Spec

\* After every call the table is well typed, its counts are those of its entries
\* (active members at most), the own entry is there and active, and the addresses
\* of an entry agree.
THEOREM TableIsSound == Spec => []TableInvariant
<1>1. IInv => TableInvariant
  <2> SUFFICES ASSUME IInv PROVE TableInvariant
    OBVIOUS
  <2>1. Sound(table) /\ table \in Tables /\ packets \in 0..MaxPackets
    BY DEF IInv, Sound
  <2>2. TypeOK
    BY <2>1, TablesList DEF TypeOK, Tables
  <2>3. CountsAgree /\ OwnEntryStays
    BY <2>1 DEF CountsAgree, OwnEntryStays, Sound, OwnSound
  <2>4. EntriesAgree
    BY <2>1 DEF EntriesAgree, Sound, EntrySound
  <2> QED BY <2>2, <2>3, <2>4 DEF TableInvariant
<1> QED BY <1>1, Invariance, PTL

\* After every call the application has been told of the sources in the table and
\* of no others.
THEOREM AppKnows == Spec => []AppKnowsTable
<1>1. IInv => AppKnowsTable
  BY DEF IInv, Sound, AppKnowsTable
<1> QED BY <1>1, Invariance, PTL

\* No call takes an entry's address, CNAME, validation or BYE away while the entry
\* stays.
THEOREM EntriesKeep == Spec => EntriesKeepIdentity
<1>1. IInv /\ [Next]_vars =>
        [\A s \in Known(table) \cap Known(table') :
           LET old == table.list[s]  new == table.list[s]'
           IN  /\ old.rtp # Unset => new.rtp = old.rtp
               /\ old.rtcp # Unset => new.rtcp = old.rtcp
               /\ old.cname # None => new.cname = old.cname
               /\ old.validated => new.validated
               /\ old.bye => new.bye]_vars
  BY StepIInv DEF Kept, Keeps
<1> QED BY <1>1, Invariance, PTL DEF Spec, EntriesKeepIdentity

=============================================================================
