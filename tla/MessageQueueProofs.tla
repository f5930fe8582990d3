-------------------------- MODULE MessageQueueProofs --------------------------
(***************************************************************************)
(* Proofs about the outgoing queue, for any number of messages,            *)
(* destinations, contacts and attempts, with kills and callbacks that      *)
(* throw: TypeOK, TasksFollowCache, NoMessageForgotten, that it implements *)
(* ReliableOutbox, and FollowedUpBeforeForgotten.                          *)
(*                                                                         *)
(* QueueInv says why they hold.  The cache is the item of the database,    *)
(* and one network result is handled at a time (Basics).  A message enters *)
(* the cache once, and its sync copy only while the task of the message    *)
(* waits for it (Accepted), so the message of a task that was removed is   *)
(* not pending again when its chain is shortened.  And the chain of a      *)
(* destination, as well as each list that processPending has read, is a    *)
(* prefix of what waits for the destination (Order): the messages of the   *)
(* list that have no job are those that follow the chain.                  *)
(*                                                                         *)
(* FollowInv says what was done for a message at each point of its task.   *)
(***************************************************************************)
EXTENDS MessageQueue, FiltersProofs, FiniteSetTheorems

-----------------------------------------------------------------------------
(* What waits for a device *)

At(d) == {e \in Entry : e.device = d}
Names(u) == [i \in DOMAIN u |-> u[i].id]

LEMMA EntryIs ==
  ASSUME NEW e \in Entry
  PROVE  e.id \in Messages /\ e.device \in Devices /\ e = [id |-> e.id, device |-> e.device]
BY DEF Entry

LEMMA ForDeviceIs ==
  ASSUME NEW s \in Seq(Entry), NEW d
  PROVE  /\ Only(s, At(d)) \in Seq(Entry)
         /\ \A e : e \in Range(Only(s, At(d))) <=> e \in Range(s) /\ e.device = d
         /\ ForDevice(s, d) = Names(Only(s, At(d)))
<1> DEFINE R == {s[i] : i \in {j \in DOMAIN s : s[j].device = d}}
<1>1. ForDevice(s, d) = Names(Only(s, R))
  BY DEF ForDevice, Filter, Names
<1>2. \A e : e \in Range(s) => e \in Entry /\ (e \in R <=> e.device = d)
  BY DEF Range
<1> HIDE DEF R
<1>3. Range(s) \intersect R = Range(s) \intersect At(d)
  BY <1>2 DEF At
<1>4. Only(s, R) = Only(s, At(d))
  BY <1>3, OnlySame
<1>5. Only(s, At(d)) \in Seq(Entry)
  BY OnlyType
<1>6. Range(Only(s, At(d))) = Range(s) \intersect At(d)
  BY OnlyRange
<1> QED BY <1>1, <1>2, <1>4, <1>5, <1>6 DEF At

LEMMA NamesType ==
  ASSUME NEW u \in Seq(Entry)
  PROVE  /\ Names(u) \in Seq(Messages) /\ Len(Names(u)) = Len(u)
         /\ \A i \in 1 .. Len(u) : Names(u)[i] = u[i].id
<1>1. \A i \in 1 .. Len(u) : u[i] \in Entry /\ u[i].id \in Messages
  BY EntryIs
<1>2. Len(u) \in Nat /\ DOMAIN u = 1 .. Len(u)
  OBVIOUS
<1>3. Names(u) = [i \in 1 .. Len(u) |-> u[i].id]
  BY <1>2 DEF Names
<1> HIDE DEF Names
<1> QED BY <1>1, <1>2, <1>3

LEMMA ForDeviceType ==
  ASSUME NEW s \in Seq(Entry), NEW d \in Devices
  PROVE  /\ ForDevice(s, d) \in Seq(Messages)
         /\ \A m : m \in Range(ForDevice(s, d)) <=> [id |-> m, device |-> d] \in Range(s)
<1> DEFINE u == Only(s, At(d))
<1>1. /\ u \in Seq(Entry) /\ ForDevice(s, d) = Names(u)
      /\ \A e : e \in Range(u) <=> e \in Range(s) /\ e.device = d
  BY ForDeviceIs
<1> HIDE DEF u
<1>2. /\ Names(u) \in Seq(Messages) /\ Len(Names(u)) = Len(u)
      /\ \A i \in 1 .. Len(u) : Names(u)[i] = u[i].id
  BY <1>1, NamesType
<1>3. ASSUME NEW m, m \in Range(Names(u)) PROVE [id |-> m, device |-> d] \in Range(s)
  <2>1. PICK i \in DOMAIN Names(u) : Names(u)[i] = m
    BY <1>3 DEF Range
  <2>2. i \in 1 .. Len(u) /\ u[i].id = m /\ u[i] \in Range(u) /\ u[i] \in Entry
    BY <1>1, <1>2, <2>1 DEF Range
  <2>3. u[i] \in Range(s) /\ u[i].device = d
    BY <1>1, <2>2
  <2> QED BY <2>2, <2>3, EntryIs
<1>4. ASSUME NEW m, [id |-> m, device |-> d] \in Range(s) PROVE m \in Range(Names(u))
  <2> DEFINE e == [id |-> m, device |-> d]
  <2>1. e \in Range(u) /\ e.id = m
    BY <1>1, <1>4
  <2> HIDE DEF e
  <2>2. PICK i \in DOMAIN u : u[i] = e
    BY <2>1 DEF Range
  <2>3. i \in 1 .. Len(u) /\ i \in DOMAIN Names(u)
    BY <1>1, <1>2, <2>2
  <2>4. Names(u)[i] = m
    BY <1>2, <2>1, <2>2, <2>3
  <2> QED BY <2>3, <2>4 DEF Range
<1> QED BY <1>1, <1>2, <1>3, <1>4

LEMMA ForDeviceInjective ==
  ASSUME NEW s \in Seq(Entry), NEW d \in Devices, IsInjective(s)
  PROVE  IsInjective(ForDevice(s, d))
<1> DEFINE u == Only(s, At(d))
<1>1. /\ u \in Seq(Entry) /\ ForDevice(s, d) = Names(u)
      /\ \A e : e \in Range(u) <=> e \in Range(s) /\ e.device = d
  BY ForDeviceIs
<1>2. IsInjective(u)
  BY OnlyInjective
<1> HIDE DEF u
<1>3. /\ Names(u) \in Seq(Messages) /\ Len(Names(u)) = Len(u)
      /\ \A i \in 1 .. Len(u) : Names(u)[i] = u[i].id
  BY <1>1, NamesType
<1>4. ASSUME NEW i \in DOMAIN Names(u), NEW j \in DOMAIN Names(u), Names(u)[i] = Names(u)[j]
      PROVE  i = j
  <2>1. i \in 1 .. Len(u) /\ j \in 1 .. Len(u) /\ i \in DOMAIN u /\ j \in DOMAIN u
    BY <1>1, <1>3
  <2>2. u[i].id = u[j].id /\ u[i] \in Range(u) /\ u[j] \in Range(u) /\ u[i] \in Entry /\ u[j] \in Entry
    BY <1>1, <1>3, <1>4, <2>1 DEF Range
  <2>3. u[i].device = u[j].device
    BY <1>1, <2>2
  <2>4. u[i] = u[j]
    BY <2>2, <2>3, EntryIs
  <2> QED BY <1>2, <2>1, <2>4 DEF IsInjective
<1> QED BY <1>1, <1>4 DEF IsInjective

\* addWithId and add: a message waits behind those of its device.
LEMMA ForDeviceAppend ==
  ASSUME NEW s \in Seq(Entry), NEW e \in Entry, NEW d \in Devices
  PROVE  ForDevice(Append(s, e), d) =
           IF e.device = d THEN Append(ForDevice(s, d), e.id) ELSE ForDevice(s, d)
<1> DEFINE u == Only(s, At(d))
           t == Append(s, e)
<1>1. u \in Seq(Entry) /\ ForDevice(s, d) = Names(u)
  BY ForDeviceIs
<1>2. t \in Seq(Entry)
  OBVIOUS
<1>3. Only(t, At(d)) = IF e \in At(d) THEN Append(u, e) ELSE u
  BY OnlyOfAppend
<1> HIDE DEF t
<1>4. ForDevice(t, d) = Names(Only(t, At(d)))
  BY <1>2, ForDeviceIs
<1> HIDE DEF u
<1>5. Names(Append(u, e)) = Append(Names(u), e.id)
  <2> DEFINE v == Append(u, e)
             w == Append(Names(u), e.id)
  <2>1. e.id \in Messages /\ Names(u) \in Seq(Messages) /\ Len(Names(u)) = Len(u)
        /\ \A i \in 1 .. Len(u) : Names(u)[i] = u[i].id
    BY <1>1, NamesType, EntryIs
  <2>2. v \in Seq(Entry) /\ Len(v) = Len(u) + 1 /\ v[Len(u) + 1] = e
        /\ (\A i \in 1 .. Len(u) : v[i] = u[i]) /\ Len(u) \in Nat
    BY <1>1
  <2>3. w \in Seq(Messages) /\ Len(w) = Len(u) + 1 /\ w[Len(u) + 1] = e.id
        /\ (\A i \in 1 .. Len(u) : w[i] = u[i].id)
    BY <1>1, <2>1
  <2> HIDE DEF v, w
  <2>4. /\ Names(v) \in Seq(Messages) /\ Len(Names(v)) = Len(v)
        /\ \A i \in 1 .. Len(v) : Names(v)[i] = v[i].id
    BY <2>2, NamesType
  <2>5. \A i \in 1 .. Len(v) : Names(v)[i] = w[i]
    <3> SUFFICES ASSUME NEW i \in 1 .. Len(v) PROVE Names(v)[i] = w[i]
      OBVIOUS
    <3>1. CASE i = Len(u) + 1
      BY <2>2, <2>3, <2>4, <3>1
    <3>2. CASE i # Len(u) + 1
      <4>1. i \in 1 .. Len(u)
        BY <2>2, <3>2
      <4> QED BY <2>2, <2>3, <2>4, <4>1
    <3> QED BY <3>1, <3>2
  <2>6. Names(v) = w
    BY <2>2, <2>3, <2>4, <2>5, SeqEqual
  <2> QED BY <2>6 DEF v, w
<1> QED BY <1>1, <1>3, <1>4, <1>5 DEF t, At

\* remove
LEMMA WithoutFacts ==
  ASSUME NEW s \in Seq(Entry), NEW e \in Entry, IsInjective(s)
  PROVE  /\ Without(s, e) \in Seq(Entry)
         /\ Range(Without(s, e)) = Range(s) \ {e}
         /\ IsInjective(Without(s, e))
         /\ \A d \in Devices : d # e.device => ForDevice(Without(s, e), d) = ForDevice(s, d)
         /\ ForDevice(s, e.device) # <<>> /\ Head(ForDevice(s, e.device)) = e.id =>
              ForDevice(Without(s, e), e.device) = Tail(ForDevice(s, e.device))
<1> DEFINE R == {s[i] : i \in {j \in DOMAIN s : s[j] # e}}
           N == {x \in Entry : x # e}
           r == Only(s, N)
<1>1. Without(s, e) = Only(s, R)
  BY DEF Without, Filter
<1>2. Range(s) \intersect R = Range(s) \intersect N
  BY DEF Range
<1> HIDE DEF R, N
<1>3. Without(s, e) = r
  BY <1>1, <1>2, OnlySame
<1>4. r \in Seq(Entry)
  BY OnlyType
<1>5. Range(r) = Range(s) \intersect N
  BY OnlyRange
<1>6. Range(r) = Range(s) \ {e}
  <2>1. \A x \in Range(s) : x \in Entry
    BY DEF Range
  <2> QED BY <1>5, <2>1 DEF N
<1>7. IsInjective(r)
  BY OnlyInjective
<1>8. \A d : Only(r, At(d)) = Only(Only(s, At(d)), N)
  <2> SUFFICES ASSUME NEW d PROVE Only(r, At(d)) = Only(Only(s, At(d)), N)
    OBVIOUS
  <2>1. Only(r, At(d)) = Only(s, N \intersect At(d))
    BY OnlyOfOnly
  <2>2. Only(Only(s, At(d)), N) = Only(s, At(d) \intersect N)
    BY OnlyOfOnly
  <2>3. N \intersect At(d) = At(d) \intersect N
    OBVIOUS
  <2> QED BY <2>1, <2>2, <2>3
<1> HIDE DEF r
<1>9. ASSUME NEW d \in Devices, d # e.device PROVE ForDevice(r, d) = ForDevice(s, d)
  <2> DEFINE u == Only(s, At(d))
  <2>1. /\ u \in Seq(Entry) /\ ForDevice(s, d) = Names(u)
        /\ \A x : x \in Range(u) <=> x \in Range(s) /\ x.device = d
    BY ForDeviceIs
  <2>2. ForDevice(r, d) = Names(Only(r, At(d)))
    BY <1>4, ForDeviceIs
  <2>3. Only(r, At(d)) = Only(u, N)
    BY <1>8
  <2> HIDE DEF u
  <2>4. Range(u) \subseteq N
    <3> SUFFICES ASSUME NEW i \in DOMAIN u PROVE u[i] \in N
      BY DEF Range
    <3>1. u[i] \in Entry /\ u[i] \in Range(u)
      BY <2>1 DEF Range
    <3> QED BY <1>9, <2>1, <3>1 DEF N
  <2>5. Only(u, N) = u
    BY <2>1, <2>4, OnlyAll
  <2> QED BY <2>1, <2>2, <2>3, <2>5
<1>10. ASSUME ForDevice(s, e.device) # <<>>, Head(ForDevice(s, e.device)) = e.id
       PROVE  ForDevice(r, e.device) = Tail(ForDevice(s, e.device))
  <2> DEFINE d == e.device
             u == Only(s, At(d))
  <2>1. /\ u \in Seq(Entry) /\ ForDevice(s, d) = Names(u)
        /\ \A x : x \in Range(u) <=> x \in Range(s) /\ x.device = d
    BY ForDeviceIs
  <2>2. ForDevice(r, d) = Names(Only(r, At(d)))
    BY <1>4, ForDeviceIs
  <2>3. Only(r, At(d)) = Only(u, N)
    BY <1>8
  <2>4. IsInjective(u)
    BY OnlyInjective
  <2> HIDE DEF u
  <2>5. /\ Names(u) \in Seq(Messages) /\ Len(Names(u)) = Len(u)
        /\ \A i \in 1 .. Len(u) : Names(u)[i] = u[i].id
    BY <2>1, NamesType
  <2>6. u # <<>> /\ 1 \in DOMAIN u /\ 1 \in 1 .. Len(u) /\ Head(u) = u[1] /\ Len(u) \in Nat
    <3>1. Len(Names(u)) # 0
      BY <1>10, <2>1, <2>5
    <3> QED BY <2>1, <2>5, <3>1
  <2>7. Names(u)[1] = e.id
    BY <1>10, <2>1, <2>5, <2>6
  <2>8. Head(u) = e
    <3>1. Head(u) \in Range(u)
      BY <2>6 DEF Range
    <3>2. Head(u) \in Entry
      BY <2>1, <2>6, HeadTailProperties
    <3>3. Head(u).id = e.id
      <4>1. Names(u)[1] = u[1].id
        BY <2>5, <2>6
      <4> QED BY <2>6, <2>7, <4>1
    <3>4. Head(u).device = e.device
      BY <2>1, <3>1
    <3> QED BY <3>2, <3>3, <3>4, EntryIs
  <2>9. Only(u, N) = Tail(u)
    <3>1. \A x \in Entry : x \in N <=> x # Head(u)
      BY <2>8 DEF N
    <3> QED BY <2>1, <2>4, <2>6, <3>1, OnlyTail
  <2>10. Names(Tail(u)) = Tail(Names(u))
    <3> DEFINE v == Tail(u)
               w == Tail(Names(u))
    <3>1. v \in Seq(Entry) /\ Len(v) = Len(u) - 1 /\ \A i \in 1 .. Len(u) - 1 : v[i] = u[i + 1]
      BY <2>1, <2>6
    <3>2. w \in Seq(Messages) /\ Len(w) = Len(u) - 1
          /\ \A i \in 1 .. Len(u) - 1 : w[i] = Names(u)[i + 1]
      BY <2>5, <2>6
    <3> HIDE DEF v, w
    <3>3. /\ Names(v) \in Seq(Messages) /\ Len(Names(v)) = Len(v)
          /\ \A i \in 1 .. Len(v) : Names(v)[i] = v[i].id
      BY <3>1, NamesType
    <3>4. \A i \in 1 .. Len(u) - 1 : i + 1 \in 1 .. Len(u)
      BY <2>6
    <3>5. \A i \in 1 .. Len(v) : Names(v)[i] = w[i]
      BY <2>5, <3>1, <3>2, <3>3, <3>4
    <3>6. Names(v) = w
      BY <3>1, <3>2, <3>3, <3>5, SeqEqual
    <3> QED BY <3>6 DEF v, w
  <2> QED BY <2>1, <2>2, <2>3, <2>9, <2>10
<1> QED BY <1>3, <1>4, <1>6, <1>7, <1>9, <1>10

-----------------------------------------------------------------------------
(* Types *)

Queues ==
  /\ open \in BOOLEAN /\ adding \subseteq Entry /\ failing \subseteq Entry
  /\ cache \in Seq(Entry) /\ db \in Seq(Entry) /\ fresh \subseteq Messages
  /\ callbacks \subseteq {m \in Messages : FollowUp[m] # NoMessage}

Chains ==
  /\ jobs \in [Devices -> Seq(Messages)]
  /\ phase \in [Devices -> Phase]
  /\ tries \in [Devices -> 0 .. Attempts]
  /\ \A d \in Devices : phase[d] = "sending" => tries[d] > 0

Records == row \in [Messages -> Row] /\ swarm \in [Devices -> SUBSET Messages]

TypeInv == Queues /\ Chains /\ Records /\ calls \subseteq Call

LEMMA TypeInvIsType == TypeInv => TypeOK
BY DEF TypeInv, Queues, Chains, Records, TypeOK

LEMMA EntryTypes ==
  ASSUME NEW m \in Messages
  PROVE  /\ Dest[m] \in Devices /\ Us \in Devices
         /\ Main(m) \in Entry /\ SyncCopy(m) \in Entry
         /\ Main(m).id = m /\ Main(m).device = Dest[m] /\ Main(m) = [id |-> m, device |-> Dest[m]]
         /\ SyncCopy(m).id = m /\ SyncCopy(m).device = Us
         /\ SyncCopy(m) = [id |-> m, device |-> Us]
         /\ Dest[m] # Us
         /\ FollowUp[m] # NoMessage => FollowUp[m] \in Messages
BY DestinationAssumption, FollowUpAssumption DEF Devices, Main, SyncCopy, Entry, FollowUps

LEMMA CallTypes ==
  ASSUME NEW m \in Messages \union {NoMessage}, NEW d \in Devices
  PROVE  /\ NewCall(m, d) \in Call /\ NewCall(m, d).device = d /\ ~NewCall(m, d).read
         /\ \A l \in Seq(Messages) :
              [by |-> m, device |-> d, read |-> TRUE, list |-> l] \in Call
<1>1. <<>> \in Seq(Messages)
  OBVIOUS
<1> QED BY <1>1 DEF NewCall, Call

LEMMA ReadCallType ==
  ASSUME TypeInv, NEW c \in calls
  PROVE  /\ c.device \in Devices /\ c.by \in Messages \union {NoMessage}
         /\ c.list \in Seq(Messages) /\ ForDevice(cache, c.device) \in Seq(Messages)
         /\ [by |-> c.by, device |-> c.device, read |-> TRUE,
             list |-> ForDevice(cache, c.device)] \in Call
<1>1. c \in Call /\ cache \in Seq(Entry)
  BY DEF TypeInv, Queues
<1>2. c.device \in Devices /\ c.by \in Messages \union {NoMessage} /\ c.list \in Seq(Messages)
  BY <1>1 DEF Call
<1>3. ForDevice(cache, c.device) \in Seq(Messages)
  BY <1>1, <1>2, ForDeviceType
<1> QED BY <1>2, <1>3, CallTypes

\* The messages of a list that have no job yet.
LEMMA NewJobsFacts ==
  ASSUME NEW l \in Seq(Messages), NEW d
  PROVE  \E R : /\ NewJobs(l, d) = Only(l, R)
                /\ NewJobs(l, d) \in Seq(Messages)
                /\ \A x \in Range(l) : x \in R <=> x \notin Range(jobs[d])
<1> DEFINE R == {l[i] : i \in {j \in DOMAIN l : l[j] \notin Range(jobs[d])}}
<1>1. NewJobs(l, d) = Only(l, R)
  BY DEF NewJobs, Filter
<1>2. \A x \in Range(l) : x \in R <=> x \notin Range(jobs[d])
  <2> SUFFICES ASSUME NEW i \in DOMAIN l PROVE l[i] \in R <=> l[i] \notin Range(jobs[d])
    BY DEF Range
  <2> QED OBVIOUS
<1> HIDE DEF R
<1>3. Only(l, R) \in Seq(Messages)
  BY OnlyType
<1> QED BY <1>1, <1>2, <1>3

\* A task of a destination goes from one phase to another that is not sending.
LEMMA GotoType ==
  ASSUME Chains, NEW d \in Devices, NEW p \in Phase \ {"sending"}, Goto(d, p),
         UNCHANGED <<jobs, tries>>
  PROVE  Chains'
BY DEF Chains, Goto

LEMMA StartNextType ==
  ASSUME Chains, NEW d \in Devices, NEW c \in Seq(Messages), StartNext(d, c)
  PROVE  Chains'
<1>1. jobs' \in [Devices -> Seq(Messages)]
  BY DEF Chains, StartNext
<1>2. phase' \in [Devices -> Phase]
  BY DEF Chains, StartNext, Phase
<1>3. tries' \in [Devices -> 0 .. Attempts]
  BY AttemptsAssumption DEF Chains, StartNext
<1>4. ASSUME NEW x \in Devices, phase'[x] = "sending" PROVE tries'[x] > 0
  <2>1. CASE x = d
    BY <1>4, <2>1, AttemptsAssumption DEF Chains, StartNext
  <2>2. CASE x # d
    BY <1>4, <2>2 DEF Chains, StartNext
  <2> QED BY <2>1, <2>2
<1> QED BY <1>1, <1>2, <1>3, <1>4 DEF Chains

LEMMA RunningFacts ==
  ASSUME Chains, NEW d \in Devices, NEW m, NEW p, Running(d, m, p)
  PROVE  /\ jobs[d] \in Seq(Messages) /\ jobs[d] # <<>> /\ phase[d] = p
         /\ Head(jobs[d]) = m /\ m \in Messages /\ m \in Range(jobs[d])
         /\ Tail(jobs[d]) \in Seq(Messages)
         /\ \A x : x \in Range(jobs[d]) <=> x = m \/ x \in Range(Tail(jobs[d]))
<1> DEFINE s == jobs[d]
<1>1. s \in Seq(Messages) /\ s # <<>> /\ phase[d] = p /\ Head(s) = m
  BY DEF Chains, Running
<1> HIDE DEF s
<1>2. 1 \in DOMAIN s /\ s[1] = m /\ m \in Messages /\ Tail(s) \in Seq(Messages)
  BY <1>1
<1>3. \A i \in DOMAIN Tail(s) : i + 1 \in DOMAIN s /\ Tail(s)[i] = s[i + 1]
  BY <1>1
<1>4. ASSUME NEW i \in DOMAIN s, i # 1 PROVE i - 1 \in DOMAIN Tail(s) /\ Tail(s)[i - 1] = s[i]
  BY <1>1, <1>4
<1>5. ASSUME NEW x PROVE x \in Range(s) <=> x = m \/ x \in Range(Tail(s))
  <2>1. ASSUME x \in Range(s) PROVE x = m \/ x \in Range(Tail(s))
    <3>1. PICK i \in DOMAIN s : s[i] = x
      BY <2>1 DEF Range
    <3>2. CASE i = 1
      BY <1>2, <3>1, <3>2
    <3>3. CASE i # 1
      BY <1>4, <3>1, <3>3 DEF Range
    <3> QED BY <3>2, <3>3
  <2>2. x = m => x \in Range(s)
    BY <1>2 DEF Range
  <2>3. x \in Range(Tail(s)) => x \in Range(s)
    BY <1>3 DEF Range
  <2> QED BY <2>1, <2>2, <2>3
<1>6. m \in Range(s)
  BY <1>2 DEF Range
<1> QED BY <1>1, <1>2, <1>5, <1>6 DEF s

LEMMA TypeInit == Init => TypeInv
<1> SUFFICES ASSUME Init PROVE TypeInv
  OBVIOUS
<1>1. <<>> \in Seq(Entry) /\ <<>> \in Seq(Messages)
  OBVIOUS
<1>2. Queues
  BY <1>1 DEF Init, Queues
<1>3. Chains
  BY <1>1, AttemptsAssumption DEF Init, Chains, Phase
<1>4. Records /\ calls \subseteq Call
  BY DEF Init, Records, Row
<1> QED BY <1>2, <1>3, <1>4 DEF TypeInv

LEMMA TypeStep ==
  ASSUME TypeInv, [Next]_vars
  PROVE  TypeInv'
<1>0. Queues /\ Chains /\ Records /\ calls \subseteq Call /\ cache \in Seq(Entry) /\ db \in Seq(Entry)
  BY DEF TypeInv, Queues
<1>1. ASSUME NEW m \in Messages, Send(m) PROVE TypeInv'
  <2>1. \A e \in Range(db) : NewCall(NoMessage, e.device) \in Call
    <3> SUFFICES ASSUME NEW i \in DOMAIN db PROVE NewCall(NoMessage, db[i].device) \in Call
      BY DEF Range
    <3>1. db[i].device \in Devices
      BY <1>0, EntryIs
    <3> QED BY <3>1, CallTypes
  <2>2. calls' \subseteq Call /\ open' \in BOOLEAN /\ cache' \in Seq(Entry)
    BY <1>0, <1>1, <2>1 DEF Send, GetMessageQueue, Queues
  <2>3. Queues'
    BY <1>0, <1>1, <2>2, EntryTypes DEF Send, Queues
  <2>4. Chains' /\ Records'
    BY <1>0, <1>1 DEF Send, Chains, Records
  <2> QED BY <2>2, <2>3, <2>4 DEF TypeInv
<1>2. ASSUME NEW e \in adding, Add(e) PROVE TypeInv'
  <2>1. e \in Entry /\ e.id \in Messages /\ e.device \in Devices
    BY <1>0, EntryIs DEF Queues
  <2>2. cache' \in Seq(Entry) /\ db' \in Seq(Entry)
    <3>1. Append(cache, e) \in Seq(Entry)
      BY <1>0, <2>1
    <3>2. cache' \in {cache, Append(cache, e)} /\ db' \in {db, cache'}
      BY <1>2 DEF Add, SaveToDB
    <3> QED BY <1>0, <3>1, <3>2
  <2>3. Queues'
    BY <1>0, <1>2, <2>1, <2>2 DEF Add, Queues
  <2>4. Chains' /\ Records'
    BY <1>0, <1>2 DEF Add, Chains, Records
  <2>5. calls' \subseteq Call
    BY <1>0, <1>2, <2>1, CallTypes DEF Add
  <2> QED BY <2>3, <2>4, <2>5 DEF TypeInv
<1>3. ASSUME NEW c \in calls, ReadPending(c) PROVE TypeInv'
  <2>1. calls' \subseteq Call
    BY <1>0, <1>3, ReadCallType DEF ReadPending
  <2>2. Queues' /\ Chains' /\ Records'
    BY <1>0, <1>3 DEF ReadPending, durable, Queues, Chains, Records
  <2> QED BY <2>1, <2>2 DEF TypeInv
<1>4. ASSUME NEW c \in calls, EnqueueJobs(c) PROVE TypeInv'
  <2> DEFINE d == c.device
             chain == jobs[d] \o NewJobs(c.list, d)
  <2>1. d \in Devices /\ c.list \in Seq(Messages) /\ jobs[d] \in Seq(Messages)
    BY <1>0, ReadCallType DEF Chains
  <2>2. NewJobs(c.list, d) \in Seq(Messages)
    BY <2>1, NewJobsFacts
  <2>3. chain \in Seq(Messages)
    BY <2>1, <2>2
  <2>4. \/ StartNext(d, chain)
        \/ jobs' = [jobs EXCEPT ![d] = chain] /\ UNCHANGED <<phase, tries>>
    BY <1>4 DEF EnqueueJobs
  <2> HIDE DEF chain, d
  <2>5. Chains'
    <3>1. CASE StartNext(d, chain)
      BY <1>0, <2>1, <2>3, <3>1, StartNextType
    <3>2. CASE jobs' = [jobs EXCEPT ![d] = chain] /\ UNCHANGED <<phase, tries>>
      BY <1>0, <2>1, <2>3, <3>2 DEF Chains
    <3> QED BY <2>4, <3>1, <3>2
  <2>6. Queues' /\ Records' /\ calls' \subseteq Call
    BY <1>0, <1>4 DEF EnqueueJobs, durable, Queues, Records
  <2> QED BY <2>5, <2>6 DEF TypeInv
<1>5. ASSUME NEW e \in failing, HandleMessageSentFailure(e) PROVE TypeInv'
  <2>1. e.id \in Messages /\ row[e.id] \in Row
    BY <1>0, EntryIs DEF Queues, Records
  <2>2. [row[e.id] EXCEPT !.failed = TRUE, !.sentSync = @ /\ e.device # Us] \in Row
    BY <2>1 DEF Row
  <2>3. Records'
    BY <1>0, <1>5, <2>1, <2>2 DEF HandleMessageSentFailure, Records
  <2>4. Queues' /\ Chains' /\ calls' \subseteq Call
    BY <1>0, <1>5 DEF HandleMessageSentFailure, Queues, Chains
  <2> QED BY <2>3, <2>4 DEF TypeInv
<1>6. ASSUME NEW d \in Devices, NEW m \in Messages, SendAttempt(d, m) PROVE TypeInv'
  <2>1. phase[d] = "sending" /\ tries[d] \in 1 .. Attempts
    BY <1>0, <1>6, AttemptsAssumption DEF SendAttempt, Running, Chains
  <2>2. Chains'
    <3>1. CASE Goto(d, "sent") /\ UNCHANGED <<tries, failing>>
      BY <1>0, <1>6, <3>1, GotoType DEF SendAttempt, Phase
    <3>2. CASE tries' = [tries EXCEPT ![d] = @ - 1] /\ tries[d] > 1 /\ UNCHANGED <<phase, failing>>
      <4>1. UNCHANGED jobs
        BY <1>6 DEF SendAttempt
      <4>2. tries' \in [Devices -> 0 .. Attempts] /\ tries'[d] > 0
        <5>1. tries[d] - 1 \in 0 .. Attempts /\ tries[d] - 1 > 0 /\ tries \in [Devices -> 0 .. Attempts]
          BY <1>0, <2>1, <3>2, AttemptsAssumption DEF Chains
        <5> QED BY <3>2, <5>1
      <4>3. \A x \in Devices : x # d => tries'[x] = tries[x]
        BY <1>0, <3>2 DEF Chains
      <4> QED BY <1>0, <3>2, <4>1, <4>2, <4>3 DEF Chains
    <3>3. CASE tries' = [tries EXCEPT ![d] = @ - 1] /\ tries[d] = 1 /\ Goto(d, "ending")
      <4>1. UNCHANGED jobs
        BY <1>6 DEF SendAttempt
      <4>2. tries' \in [Devices -> 0 .. Attempts]
        <5>1. tries[d] - 1 \in 0 .. Attempts /\ tries \in [Devices -> 0 .. Attempts]
          BY <1>0, <2>1, <3>3, AttemptsAssumption DEF Chains
        <5> QED BY <3>3, <5>1
      <4>3. \A x \in Devices : x # d => tries'[x] = tries[x] /\ phase'[x] = phase[x]
        BY <1>0, <3>3 DEF Chains, Goto
      <4>4. phase' \in [Devices -> Phase] /\ phase'[d] = "ending"
        BY <1>0, <3>3 DEF Chains, Goto, Phase
      <4> QED BY <1>0, <4>1, <4>2, <4>3, <4>4 DEF Chains
    <3> QED BY <1>6, <3>1, <3>2, <3>3 DEF SendAttempt
  <2>3. [id |-> m, device |-> d] \in Entry
    BY DEF Entry
  <2>4. Queues'
    BY <1>0, <1>6, <2>3 DEF SendAttempt, Queues
  <2>5. swarm' \in [Devices -> SUBSET Messages]
    <3>1. PICK S \in SUBSET {m} : swarm' = [swarm EXCEPT ![d] = @ \union S]
      BY <1>6 DEF SendAttempt
    <3> QED BY <1>0, <3>1 DEF Records
  <2>6. UNCHANGED row
    BY <1>6 DEF SendAttempt
  <2>7. Records' /\ calls' \subseteq Call
    BY <1>0, <1>6, <2>5, <2>6 DEF SendAttempt, Records
  <2> QED BY <2>2, <2>4, <2>7 DEF TypeInv
<1>7. ASSUME NEW d \in Devices, NEW m \in Messages,
             HandleMessageSentSuccess(d, m) \/ SyncMessageSent(d, m)
      PROVE  TypeInv'
  <2>1. Chains'
    <3>1. PICK p \in {"syncing", "handled"} : Goto(d, p)
      BY <1>7 DEF HandleMessageSentSuccess, SyncMessageSent
    <3> QED BY <1>0, <1>7, <3>1, GotoType DEF HandleMessageSentSuccess, SyncMessageSent, Phase
  <2>2. Queues' /\ calls' \subseteq Call
    BY <1>0, <1>7, EntryTypes DEF HandleMessageSentSuccess, SyncMessageSent, Queues
  <2>3. row[m] \in Row
    BY <1>0 DEF Records
  <2>4. [row[m] EXCEPT !.synced = TRUE] \in Row /\ [row[m] EXCEPT !.sentSync = TRUE] \in Row
    BY <2>3 DEF Row
  <2>5. row' \in [Messages -> Row]
    BY <1>0, <1>7, <2>4 DEF HandleMessageSentSuccess, SyncMessageSent, Records
  <2>6. Records'
    BY <1>0, <1>7, <2>5 DEF HandleMessageSentSuccess, SyncMessageSent, Records
  <2> QED BY <2>1, <2>2, <2>6 DEF TypeInv
<1>8. ASSUME NEW d \in Devices, NEW m \in Messages,
             RunCallback(d, m) \/ CallbackReturns(d, m)
      PROVE  TypeInv'
  <2>1. Chains'
    <3>1. PICK p \in {"calling", "ending"} : Goto(d, p)
      BY <1>8 DEF RunCallback, CallbackReturns
    <3> QED BY <1>0, <1>8, <3>1, GotoType DEF RunCallback, CallbackReturns, durable, Phase
  <2>2. [id |-> m, device |-> d] \in Entry
    BY DEF Entry
  <2>3. m \in callbacks => Main(FollowUp[m]) \in Entry
    BY <1>0, EntryTypes DEF Queues
  <2>4. Queues' /\ calls' \subseteq Call
    BY <1>0, <1>8, <2>2, <2>3 DEF RunCallback, CallbackReturns, durable, Queues
  <2>5. Records'
    BY <1>0, <1>8 DEF RunCallback, CallbackReturns, durable, Records
  <2> QED BY <2>1, <2>4, <2>5 DEF TypeInv
<1>9. ASSUME NEW d \in Devices, NEW m \in Messages, RemoveMessage(d, m) PROVE TypeInv'
  <2> DEFINE e == [id |-> m, device |-> d]
  <2>1. Chains'
    BY <1>0, <1>9, GotoType DEF RemoveMessage, Phase
  <2>2. \/ cache' = Without(cache, e) /\ db' = cache'
        \/ UNCHANGED <<cache, db>>
    BY <1>9 DEF RemoveMessage, SaveToDB
  <2>3. Without(cache, e) \in Seq(Entry)
    BY <1>0, OnlyType DEF Without, Filter
  <2>4. Queues'
    BY <1>0, <1>9, <2>2, <2>3 DEF RemoveMessage, Queues
  <2>5. Records' /\ calls' \subseteq Call
    BY <1>0, <1>9 DEF RemoveMessage, Records
  <2> QED BY <2>1, <2>4, <2>5 DEF TypeInv
<1>10. ASSUME NEW d \in Devices, NEW m \in Messages, Settle(d, m) PROVE TypeInv'
  <2>1. Tail(jobs[d]) \in Seq(Messages)
    BY <1>0, <1>10, RunningFacts DEF Settle
  <2>2. Chains'
    BY <1>0, <1>10, <2>1, StartNextType DEF Settle
  <2>3. Queues' /\ Records' /\ calls' \subseteq Call
    BY <1>0, <1>10 DEF Settle, durable, Queues, Records
  <2> QED BY <2>2, <2>3 DEF TypeInv
<1>11. CASE Crash
  <2>1. <<>> \in Seq(Entry) /\ <<>> \in Seq(Messages)
    OBVIOUS
  <2>2. Queues'
    BY <1>0, <1>11, <2>1 DEF Crash, durable, Queues
  <2>3. Chains'
    BY <1>11, <2>1, AttemptsAssumption DEF Crash, Chains, Phase
  <2>4. Records' /\ calls' \subseteq Call
    BY <1>0, <1>11 DEF Crash, durable, Records
  <2> QED BY <2>2, <2>3, <2>4 DEF TypeInv
<1>12. CASE UNCHANGED vars
  BY <1>0, <1>12 DEF vars, durable, volatile, TypeInv, Queues, Chains, Records
<1> QED BY <1>1, <1>2, <1>3, <1>4, <1>5, <1>6, <1>7, <1>8, <1>9, <1>10, <1>11, <1>12
        DEF Next, Microtask

\* TypeInv holds in every state.
THEOREM TypeInvariance == Spec => []TypeInv
<1>1. Init => TypeInv
  BY TypeInit
<1>2. TypeInv /\ [Next]_vars => TypeInv'
  BY TypeStep
<1> QED BY <1>1, <1>2, PTL DEF Spec

\* The cache, the item of the database, the chains and the rows have their types, and
\* a task never has more than its Attempts, nor goes on without one (MessageSender.send).
THEOREM TypeCorrect == Spec => []TypeOK
BY TypeInvariance, TypeInvIsType, PTL

-----------------------------------------------------------------------------
(* The invariant *)

Active(d) == phase[d] \notin {"idle", "sending"}

Closed ==
  ~open => /\ cache = <<>> /\ adding = {} /\ callbacks = {} /\ calls = {}
           /\ \A d \in Devices : jobs[d] = <<>> /\ phase[d] = "idle"

\* The item is the cache; one result is handled at a time.
Basics ==
  /\ Closed
  /\ open => cache = db
  /\ IsInjective(db)
  /\ \A d, x \in Devices : Active(d) /\ Active(x) => d = x
  /\ \A d \in Devices : jobs[d] = <<>> => phase[d] = "idle"

\* A message goes to its destination; the copy of a private one, to our devices.
Valid(e) == e.device = Dest[e.id] \/ (e.device = Us /\ Dest[e.id] \in Contacts)

AllValid == \A e \in Range(db) \union adding : Valid(e)

\* A message is accepted once ...
NewMain ==
  \A m \in Messages :
    /\ m \in fresh => Main(m) \notin adding
    /\ m \in fresh \/ Main(m) \in adding =>
         Main(m) \notin Range(db) /\ m \notin Range(jobs[Dest[m]])

\* ... and so is the one its callback sends ...
FollowUpsFresh ==
  \A m \in Messages :
    /\ FollowUp[m] # NoMessage
    /\ m \in fresh \/ Main(m) \in adding \/ (m \in callbacks /\ ~Running(Dest[m], m, "calling"))
    => FollowUp[m] \in fresh

\* ... while the copy of a message is accepted by the task of the message.
SyncAdding ==
  \A m \in Messages : SyncCopy(m) \in adding => Running(Dest[m], m, "syncing")

Accepted == AllValid /\ NewMain /\ FollowUpsFresh /\ SyncAdding

Pending(d) == IF phase[d] = "removed" THEN Tail(jobs[d]) ELSE jobs[d]

ChainInOrder(d) ==
  /\ IsPrefix(Pending(d), ForDevice(cache, d))
  /\ phase[d] = "removed" => Head(jobs[d]) \notin Range(ForDevice(cache, d))

ListInOrder(c) == c.read => IsPrefix(c.list, ForDevice(cache, c.device))

Order ==
  /\ \A d \in Devices : ChainInOrder(d)
  /\ \A c \in calls : ListInOrder(c)
  /\ NoMessageForgotten

QueueInv == TypeInv /\ Basics /\ Accepted /\ Order

\* The prefixes of what waits for a device.
LEMMA PrefixFacts ==
  ASSUME NEW s \in Seq(Messages), NEW t \in Seq(Messages), IsPrefix(s, t)
  PROVE  /\ Range(s) \subseteq Range(t)
         /\ \A x \in Messages : IsPrefix(s, Append(t, x))
         /\ s # <<>> => t # <<>> /\ Head(t) = Head(s) /\ IsPrefix(Tail(s), Tail(t))
<1>1. Len(s) <= Len(t) /\ \A i \in 1 .. Len(s) : s[i] = t[i]
  BY PrefixIs
<1>2. Range(s) \subseteq Range(t)
  <2> SUFFICES ASSUME NEW i \in DOMAIN s PROVE s[i] \in Range(t)
    BY DEF Range
  <2>1. i \in DOMAIN t /\ s[i] = t[i]
    BY <1>1
  <2> QED BY <2>1 DEF Range
<1>3. ASSUME NEW x \in Messages PROVE IsPrefix(s, Append(t, x))
  <2>1. Append(t, x) \in Seq(Messages) /\ Len(Append(t, x)) = Len(t) + 1
        /\ \A i \in 1 .. Len(t) : Append(t, x)[i] = t[i]
    OBVIOUS
  <2>2. \A i \in 1 .. Len(s) : i \in 1 .. Len(t)
    BY <1>1
  <2>3. Len(s) <= Len(Append(t, x)) /\ \A i \in 1 .. Len(s) : s[i] = Append(t, x)[i]
    BY <1>1, <2>1, <2>2
  <2> QED BY <2>1, <2>3, PrefixIs
<1>4. ASSUME s # <<>> PROVE t # <<>> /\ Head(t) = Head(s) /\ IsPrefix(Tail(s), Tail(t))
  <2>1. Len(s) > 0 /\ t # <<>> /\ Head(t) = t[1] /\ Head(s) = s[1] /\ 1 \in 1 .. Len(s)
    BY <1>1, <1>4
  <2>2. /\ Tail(s) \in Seq(Messages) /\ Len(Tail(s)) = Len(s) - 1
        /\ \A i \in 1 .. Len(s) - 1 : Tail(s)[i] = s[i + 1]
    BY <1>4
  <2>3. /\ Tail(t) \in Seq(Messages) /\ Len(Tail(t)) = Len(t) - 1
        /\ \A i \in 1 .. Len(t) - 1 : Tail(t)[i] = t[i + 1]
    BY <2>1
  <2>4. \A i \in 1 .. Len(Tail(s)) : i \in 1 .. Len(t) - 1 /\ i \in 1 .. Len(s) - 1 /\ i + 1 \in 1 .. Len(s)
    BY <1>1, <2>2
  <2>5. \A i \in 1 .. Len(Tail(s)) : Tail(s)[i] = Tail(t)[i]
    BY <1>1, <2>2, <2>3, <2>4
  <2>6. IsPrefix(Tail(s), Tail(t))
    <3>1. Len(Tail(s)) <= Len(Tail(t))
      BY <1>1, <2>2, <2>3
    <3>2. Tail(s) \in Seq(Messages) /\ Tail(t) \in Seq(Messages)
      BY <2>2, <2>3
    <3> QED BY <2>5, <3>1, <3>2, PrefixIs
  <2> QED BY <1>1, <2>1, <2>6
<1> QED BY <1>2, <1>3, <1>4

LEMMA HeadTailOfConcat ==
  ASSUME NEW s \in Seq(Messages), NEW t \in Seq(Messages), s # <<>>
  PROVE  s \o t # <<>> /\ Head(s \o t) = Head(s) /\ Tail(s \o t) = Tail(s) \o t
<1> DEFINE u == s \o t
<1>1. /\ u \in Seq(Messages) /\ Len(u) = Len(s) + Len(t)
      /\ \A i \in 1 .. Len(s) + Len(t) : u[i] = IF i <= Len(s) THEN s[i] ELSE t[i - Len(s)]
  BY ConcatProperties
<1>2. Len(s) \in Nat \ {0} /\ Len(t) \in Nat
  OBVIOUS
<1> HIDE DEF u
<1>3. u # <<>> /\ Head(u) = Head(s)
  BY <1>1, <1>2
<1> DEFINE a == Tail(u)
           b == Tail(s) \o t
<1>4. a \in Seq(Messages) /\ Len(a) = Len(u) - 1 /\ \A i \in 1 .. Len(u) - 1 : a[i] = u[i + 1]
  BY <1>1, <1>2, <1>3
<1>5. /\ Tail(s) \in Seq(Messages) /\ Len(Tail(s)) = Len(s) - 1
      /\ \A i \in 1 .. Len(s) - 1 : Tail(s)[i] = s[i + 1]
  OBVIOUS
<1>6. /\ b \in Seq(Messages) /\ Len(b) = Len(s) - 1 + Len(t)
      /\ \A i \in 1 .. Len(s) - 1 + Len(t) :
           b[i] = IF i <= Len(s) - 1 THEN Tail(s)[i] ELSE t[i - (Len(s) - 1)]
  BY <1>5, ConcatProperties
<1> HIDE DEF a, b
<1>7. ASSUME NEW i \in 1 .. Len(a) PROVE a[i] = b[i]
  <2>1. i + 1 \in 1 .. Len(s) + Len(t) /\ i \in 1 .. Len(s) - 1 + Len(t) /\ i \in 1 .. Len(u) - 1
    BY <1>1, <1>2, <1>4
  <2>2. a[i] = IF i + 1 <= Len(s) THEN s[i + 1] ELSE t[i + 1 - Len(s)]
    BY <1>1, <1>4, <2>1
  <2>3. CASE i <= Len(s) - 1
    BY <1>2, <1>5, <1>6, <2>1, <2>2, <2>3
  <2>4. CASE i > Len(s) - 1
    <3>1. i + 1 - Len(s) = i - (Len(s) - 1)
      BY <1>2
    <3>2. ~(i + 1 <= Len(s)) /\ ~(i <= Len(s) - 1)
      BY <1>2, <2>4
    <3>3. a[i] = t[i + 1 - Len(s)]
      BY <2>2, <3>2
    <3>4. b[i] = t[i - (Len(s) - 1)]
      BY <1>6, <2>1, <3>2
    <3> QED BY <3>1, <3>3, <3>4
  <2> QED BY <1>2, <2>3, <2>4
<1>8. a = b
  BY <1>1, <1>4, <1>6, <1>7, SeqEqual
<1> QED BY <1>3, <1>8 DEF a, b, u

LEMMA EmptyPrefix ==
  ASSUME NEW t \in Seq(Messages)
  PROVE  IsPrefix(<<>>, t)
<1>1. <<>> \in Seq(Messages)
  OBVIOUS
<1>2. Len(<<>>) = 0 /\ Len(t) \in Nat
  OBVIOUS
<1>3. Len(<<>>) <= Len(t) /\ \A i \in 1 .. Len(<<>>) : <<>>[i] = t[i]
  BY <1>2
<1> QED BY <1>1, <1>3, PrefixIs

\* What a task that was not removed says of the rest.
LEMMA RunningIsPending ==
  ASSUME QueueInv, NEW d \in Devices, NEW m, NEW p, Running(d, m, p), p # "removed"
  PROVE  /\ open /\ cache = db /\ m \in Messages
         /\ [id |-> m, device |-> d] \in Range(db)
         /\ Head(ForDevice(cache, d)) = m /\ ForDevice(cache, d) # <<>>
         /\ d = Dest[m] \/ (d = Us /\ Dest[m] \in Contacts)
         /\ FollowUp[m] # NoMessage => d = Dest[m]
         /\ d # Us => d = Dest[m]
<1>1. Chains /\ cache \in Seq(Entry)
  BY DEF QueueInv, TypeInv, Queues
<1>2. /\ jobs[d] \in Seq(Messages) /\ jobs[d] # <<>> /\ phase[d] = p
      /\ Head(jobs[d]) = m /\ m \in Messages
  BY <1>1, RunningFacts
<1>3. open /\ cache = db
  BY <1>2 DEF QueueInv, Basics, Closed
<1>4. ForDevice(cache, d) \in Seq(Messages)
      /\ \A n : n \in Range(ForDevice(cache, d)) <=> [id |-> n, device |-> d] \in Range(cache)
  BY <1>1, ForDeviceType
<1>5. IsPrefix(jobs[d], ForDevice(cache, d))
  BY <1>2 DEF QueueInv, Order, ChainInOrder, Pending
<1>6. Head(ForDevice(cache, d)) = m /\ ForDevice(cache, d) # <<>>
  BY <1>2, <1>4, <1>5, PrefixFacts
<1>7. m \in Range(ForDevice(cache, d))
  <2>1. \A s \in Seq(Messages) : s # <<>> => Head(s) \in Range(s)
    <3> SUFFICES ASSUME NEW s \in Seq(Messages), s # <<>> PROVE Head(s) \in Range(s)
      OBVIOUS
    <3>1. 1 \in DOMAIN s /\ Head(s) = s[1]
      OBVIOUS
    <3> QED BY <3>1 DEF Range
  <2> QED BY <1>4, <1>6, <2>1
<1>8. [id |-> m, device |-> d] \in Range(db)
  BY <1>3, <1>4, <1>7
<1>9. d = Dest[m] \/ (d = Us /\ Dest[m] \in Contacts)
  BY <1>8 DEF QueueInv, Accepted, AllValid, Valid
<1> QED BY <1>2, <1>3, <1>6, <1>8, <1>9, FollowUpAssumption

\* A task that goes on.
LEMMA PhaseStep ==
  ASSUME QueueInv, NEW d \in Devices, NEW m, NEW p, Running(d, m, p), p # "removed",
         NEW q \in Phase \ {"removed", "idle"}, phase' = [phase EXCEPT ![d] = q],
         UNCHANGED <<open, cache, db, jobs, calls>>, p = "sending" => NoResult,
         p # "idle"
  PROVE  Basics' /\ Order'
<1>1. phase \in [Devices -> Phase] /\ phase[d] = p /\ jobs[d] # <<>>
  BY DEF QueueInv, TypeInv, Chains, Running
<1>2. phase'[d] = q /\ \A x \in Devices : x # d => phase'[x] = phase[x]
  BY <1>1
<1>3. open /\ open'
  BY RunningIsPending
<1>4. \A x \in Devices : Active(x) => x = d \/ p # "sending"
  BY DEF NoResult, Active
<1>5. ASSUME NEW x \in Devices, NEW y \in Devices, Active(x)', Active(y)' PROVE x = y
  <2>1. x = d \/ Active(x)
    BY <1>2, <1>5 DEF Active
  <2>2. y = d \/ Active(y)
    BY <1>2, <1>5 DEF Active
  <2>3. p = "sending" => x = d /\ y = d
    BY <1>4, <2>1, <2>2
  <2>4. p # "sending" => Active(d)
    BY <1>1 DEF Active
  <2> QED BY <2>1, <2>2, <2>3, <2>4 DEF QueueInv, Basics
<1>6. Basics'
  BY <1>1, <1>2, <1>3, <1>5 DEF QueueInv, Basics, Closed
<1>7. ASSUME NEW x \in Devices PROVE ChainInOrder(x)'
  <2>1. Pending(x)' = Pending(x) /\ (phase'[x] = "removed" => phase[x] = "removed")
    BY <1>1, <1>2 DEF Pending
  <2> QED BY <2>1 DEF QueueInv, Order, ChainInOrder
<1>8. \A c \in calls' : ListInOrder(c)'
  BY DEF QueueInv, Order, ListInOrder
<1>9. NoMessageForgotten'
  BY DEF QueueInv, Order, NoMessageForgotten
<1> QED BY <1>6, <1>7, <1>8, <1>9 DEF Order

\* The task of a message is in a phase as long as none enters or leaves that phase.
LEMMA SameRunning ==
  ASSUME phase \in [Devices -> Phase], NEW d \in Devices, NEW q, NEW r,
         phase' = [phase EXCEPT ![d] = q], UNCHANGED jobs, phase[d] # r, q # r,
         NEW m \in Messages
  PROVE  Running(Dest[m], m, r)' <=> Running(Dest[m], m, r)
<1>1. Dest[m] \in Devices
  BY EntryTypes
<1> QED BY <1>1 DEF Running

-----------------------------------------------------------------------------
(* One lemma per step *)

LEMMA SendStep ==
  ASSUME QueueInv, NEW m \in Messages, Send(m)
  PROVE  (Basics /\ Accepted /\ Order)'
<1>1. /\ m \in fresh /\ m \notin FollowUps /\ fresh' = fresh \ {m}
      /\ adding' = adding \union {Main(m)}
      /\ UNCHANGED <<callbacks, jobs, phase, db>>
      /\ \A d \in Devices : phase[d] \in {"idle", "sending"}
  BY DEF Send, NoResult
<1>2. /\ open' /\ cache' = db
      /\ open => UNCHANGED calls /\ cache = db
      /\ ~open => calls' = {NewCall(NoMessage, e.device) : e \in Range(db)}
  BY DEF Send, GetMessageQueue, QueueInv, Basics
<1>3. db \in Seq(Entry)
  BY DEF QueueInv, TypeInv, Queues
<1>4. Basics'
  BY <1>1, <1>2 DEF QueueInv, Basics, Closed, Active
<1>5. Accepted'
  <2>1. AllValid'
    BY <1>1, EntryTypes DEF QueueInv, Accepted, AllValid, Valid
  <2>2. \A n \in Messages : Main(n) = Main(m) => n = m
    BY EntryTypes
  <2>3. NewMain'
    BY <1>1, <2>2 DEF QueueInv, Accepted, NewMain
  <2>4. \A n \in Messages : FollowUp[n] # m \/ FollowUp[n] = NoMessage
    BY <1>1 DEF FollowUps
  <2>5. FollowUpsFresh'
    BY <1>1, <2>2, <2>4 DEF QueueInv, Accepted, FollowUpsFresh, Running
  <2>6. \A n \in Messages : SyncCopy(n) # Main(m)
    BY EntryTypes
  <2>7. SyncAdding'
    BY <1>1, <2>6 DEF QueueInv, Accepted, SyncAdding, Running
  <2> QED BY <2>1, <2>3, <2>5, <2>7 DEF Accepted
<1>6. Order'
  <2>1. CASE open
    BY <1>1, <1>2, <2>1
       DEF QueueInv, Order, ChainInOrder, Pending, ListInOrder, NoMessageForgotten
  <2>2. CASE ~open
    <3>1. \A d \in Devices : jobs[d] = <<>> /\ phase[d] = "idle"
      BY <2>2 DEF QueueInv, Basics, Closed
    <3>2. ASSUME NEW d \in Devices PROVE ChainInOrder(d)'
      <4>1. Pending(d)' = <<>> /\ phase'[d] # "removed"
        BY <1>1, <3>1 DEF Pending
      <4>2. ForDevice(cache', d) \in Seq(Messages)
        BY <1>2, <1>3, ForDeviceType
      <4>3. IsPrefix(<<>>, ForDevice(cache', d))
        BY <4>2, EmptyPrefix
      <4> QED BY <4>1, <4>3 DEF ChainInOrder
    <3>3. \A c \in calls' : ~c.read
      BY <1>2, <2>2 DEF NewCall
    <3>4. NoMessageForgotten'
      <4> SUFFICES ASSUME NEW e \in Range(db)
                   PROVE  \E c \in calls' : c.device = e.device /\ ~c.read
        BY <1>2 DEF NoMessageForgotten
      <4>1. NewCall(NoMessage, e.device) \in calls'
        BY <1>2, <2>2
      <4> QED BY <4>1 DEF NewCall
    <3> QED BY <3>2, <3>3, <3>4 DEF Order, ListInOrder
  <2> QED BY <2>1, <2>2
<1> QED BY <1>4, <1>5, <1>6

LEMMA AddStep ==
  ASSUME QueueInv, NEW e \in adding, Add(e)
  PROVE  (Basics /\ Accepted /\ Order)'
<1>1. /\ open /\ cache = db /\ open' /\ adding' = adding \ {e}
      /\ calls' = calls \union {NewCall(e.id, e.device)}
      /\ UNCHANGED <<jobs, phase, fresh>>
  BY DEF Add, QueueInv, Basics, Closed
<1>2. e \in Entry /\ e.id \in Messages /\ e.device \in Devices /\ cache \in Seq(Entry)
      /\ e = [id |-> e.id, device |-> e.device]
  BY EntryIs DEF QueueInv, TypeInv, Queues
<1>3. \/ e \in Range(cache) /\ UNCHANGED <<cache, callbacks, db>>
      \/ /\ e \notin Range(cache)
         /\ cache' = Append(cache, e) /\ db' = cache'
         /\ callbacks' = IF FollowUp[e.id] # NoMessage THEN callbacks \union {e.id} ELSE callbacks
  BY DEF Add, SaveToDB
<1>4. cache' = db' /\ Range(db') \subseteq Range(db) \union {e}
  <2>1. Range(Append(cache, e)) = Range(cache) \union {e}
    BY <1>2, RangeOfAppend
  <2> QED BY <1>1, <1>3, <2>1
<1>5. IsInjective(db')
  <2>1. CASE UNCHANGED db
    BY <2>1 DEF QueueInv, Basics
  <2>2. CASE e \notin Range(db) /\ db' = Append(db, e)
    <3>1. db \in Seq(Entry) /\ IsInjective(db)
      BY <1>1, <1>2 DEF QueueInv, Basics
    <3> QED BY <2>2, <3>1 DEF IsInjective, Range
  <2> QED BY <1>1, <1>3, <2>1, <2>2
<1>6. Basics'
  BY <1>1, <1>4, <1>5 DEF QueueInv, Basics, Closed, Active
<1>7. Accepted'
  <2>1. AllValid'
    BY <1>1, <1>4 DEF QueueInv, Accepted, AllValid, Valid
  <2>2. \A m \in Messages : Main(m) \in adding' => Main(m) # e
    BY <1>1
  <2>3. \A m \in Messages : m \in fresh => Main(m) # e
    BY DEF QueueInv, Accepted, NewMain
  <2>4. NewMain'
    BY <1>1, <1>4, <2>2, <2>3 DEF QueueInv, Accepted, NewMain
  <2>5. FollowUp[e.id] # NoMessage => FollowUp[e.id] \in fresh
    <3> SUFFICES ASSUME FollowUp[e.id] # NoMessage PROVE FollowUp[e.id] \in fresh
      OBVIOUS
    <3>1. Valid(e) /\ Dest[e.id] \notin Contacts
      BY <1>2, FollowUpAssumption DEF QueueInv, Accepted, AllValid
    <3>2. e = Main(e.id)
      BY <1>2, <3>1 DEF Valid, Main
    <3>3. Main(e.id) \in adding
      BY <3>2
    <3> QED BY <1>2, <3>3 DEF QueueInv, Accepted, FollowUpsFresh
  <2>6. \A m \in Messages : m \in callbacks' => m \in callbacks \/ m = e.id
    BY <1>3
  <2>7. FollowUpsFresh'
    BY <1>1, <2>5, <2>6 DEF QueueInv, Accepted, FollowUpsFresh, Running
  <2>8. SyncAdding'
    BY <1>1 DEF QueueInv, Accepted, SyncAdding, Running
  <2> QED BY <2>1, <2>4, <2>7, <2>8 DEF Accepted
<1>8. \A d \in Devices :
        \/ ForDevice(cache', d) = ForDevice(cache, d)
        \/ /\ d = e.device /\ e \notin Range(cache)
           /\ ForDevice(cache', d) = Append(ForDevice(cache, d), e.id)
  <2> SUFFICES ASSUME NEW d \in Devices
               PROVE  \/ ForDevice(cache', d) = ForDevice(cache, d)
                      \/ /\ d = e.device /\ e \notin Range(cache)
                         /\ ForDevice(cache', d) = Append(ForDevice(cache, d), e.id)
    OBVIOUS
  <2>1. ForDevice(Append(cache, e), d) =
          IF e.device = d THEN Append(ForDevice(cache, d), e.id) ELSE ForDevice(cache, d)
    BY <1>2, ForDeviceAppend
  <2>2. CASE cache' = cache
    BY <2>2
  <2>3. CASE e \notin Range(cache) /\ cache' = Append(cache, e)
    BY <2>1, <2>3
  <2> QED BY <1>3, <2>2, <2>3
<1>9. ASSUME NEW d \in Devices, NEW s \in Seq(Messages), IsPrefix(s, ForDevice(cache, d))
      PROVE  IsPrefix(s, ForDevice(cache', d))
  <2>1. ForDevice(cache, d) \in Seq(Messages)
    BY <1>2, ForDeviceType
  <2>2. IsPrefix(s, Append(ForDevice(cache, d), e.id))
    BY <1>2, <1>9, <2>1, PrefixFacts
  <2> QED BY <1>8, <1>9, <2>2
<1>10. Order'
  <2>1. ASSUME NEW d \in Devices PROVE ChainInOrder(d)'
    <3>1. Pending(d)' = Pending(d) /\ IsPrefix(Pending(d), ForDevice(cache, d))
      BY <1>1 DEF Pending, QueueInv, Order, ChainInOrder
    <3>2. Pending(d) \in Seq(Messages)
      <4>1. jobs[d] \in Seq(Messages) /\ (phase[d] = "removed" => jobs[d] # <<>>)
        BY DEF QueueInv, TypeInv, Chains, Basics
      <4> QED BY <4>1 DEF Pending
    <3>3. IsPrefix(Pending(d)', ForDevice(cache', d))
      BY <1>9, <3>1, <3>2
    <3>4. ASSUME phase'[d] = "removed" PROVE Head(jobs'[d]) \notin Range(ForDevice(cache', d))
      <4> DEFINE h == Head(jobs[d])
      <4>1. phase[d] = "removed" /\ jobs'[d] = jobs[d] /\ jobs[d] # <<>>
        BY <1>1, <3>4 DEF QueueInv, Basics
      <4>2. h \notin Range(ForDevice(cache, d))
        BY <4>1 DEF QueueInv, Order, ChainInOrder
      <4>3. h \in Messages /\ h \in Range(jobs[d])
        <5>1. Running(d, h, "removed") /\ Chains
          BY <4>1 DEF Running, QueueInv, TypeInv
        <5> QED BY <5>1, RunningFacts
      <4>4. e # [id |-> h, device |-> d]
        <5> SUFFICES ASSUME e = [id |-> h, device |-> d] PROVE FALSE
          OBVIOUS
        <5>1. e.id = h /\ e.device = d /\ Valid(e)
          BY DEF QueueInv, Accepted, AllValid
        <5>2. CASE d = Dest[h]
          <6>1. Main(h) \in adding
            BY <5>2 DEF Main
          <6> QED BY <4>3, <5>2, <6>1 DEF QueueInv, Accepted, NewMain
        <5>3. CASE d = Us
          <6>1. SyncCopy(h) \in adding
            BY <5>3 DEF SyncCopy
          <6>2. Running(Dest[h], h, "syncing")
            BY <4>3, <6>1 DEF QueueInv, Accepted, SyncAdding
          <6>3. Active(Dest[h]) /\ Active(d) /\ Dest[h] \in Devices /\ Dest[h] # d
            BY <4>1, <4>3, <5>3, <6>2, EntryTypes DEF Running, Active
          <6> QED BY <6>3 DEF QueueInv, Basics
        <5> QED BY <5>1, <5>2, <5>3 DEF Valid
      <4>5. ForDevice(cache', d) = ForDevice(cache, d) \/
              (d = e.device /\ ForDevice(cache', d) = Append(ForDevice(cache, d), e.id))
        BY <1>8
      <4>6. d = e.device => e.id # h
        BY <1>2, <4>4
      <4>7. Range(Append(ForDevice(cache, d), e.id)) = Range(ForDevice(cache, d)) \union {e.id}
        BY <1>2, ForDeviceType, RangeOfAppend
      <4> QED BY <4>1, <4>2, <4>5, <4>6, <4>7
    <3> QED BY <3>3, <3>4 DEF ChainInOrder
  <2>2. ASSUME NEW c \in calls' PROVE ListInOrder(c)'
    <3>1. CASE c \in calls
      <4>1. c.device \in Devices /\ c.list \in Seq(Messages)
        BY <3>1, ReadCallType DEF QueueInv
      <4> QED BY <1>9, <3>1, <4>1 DEF QueueInv, Order, ListInOrder
    <3>2. CASE c = NewCall(e.id, e.device)
      BY <3>2 DEF ListInOrder, NewCall
    <3> QED BY <1>1, <3>1, <3>2
  <2>3. NoMessageForgotten'
    <3> SUFFICES ASSUME NEW x \in Range(cache')
                 PROVE  \/ x.id \in Range(jobs[x.device])
                        \/ \E c \in calls' : c.device = x.device /\ (~c.read \/ x.id \in Range(c.list))
      BY <1>1 DEF NoMessageForgotten
    <3>1. CASE x \in Range(cache)
      BY <1>1, <3>1 DEF QueueInv, Order, NoMessageForgotten
    <3>2. CASE x = e
      <4>1. NewCall(e.id, e.device) \in calls'
        BY <1>1
      <4> QED BY <3>2, <4>1 DEF NewCall
    <3> QED BY <1>1, <1>4, <3>1, <3>2
  <2> QED BY <2>1, <2>2, <2>3 DEF Order
<1> QED BY <1>6, <1>7, <1>10

LEMMA ReadPendingStep ==
  ASSUME QueueInv, NEW c \in calls, ReadPending(c)
  PROVE  (Basics /\ Accepted /\ Order)'
<1> DEFINE r == [by |-> c.by, device |-> c.device, read |-> TRUE,
                 list |-> ForDevice(cache, c.device)]
<1>1. /\ open /\ ~c.read /\ calls' = (calls \ {c}) \union {r}
      /\ UNCHANGED <<open, adding, cache, callbacks, jobs, phase, durable>>
  BY DEF ReadPending, QueueInv, Basics, Closed
<1>2. r.device = c.device /\ r.read /\ r.list = ForDevice(cache, c.device)
  OBVIOUS
<1>3. c.device \in Devices /\ ForDevice(cache, c.device) \in Seq(Messages) /\ cache \in Seq(Entry)
  BY ReadCallType DEF QueueInv, TypeInv, Queues
<1> HIDE DEF r
<1>4. Basics'
  BY <1>1 DEF durable, QueueInv, Basics, Closed, Active
<1>5. Accepted'
  BY <1>1 DEF durable, QueueInv, Accepted, AllValid, Valid, NewMain, FollowUpsFresh,
              SyncAdding, Running
<1>6. ASSUME NEW x \in calls' PROVE ListInOrder(x)'
  <2>1. CASE x \in calls
    BY <1>1, <2>1 DEF QueueInv, Order, ListInOrder
  <2>2. CASE x = r
    <3>1. IsPrefix(ForDevice(cache, c.device), ForDevice(cache, c.device))
      BY <1>3, PrefixIs
    <3> QED BY <1>1, <1>2, <2>2, <3>1 DEF ListInOrder
  <2> QED BY <1>1, <2>1, <2>2
<1>7. NoMessageForgotten'
  <2> SUFFICES ASSUME NEW e \in Range(cache)
               PROVE  \/ e.id \in Range(jobs[e.device])
                      \/ \E x \in calls' : x.device = e.device /\ (~x.read \/ e.id \in Range(x.list))
    BY <1>1 DEF NoMessageForgotten
  <2>1. CASE e.device = c.device
    <3>1. e \in Entry
      BY <1>3 DEF Range
    <3>2. [id |-> e.id, device |-> c.device] \in Range(cache)
      BY <2>1, <3>1, EntryIs
    <3>3. e.id \in Range(r.list)
      BY <1>2, <1>3, <3>2, ForDeviceType
    <3> QED BY <1>1, <1>2, <2>1, <3>3
  <2>2. CASE e.device # c.device
    BY <1>1, <2>2 DEF QueueInv, Order, NoMessageForgotten
  <2> QED BY <2>1, <2>2
<1>8. Order'
  <2>1. ASSUME NEW d \in Devices PROVE ChainInOrder(d)'
    BY <1>1 DEF QueueInv, Order, ChainInOrder, Pending
  <2> QED BY <1>6, <1>7, <2>1 DEF Order
<1> QED BY <1>4, <1>5, <1>8

LEMMA EnqueueJobsStep ==
  ASSUME QueueInv, NEW c \in calls, EnqueueJobs(c)
  PROVE  (Basics /\ Accepted /\ Order)'
<1> DEFINE d == c.device
           w == ForDevice(cache, d)
           chain == jobs[d] \o NewJobs(c.list, d)
<1>0. /\ cache \in Seq(Entry) /\ phase \in [Devices -> Phase] /\ jobs \in [Devices -> Seq(Messages)]
      /\ IsInjective(db)
  BY DEF QueueInv, TypeInv, Queues, Chains, Basics
<1>1. /\ open /\ cache = db /\ c.read /\ calls' = calls \ {c}
      /\ UNCHANGED <<open, adding, cache, callbacks, db, fresh>>
      /\ jobs' = [jobs EXCEPT ![d] = chain]
      /\ \/ jobs[d] = <<>> /\ phase' = [phase EXCEPT ![d] = IF chain = <<>> THEN "idle" ELSE "sending"]
         \/ jobs[d] # <<>> /\ phase' = phase
  BY DEF EnqueueJobs, StartNext, durable, QueueInv, Basics, Closed
<1>2. /\ d \in Devices /\ c.list \in Seq(Messages) /\ jobs[d] \in Seq(Messages)
      /\ w \in Seq(Messages) /\ IsInjective(w)
      /\ \A m : m \in Range(w) <=> [id |-> m, device |-> d] \in Range(cache)
  <2>1. d \in Devices /\ c.list \in Seq(Messages)
    BY ReadCallType DEF QueueInv
  <2> QED BY <1>0, <1>1, <2>1, ForDeviceType, ForDeviceInjective
<1>3. PICK R : /\ NewJobs(c.list, d) = Only(c.list, R)
               /\ NewJobs(c.list, d) \in Seq(Messages)
               /\ \A x \in Range(c.list) : x \in R <=> x \notin Range(jobs[d])
  BY <1>2, NewJobsFacts
<1>4. IsPrefix(c.list, w) /\ Range(c.list) \subseteq Range(w)
  BY <1>1, <1>2, PrefixFacts DEF QueueInv, Order, ListInOrder
<1>5. Range(NewJobs(c.list, d)) = Range(c.list) \ Range(jobs[d])
  <2>1. Range(Only(c.list, R)) = Range(c.list) \intersect R
    BY <1>2, OnlyRange
  <2> QED BY <1>3, <2>1
<1> HIDE DEF d, w
<1>6. chain \in Seq(Messages) /\ Range(chain) = Range(jobs[d]) \union Range(c.list)
  <2> DEFINE n == NewJobs(c.list, d)
  <2>1. n \in Seq(Messages)
    BY <1>3
  <2> HIDE DEF n
  <2>2. chain = jobs[d] \o n
    BY DEF n
  <2>3. \A s \in Seq(Messages), t \in Seq(Messages) :
          s \o t \in Seq(Messages) /\ Range(s \o t) = Range(s) \union Range(t)
    BY RangeConcatenation
  <2> QED BY <1>2, <1>5, <2>1, <2>2, <2>3 DEF n
<1>7. jobs[d] # <<>> => chain # <<>> /\ Head(chain) = Head(jobs[d])
                         /\ Tail(chain) = Tail(jobs[d]) \o NewJobs(c.list, d)
  <2> DEFINE n == NewJobs(c.list, d)
  <2>1. n \in Seq(Messages) /\ chain = jobs[d] \o n
    BY <1>3
  <2> HIDE DEF n, chain
  <2>2. ASSUME NEW t \in Seq(Messages), t # <<>>
        PROVE  t \o n # <<>> /\ Head(t \o n) = Head(t) /\ Tail(t \o n) = Tail(t) \o n
    BY <2>1, <2>2, HeadTailOfConcat
  <2> QED BY <1>2, <2>1, <2>2 DEF n
<1> HIDE DEF chain
<1>8. /\ jobs'[d] = chain /\ \A x \in Devices : x # d => jobs'[x] = jobs[x] /\ phase'[x] = phase[x]
      /\ jobs[d] # <<>> => phase'[d] = phase[d]
      /\ jobs[d] = <<>> => phase'[d] = IF chain = <<>> THEN "idle" ELSE "sending"
  BY <1>0, <1>1, <1>2
<1>9. \A x \in Devices : (Active(x)' => Active(x)) /\ (jobs'[x] = <<>> => phase'[x] = "idle")
  BY <1>7, <1>8 DEF Active, QueueInv, Basics
<1>10. Basics'
  BY <1>1, <1>9 DEF QueueInv, Basics, Closed
<1>11. ASSUME NEW n \in Messages, NEW p \in {"calling", "syncing"}
       PROVE  Running(Dest[n], n, p)' <=> Running(Dest[n], n, p)
  <2> DEFINE x == Dest[n]
  <2>0. x \in Devices
    BY EntryTypes
  <2>1. CASE x # d
    BY <1>8, <2>0, <2>1 DEF Running
  <2>2. CASE x = d /\ jobs[d] # <<>>
    BY <1>7, <1>8, <2>2 DEF Running
  <2>3. CASE x = d /\ jobs[d] = <<>>
    BY <1>8, <2>3 DEF Running
  <2> QED BY <2>1, <2>2, <2>3
<1>12. Accepted'
  <2>1. AllValid'
    BY <1>1 DEF QueueInv, Accepted, AllValid, Valid
  <2>2. ASSUME NEW m \in Messages, Main(m) \notin Range(db), m \notin Range(jobs[Dest[m]])
        PROVE  m \notin Range(jobs'[Dest[m]])
    <3>1. CASE Dest[m] = d
      <4>1. m \notin Range(w)
        BY <1>1, <1>2, <2>2, <3>1, EntryTypes
      <4> QED BY <1>4, <1>6, <1>8, <2>2, <3>1, <4>1
    <3>2. CASE Dest[m] # d
      BY <1>8, <2>2, <3>2, EntryTypes
    <3> QED BY <3>1, <3>2
  <2>3. NewMain'
    BY <1>1, <2>2 DEF QueueInv, Accepted, NewMain
  <2>4. FollowUpsFresh'
    BY <1>1, <1>11 DEF QueueInv, Accepted, FollowUpsFresh
  <2>5. SyncAdding'
    BY <1>1, <1>11 DEF QueueInv, Accepted, SyncAdding
  <2> QED BY <2>1, <2>3, <2>4, <2>5 DEF Accepted
<1>13. ASSUME NEW x \in Devices PROVE ChainInOrder(x)'
  <2>1. CASE x # d
    BY <1>1, <1>8, <2>1 DEF QueueInv, Order, ChainInOrder, Pending
  <2>2. CASE x = d /\ phase[d] # "removed"
    <3>1. phase'[d] # "removed" /\ Pending(d)' = chain
      BY <1>8, <2>2 DEF Pending
    <3>2. IsPrefix(jobs[d], w)
      BY <1>2, <2>2 DEF QueueInv, Order, ChainInOrder, Pending, w
    <3>3. IsPrefix(jobs[d] \o Only(c.list, R), w)
      BY <1>2, <1>3, <1>4, <3>2, PrefixesMerge
    <3>4. IsPrefix(chain, w)
      BY <1>3, <3>3 DEF chain
    <3> QED BY <1>1, <2>2, <3>1, <3>4 DEF ChainInOrder, w
  <2>3. CASE x = d /\ phase[d] = "removed"
    <3>1. jobs[d] # <<>> /\ phase'[d] = "removed" /\ Pending(d)' = Tail(chain)
      BY <1>2, <1>8, <2>3 DEF QueueInv, Basics, Pending
    <3>2. IsPrefix(Tail(jobs[d]), w) /\ Head(jobs[d]) \notin Range(w)
      BY <1>2, <2>3 DEF QueueInv, Order, ChainInOrder, Pending, w
    <3>3. Tail(jobs[d]) \in Seq(Messages)
          /\ \A y : y \in Range(jobs[d]) <=> y = Head(jobs[d]) \/ y \in Range(Tail(jobs[d]))
      <4>1. Running(d, Head(jobs[d]), "removed") /\ Chains
        BY <2>3, <3>1 DEF Running, QueueInv, TypeInv
      <4> QED BY <1>2, <4>1, RunningFacts
    <3>4. \A y \in Range(c.list) : y \in R <=> y \notin Range(Tail(jobs[d]))
      BY <1>3, <1>4, <3>2, <3>3
    <3>5. IsPrefix(Tail(jobs[d]) \o Only(c.list, R), w)
      BY <1>2, <1>4, <3>2, <3>3, <3>4, PrefixesMerge
    <3>6. IsPrefix(Tail(chain), w) /\ Head(chain) = Head(jobs[d])
      BY <1>3, <1>7, <3>1, <3>5
    <3> QED BY <1>1, <1>8, <2>3, <3>1, <3>2, <3>6 DEF ChainInOrder, w
  <2> QED BY <2>1, <2>2, <2>3
<1>14. NoMessageForgotten'
  <2> SUFFICES ASSUME NEW e \in Range(cache)
               PROVE  \/ e.id \in Range(jobs'[e.device])
                      \/ \E x \in calls' : x.device = e.device /\ (~x.read \/ e.id \in Range(x.list))
    BY <1>1 DEF NoMessageForgotten
  <2>1. e.device \in Devices
    <3>1. e \in Entry
      BY <1>0 DEF Range
    <3> QED BY <3>1, EntryIs
  <2>2. CASE e.id \in Range(jobs[e.device])
    BY <1>6, <1>8, <2>1, <2>2
  <2>3. CASE c.device = e.device /\ e.id \in Range(c.list)
    BY <1>6, <1>8, <2>3 DEF d
  <2>4. CASE \E x \in calls : x # c /\ x.device = e.device /\ (~x.read \/ e.id \in Range(x.list))
    BY <1>1, <2>4
  <2> QED BY <1>1, <2>2, <2>3, <2>4 DEF QueueInv, Order, NoMessageForgotten
<1>15. \A x \in calls' : ListInOrder(x)'
  BY <1>1 DEF QueueInv, Order, ListInOrder
<1> QED BY <1>10, <1>12, <1>13, <1>14, <1>15 DEF Order

LEMMA SendAttemptStep ==
  ASSUME QueueInv, NEW d \in Devices, NEW m \in Messages, SendAttempt(d, m)
  PROVE  (Basics /\ Accepted /\ Order)'
<1>1. /\ Running(d, m, "sending") /\ NoResult /\ adding = {}
      /\ UNCHANGED <<open, adding, cache, callbacks, calls, jobs, db, fresh>>
      /\ phase \in [Devices -> Phase] /\ phase[d] = "sending"
  BY DEF SendAttempt, Quiet, Running, QueueInv, TypeInv, Chains
<1>2. PICK q \in {"sending", "sent", "ending"} : phase' = [phase EXCEPT ![d] = q]
  <2>1. CASE Goto(d, "sent") \/ Goto(d, "ending")
    BY <2>1 DEF Goto
  <2>2. CASE UNCHANGED phase
    BY <1>1, <2>2
  <2> QED BY <2>1, <2>2 DEF SendAttempt
<1>3. Basics' /\ Order'
  BY <1>1, <1>2, PhaseStep DEF Phase
<1>4. ASSUME NEW n \in Messages PROVE Running(Dest[n], n, "calling")' <=> Running(Dest[n], n, "calling")
  BY <1>1, <1>2, SameRunning
<1>5. Accepted'
  BY <1>1, <1>4
     DEF QueueInv, Accepted, AllValid, Valid, NewMain, FollowUpsFresh, SyncAdding
<1> QED BY <1>3, <1>5

LEMMA SentSuccessStep ==
  ASSUME QueueInv, NEW d \in Devices, NEW m \in Messages, HandleMessageSentSuccess(d, m)
  PROVE  (Basics /\ Accepted /\ Order)'
<1>1. /\ Running(d, m, "sent") /\ phase \in [Devices -> Phase] /\ phase[d] = "sent"
      /\ UNCHANGED <<open, cache, callbacks, calls, jobs, db, fresh>>
  BY DEF HandleMessageSentSuccess, Running, QueueInv, TypeInv, Chains
<1>2. /\ d # Us => d = Dest[m]
  BY <1>1, RunningIsPending
<1>3. PICK q \in {"syncing", "handled"} :
        /\ phase' = [phase EXCEPT ![d] = q]
        /\ \/ q = "syncing" /\ d \in Contacts /\ adding' = adding \union {SyncCopy(m)}
           \/ adding' = adding
  BY DEF HandleMessageSentSuccess, ShouldTriggerSyncMessage, Goto
<1>4. Basics' /\ Order'
  BY <1>1, <1>3, PhaseStep DEF Phase
<1>5. ASSUME NEW n \in Messages PROVE Running(Dest[n], n, "calling")' <=> Running(Dest[n], n, "calling")
  BY <1>1, <1>3, SameRunning
<1>6. \A n \in Messages : SyncCopy(n) \notin adding
  <2> SUFFICES ASSUME NEW n \in Messages, SyncCopy(n) \in adding PROVE FALSE
    OBVIOUS
  <2>1. Running(Dest[n], n, "syncing") /\ Dest[n] \in Devices
    BY EntryTypes DEF QueueInv, Accepted, SyncAdding
  <2>2. Active(Dest[n]) /\ Active(d) /\ phase[Dest[n]] # phase[d]
    BY <1>1, <2>1 DEF Active, Running
  <2> QED BY <2>1, <2>2 DEF QueueInv, Basics
<1>7. CASE adding' = adding
  BY <1>1, <1>4, <1>5, <1>6, <1>7
     DEF QueueInv, Accepted, AllValid, Valid, NewMain, FollowUpsFresh, SyncAdding
<1>8. CASE q = "syncing" /\ d \in Contacts /\ adding' = adding \union {SyncCopy(m)}
  <2>1. d = Dest[m] /\ Dest[m] \in Contacts
    BY <1>2, <1>8, ContactAssumption
  <2>2. AllValid'
    BY <1>1, <1>8, <2>1, EntryTypes DEF QueueInv, Accepted, AllValid, Valid
  <2>3. \A n \in Messages : Main(n) \in adding' <=> Main(n) \in adding
    BY <1>8, EntryTypes
  <2>4. NewMain' /\ FollowUpsFresh'
    BY <1>1, <1>5, <2>3 DEF QueueInv, Accepted, NewMain, FollowUpsFresh
  <2>5. ASSUME NEW n \in Messages, SyncCopy(n) \in adding' PROVE Running(Dest[n], n, "syncing")'
    <3>1. SyncCopy(n) = SyncCopy(m)
      BY <1>6, <1>8, <2>5
    <3>2. n = m
      BY <3>1, EntryTypes
    <3> QED BY <1>1, <1>3, <1>8, <2>1, <3>2 DEF Running
  <2>6. SyncAdding'
    BY <2>5 DEF SyncAdding
  <2> QED BY <1>4, <2>2, <2>4, <2>6 DEF Accepted
<1> QED BY <1>3, <1>7, <1>8

LEMMA SyncMessageSentStep ==
  ASSUME QueueInv, NEW d \in Devices, NEW m \in Messages, SyncMessageSent(d, m)
  PROVE  (Basics /\ Accepted /\ Order)'
<1>1. /\ Running(d, m, "syncing") /\ phase \in [Devices -> Phase] /\ phase[d] = "syncing"
      /\ phase' = [phase EXCEPT ![d] = "handled"] /\ SyncCopy(m) \notin adding
      /\ UNCHANGED <<open, adding, cache, callbacks, calls, jobs, db, fresh>>
  BY DEF SyncMessageSent, Goto, Running, QueueInv, TypeInv, Chains
<1>2. Basics' /\ Order'
  BY <1>1, PhaseStep DEF Phase
<1>3. ASSUME NEW n \in Messages PROVE Running(Dest[n], n, "calling")' <=> Running(Dest[n], n, "calling")
  BY <1>1, SameRunning
<1>4. \A n \in Messages : SyncCopy(n) \notin adding
  <2> SUFFICES ASSUME NEW n \in Messages, SyncCopy(n) \in adding PROVE FALSE
    OBVIOUS
  <2>1. Running(Dest[n], n, "syncing") /\ Dest[n] \in Devices
    BY EntryTypes DEF QueueInv, Accepted, SyncAdding
  <2>2. Active(Dest[n]) /\ Active(d)
    BY <1>1, <2>1 DEF Active, Running
  <2>3. Dest[n] = d
    BY <2>1, <2>2 DEF QueueInv, Basics
  <2>4. n = m
    BY <1>1, <2>1, <2>3 DEF Running
  <2> QED BY <1>1, <2>4
<1>5. Accepted'
  BY <1>1, <1>3, <1>4
     DEF QueueInv, Accepted, AllValid, Valid, NewMain, FollowUpsFresh, SyncAdding
<1> QED BY <1>2, <1>5

LEMMA RunCallbackStep ==
  ASSUME QueueInv, NEW d \in Devices, NEW m \in Messages, RunCallback(d, m)
  PROVE  (Basics /\ Accepted /\ Order)'
<1>1. /\ Running(d, m, "handled") /\ phase \in [Devices -> Phase] /\ phase[d] = "handled"
      /\ UNCHANGED <<open, cache, callbacks, calls, jobs, db>>
  BY DEF RunCallback, Running, QueueInv, TypeInv, Chains
<1>2. PICK q \in {"calling", "ending"} :
        /\ phase' = [phase EXCEPT ![d] = q]
        /\ \/ q = "ending" /\ UNCHANGED <<adding, fresh>>
           \/ /\ q = "calling" /\ m \in callbacks
              /\ adding' = adding \union {Main(FollowUp[m])} /\ fresh' = fresh \ {FollowUp[m]}
  BY DEF RunCallback, Goto
<1>3. Basics' /\ Order'
  BY <1>1, <1>2, PhaseStep DEF Phase
<1>4. ASSUME NEW n \in Messages PROVE Running(Dest[n], n, "syncing")' <=> Running(Dest[n], n, "syncing")
  BY <1>1, <1>2, SameRunning
<1>5. CASE q = "ending" /\ UNCHANGED <<adding, fresh>>
  <2>1. ASSUME NEW n \in Messages PROVE Running(Dest[n], n, "calling")' <=> Running(Dest[n], n, "calling")
    BY <1>1, <1>2, <1>5, SameRunning
  <2> QED BY <1>1, <1>3, <1>4, <1>5, <2>1
          DEF QueueInv, Accepted, AllValid, Valid, NewMain, FollowUpsFresh, SyncAdding
<1>6. CASE /\ q = "calling" /\ m \in callbacks
           /\ adding' = adding \union {Main(FollowUp[m])} /\ fresh' = fresh \ {FollowUp[m]}
  <2> DEFINE f == FollowUp[m]
  <2>1. f # NoMessage /\ f \in Messages
    BY <1>6, EntryTypes DEF QueueInv, TypeInv, Queues
  <2>2. d = Dest[m] /\ m \in Range(jobs[d])
    BY <1>1, <2>1, RunningIsPending, RunningFacts DEF QueueInv, TypeInv
  <2>3. f \in fresh
    <3>1. ~Running(Dest[m], m, "calling")
      BY <1>1, <2>2 DEF Running
    <3> QED BY <1>6, <2>1, <3>1 DEF QueueInv, Accepted, FollowUpsFresh
  <2>4. m \notin fresh /\ Main(m) \notin adding
    BY <2>2 DEF QueueInv, Accepted, NewMain
  <2>5. \A n \in Messages : FollowUp[n] = f => n = m
    BY <2>1, FollowUpAssumption
  <2>6. f # m
    BY <2>3, <2>4
  <2> HIDE DEF f
  <2>7. Main(f) \in Entry /\ Main(f).id = f /\ Main(f).device = Dest[f]
        /\ \A n \in Messages : SyncCopy(n) # Main(f) /\ (Main(n) = Main(f) => n = f)
    BY <2>1, EntryTypes
  <2>8. adding' = adding \union {Main(f)} /\ fresh' = fresh \ {f}
    BY <1>6 DEF f
  <2>9. AllValid'
    BY <1>1, <2>7, <2>8 DEF QueueInv, Accepted, AllValid, Valid
  <2>10. NewMain'
    BY <1>1, <2>3, <2>7, <2>8 DEF QueueInv, Accepted, NewMain
  <2>11. ASSUME NEW n \in Messages, FollowUp[n] # NoMessage,
                n \in fresh' \/ Main(n) \in adding'
                  \/ (n \in callbacks' /\ ~Running(Dest[n], n, "calling")')
         PROVE  FollowUp[n] \in fresh'
    <3>1. n # m
      <4> SUFFICES ASSUME n = m PROVE FALSE
        OBVIOUS
      <4>1. n \notin fresh' /\ Main(n) \notin adding'
        BY <2>4, <2>6, <2>7, <2>8
      <4>2. Running(Dest[n], n, "calling")'
        BY <1>1, <1>2, <1>6, <2>2 DEF Running
      <4> QED BY <2>11, <4>1, <4>2
    <3>2. FollowUp[n] # f
      BY <2>5, <3>1
    <3>3. ~Running(Dest[n], n, "calling")' => ~Running(Dest[n], n, "calling")
      <4> SUFFICES ASSUME Running(Dest[n], n, "calling") PROVE Running(Dest[n], n, "calling")'
        OBVIOUS
      <4>1. Dest[n] # d /\ Dest[n] \in Devices
        BY <1>1, EntryTypes DEF Running
      <4> QED BY <1>1, <1>2, <4>1 DEF Running
    <3>4. n \in fresh \/ Main(n) \in adding \/ (n \in callbacks /\ ~Running(Dest[n], n, "calling"))
      BY <1>1, <2>3, <2>7, <2>8, <2>11, <3>3
    <3>5. FollowUp[n] \in fresh
      BY <2>11, <3>4 DEF QueueInv, Accepted, FollowUpsFresh
    <3> QED BY <2>8, <3>2, <3>5
  <2>12. FollowUpsFresh'
    BY <2>11 DEF FollowUpsFresh
  <2>13. SyncAdding'
    BY <1>4, <2>7, <2>8 DEF QueueInv, Accepted, SyncAdding
  <2> QED BY <1>3, <2>9, <2>10, <2>12, <2>13 DEF Accepted
<1> QED BY <1>2, <1>5, <1>6

LEMMA CallbackReturnsStep ==
  ASSUME QueueInv, NEW d \in Devices, NEW m \in Messages, CallbackReturns(d, m)
  PROVE  (Basics /\ Accepted /\ Order)'
<1>1. /\ Running(d, m, "calling") /\ phase \in [Devices -> Phase] /\ phase[d] = "calling"
      /\ phase' = [phase EXCEPT ![d] = "ending"] /\ callbacks' = callbacks \ {m}
      /\ UNCHANGED <<open, adding, cache, calls, jobs, db, fresh>>
  BY DEF CallbackReturns, durable, Goto, Running, QueueInv, TypeInv, Chains
<1>2. Basics' /\ Order'
  BY <1>1, PhaseStep DEF Phase
<1>3. ASSUME NEW n \in Messages PROVE Running(Dest[n], n, "syncing")' <=> Running(Dest[n], n, "syncing")
  BY <1>1, SameRunning
<1>4. ASSUME NEW n \in Messages, n # m PROVE ~Running(Dest[n], n, "calling")
  <2> SUFFICES ASSUME Running(Dest[n], n, "calling") PROVE FALSE
    OBVIOUS
  <2>1. Active(Dest[n]) /\ Active(d) /\ Dest[n] \in Devices
    BY <1>1, EntryTypes DEF Active, Running
  <2>2. Dest[n] = d
    BY <2>1 DEF QueueInv, Basics
  <2> QED BY <1>1, <1>4, <2>2 DEF Running
<1>5. FollowUpsFresh'
  BY <1>1, <1>4 DEF QueueInv, Accepted, FollowUpsFresh
<1>6. Accepted'
  BY <1>1, <1>3, <1>5 DEF QueueInv, Accepted, AllValid, Valid, NewMain, SyncAdding
<1> QED BY <1>2, <1>6

LEMMA RemoveMessageStep ==
  ASSUME QueueInv, NEW d \in Devices, NEW m \in Messages, RemoveMessage(d, m)
  PROVE  (Basics /\ Accepted /\ Order)'
<1> DEFINE e == [id |-> m, device |-> d]
<1>1. /\ Running(d, m, "ending") /\ phase \in [Devices -> Phase] /\ phase[d] = "ending"
      /\ phase' = [phase EXCEPT ![d] = "removed"] /\ callbacks' \subseteq callbacks
      /\ \A c \in calls : c.device = d => ~c.read
      /\ UNCHANGED <<open, adding, calls, jobs, fresh>>
  BY DEF RemoveMessage, Goto, Running, QueueInv, TypeInv, Chains
<1>2. /\ open /\ cache = db /\ e \in Range(db) /\ cache \in Seq(Entry) /\ IsInjective(cache)
      /\ Head(ForDevice(cache, d)) = m /\ ForDevice(cache, d) # <<>>
  BY <1>1, RunningIsPending DEF QueueInv, Basics, TypeInv, Queues
<1>3. cache' = Without(cache, e) /\ db' = cache'
  BY <1>2 DEF RemoveMessage, SaveToDB
<1>4. e \in Entry /\ e.id = m /\ e.device = d
  BY DEF Entry
<1> HIDE DEF e
<1>5. /\ cache' \in Seq(Entry) /\ Range(cache') = Range(cache) \ {e} /\ IsInjective(cache')
      /\ \A x \in Devices : x # d => ForDevice(cache', x) = ForDevice(cache, x)
      /\ ForDevice(cache', d) = Tail(ForDevice(cache, d))
  BY <1>2, <1>3, <1>4, WithoutFacts
<1>6. phase'[d] = "removed" /\ \A x \in Devices : x # d => phase'[x] = phase[x]
  BY <1>1
<1>7. Basics'
  <2>1. Active(d) /\ jobs[d] # <<>>
    BY <1>1 DEF Active, Running
  <2>2. \A x \in Devices : Active(x)' => Active(x)
    BY <1>6, <2>1 DEF Active
  <2>3. \A x, y \in Devices : Active(x)' /\ Active(y)' => x = y
    BY <2>2 DEF QueueInv, Basics
  <2>4. \A x \in Devices : jobs'[x] = <<>> => phase'[x] = "idle"
    BY <1>1, <1>6, <2>1 DEF QueueInv, Basics
  <2> QED BY <1>1, <1>2, <1>3, <1>5, <2>3, <2>4 DEF Basics, Closed
<1>8. Accepted'
  <2>1. Range(db') \subseteq Range(db)
    BY <1>2, <1>3, <1>5
  <2>2. ASSUME NEW n \in Messages
        PROVE  /\ Running(Dest[n], n, "calling")' <=> Running(Dest[n], n, "calling")
               /\ Running(Dest[n], n, "syncing")' <=> Running(Dest[n], n, "syncing")
    BY <1>1, SameRunning
  <2> QED BY <1>1, <2>1, <2>2
          DEF QueueInv, Accepted, AllValid, Valid, NewMain, FollowUpsFresh, SyncAdding
<1>9. ASSUME NEW x \in Devices PROVE ChainInOrder(x)'
  <2>1. CASE x # d
    BY <1>1, <1>5, <1>6, <2>1 DEF QueueInv, Order, ChainInOrder, Pending
  <2>2. CASE x = d
    <3> DEFINE w == ForDevice(cache, d)
    <3>1. jobs[d] \in Seq(Messages) /\ jobs[d] # <<>> /\ Head(jobs[d]) = m
      BY <1>1, RunningFacts DEF QueueInv, TypeInv
    <3>2. w \in Seq(Messages) /\ IsInjective(w) /\ Head(w) = m /\ w # <<>>
      BY <1>2, ForDeviceType, ForDeviceInjective
    <3>3. IsPrefix(jobs[d], w)
      BY <1>1 DEF QueueInv, Order, ChainInOrder, Pending
    <3> HIDE DEF w
    <3>4. IsPrefix(Tail(jobs[d]), Tail(w))
      BY <3>1, <3>2, <3>3, PrefixFacts
    <3>5. m \notin Range(Tail(w))
      <4> SUFFICES ASSUME NEW i \in DOMAIN Tail(w) PROVE Tail(w)[i] # m
        BY DEF Range
      <4>1. i + 1 \in DOMAIN w /\ 1 \in DOMAIN w /\ Tail(w)[i] = w[i + 1] /\ i + 1 # 1 /\ w[1] = m
        BY <3>2
      <4> QED BY <3>2, <4>1 DEF IsInjective
    <3>6. Pending(d)' = Tail(jobs[d])
      BY <1>1, <1>6 DEF Pending
    <3>7. ForDevice(cache', d) = Tail(w)
      BY <1>5 DEF w
    <3> QED BY <1>1, <2>2, <3>1, <3>4, <3>5, <3>6, <3>7 DEF ChainInOrder
  <2> QED BY <2>1, <2>2
<1>10. ASSUME NEW c \in calls' PROVE ListInOrder(c)'
  <2>1. c \in calls /\ c.device \in Devices
    BY <1>1, ReadCallType DEF QueueInv
  <2> QED BY <1>1, <1>5, <2>1 DEF QueueInv, Order, ListInOrder
<1>11. NoMessageForgotten'
  BY <1>1, <1>5 DEF QueueInv, Order, NoMessageForgotten
<1> QED BY <1>7, <1>8, <1>9, <1>10, <1>11 DEF Order

LEMMA SettleStep ==
  ASSUME QueueInv, NEW d \in Devices, NEW m \in Messages, Settle(d, m)
  PROVE  (Basics /\ Accepted /\ Order)'
<1> DEFINE t == Tail(jobs[d])
<1>1. /\ Running(d, m, "removed") /\ phase \in [Devices -> Phase] /\ phase[d] = "removed"
      /\ jobs \in [Devices -> Seq(Messages)]
      /\ jobs' = [jobs EXCEPT ![d] = t]
      /\ phase' = [phase EXCEPT ![d] = IF t = <<>> THEN "idle" ELSE "sending"]
      /\ UNCHANGED <<open, adding, cache, callbacks, calls, db, fresh>>
  BY DEF Settle, StartNext, durable, Running, QueueInv, TypeInv, Chains
<1>2. /\ jobs[d] # <<>> /\ Head(jobs[d]) = m /\ t \in Seq(Messages)
      /\ \A x : x \in Range(jobs[d]) <=> x = m \/ x \in Range(t)
  BY <1>1, RunningFacts DEF QueueInv, TypeInv
<1>3. open
  BY <1>1, <1>2 DEF QueueInv, Basics, Closed
<1> HIDE DEF t
<1>4. /\ jobs'[d] = t /\ phase'[d] = IF t = <<>> THEN "idle" ELSE "sending"
      /\ \A x \in Devices : x # d => jobs'[x] = jobs[x] /\ phase'[x] = phase[x]
  BY <1>1
<1>5. Basics'
  <2>1. \A x \in Devices : (Active(x)' => Active(x)) /\ (jobs'[x] = <<>> => phase'[x] = "idle")
    BY <1>4 DEF Active, QueueInv, Basics
  <2>2. \A x, y \in Devices : Active(x)' /\ Active(y)' => x = y
    BY <2>1 DEF QueueInv, Basics
  <2>3. cache' = db' /\ IsInjective(db') /\ open'
    BY <1>1, <1>3 DEF QueueInv, Basics
  <2> QED BY <2>1, <2>2, <2>3 DEF Basics, Closed
<1>6. ASSUME NEW n \in Messages, NEW p \in {"calling", "syncing"}
      PROVE  Running(Dest[n], n, p)' <=> Running(Dest[n], n, p)
  <2>1. Dest[n] \in Devices
    BY EntryTypes
  <2>2. CASE Dest[n] = d
    BY <1>1, <1>4, <2>2 DEF Running
  <2>3. CASE Dest[n] # d
    BY <1>4, <2>1, <2>3 DEF Running
  <2> QED BY <2>2, <2>3
<1>7. \A n \in Messages : Range(jobs'[Dest[n]]) \subseteq Range(jobs[Dest[n]])
  BY <1>2, <1>4, EntryTypes
<1>8. Accepted'
  BY <1>1, <1>6, <1>7
     DEF QueueInv, Accepted, AllValid, Valid, NewMain, FollowUpsFresh, SyncAdding
<1>9. ASSUME NEW x \in Devices PROVE ChainInOrder(x)'
  <2>1. CASE x # d
    BY <1>1, <1>4, <2>1 DEF QueueInv, Order, ChainInOrder, Pending
  <2>2. CASE x = d
    <3>1. Pending(d)' = Pending(d) /\ phase'[d] # "removed"
      BY <1>1, <1>4 DEF Pending, t
    <3> QED BY <1>1, <2>2, <3>1 DEF QueueInv, Order, ChainInOrder
  <2> QED BY <2>1, <2>2
<1>10. NoMessageForgotten'
  <2> SUFFICES ASSUME NEW e \in Range(cache)
               PROVE  \/ e.id \in Range(jobs'[e.device])
                      \/ \E c \in calls : c.device = e.device /\ (~c.read \/ e.id \in Range(c.list))
    BY <1>1 DEF NoMessageForgotten
  <2>1. e \in Entry /\ cache \in Seq(Entry)
    BY DEF Range, QueueInv, TypeInv, Queues
  <2>2. e.id \in Range(jobs[e.device])
          \/ \E c \in calls : c.device = e.device /\ (~c.read \/ e.id \in Range(c.list))
    BY DEF QueueInv, Order, NoMessageForgotten
  <2>3. CASE e.device # d
    BY <1>4, <2>1, <2>2, <2>3, EntryIs
  <2>4. CASE e.device = d
    <3>1. m \notin Range(ForDevice(cache, d))
      BY <1>1, <1>2 DEF QueueInv, Order, ChainInOrder
    <3>2. e.id # m
      BY <2>1, <2>4, <3>1, EntryIs, ForDeviceType
    <3> QED BY <1>2, <1>4, <2>2, <2>4, <3>2
  <2> QED BY <2>3, <2>4
<1>11. \A c \in calls' : ListInOrder(c)'
  BY <1>1 DEF QueueInv, Order, ListInOrder
<1> QED BY <1>5, <1>8, <1>9, <1>10, <1>11 DEF Order

\* Nothing runs: after the start, and after a kill.
LEMMA Restarted ==
  ASSUME AllValid, NewMain, FollowUpsFresh, IsInjective(db), adding' = {}, cache' = <<>>,
         callbacks' = {}, calls' = {}, jobs' = [d \in Devices |-> <<>>],
         phase' = [d \in Devices |-> "idle"], open' = FALSE, UNCHANGED <<db, fresh>>
  PROVE  (Basics /\ Accepted /\ Order)'
<1>1. Basics'
  BY DEF Basics, Closed, Active
<1>2. \A n \in Messages : jobs'[Dest[n]] = <<>>
  BY EntryTypes
<1>3. Accepted'
  BY <1>2 DEF Accepted, AllValid, Valid, NewMain, FollowUpsFresh, SyncAdding, Range
<1>4. ASSUME NEW d \in Devices PROVE ChainInOrder(d)'
  <2>1. <<>> \in Seq(Entry)
    OBVIOUS
  <2>2. ForDevice(cache', d) \in Seq(Messages)
    BY <2>1, ForDeviceType
  <2>3. IsPrefix(<<>>, ForDevice(cache', d))
    BY <2>2, EmptyPrefix
  <2> QED BY <2>3 DEF ChainInOrder, Pending
<1>5. NoMessageForgotten'
  BY DEF NoMessageForgotten, Range
<1> QED BY <1>1, <1>3, <1>4, <1>5 DEF Order

LEMMA QueueInit == Init => QueueInv
<1> SUFFICES ASSUME Init PROVE QueueInv
  OBVIOUS
<1>1. TypeInv
  BY TypeInit
<1>2. Basics
  BY DEF Init, Basics, Closed, Active, IsInjective
<1>3. \A n \in Messages : jobs[Dest[n]] = <<>>
  BY EntryTypes DEF Init
<1>4. AllValid /\ NewMain /\ SyncAdding
  BY <1>3 DEF Init, AllValid, NewMain, SyncAdding, Range
<1>5. FollowUpsFresh
  BY EntryTypes DEF Init, FollowUpsFresh
<1>6. ASSUME NEW d \in Devices PROVE ChainInOrder(d)
  <2>1. cache \in Seq(Entry)
    BY <1>1 DEF TypeInv, Queues
  <2>2. IsPrefix(<<>>, ForDevice(cache, d))
    BY <2>1, ForDeviceType, EmptyPrefix
  <2> QED BY <2>2 DEF Init, ChainInOrder, Pending
<1>7. NoMessageForgotten /\ \A c \in calls : ListInOrder(c)
  BY DEF Init, NoMessageForgotten, Range
<1> QED BY <1>1, <1>2, <1>4, <1>5, <1>6, <1>7 DEF QueueInv, Accepted, Order

LEMMA QueueStep ==
  ASSUME QueueInv, [Next]_vars
  PROVE  QueueInv'
<1>0. TypeInv'
  BY TypeStep DEF QueueInv
<1> SUFFICES (Basics /\ Accepted /\ Order)'
  BY <1>0 DEF QueueInv
<1>1. ASSUME UNCHANGED <<open, adding, cache, callbacks, calls, jobs, phase, db, fresh>>
      PROVE  (Basics /\ Accepted /\ Order)'
  BY <1>1 DEF QueueInv, Basics, Closed, Active, Accepted, AllValid, Valid, NewMain,
              FollowUpsFresh, SyncAdding, Running, Order, ChainInOrder, Pending, ListInOrder,
              NoMessageForgotten
<1>2. CASE \E m \in Messages : Send(m)
  BY <1>2, SendStep
<1>3. CASE \E e \in adding : Add(e)
  BY <1>3, AddStep
<1>4. CASE \E c \in calls : ReadPending(c) \/ EnqueueJobs(c)
  BY <1>4, ReadPendingStep, EnqueueJobsStep
<1>5. CASE \E e \in failing : HandleMessageSentFailure(e)
  BY <1>1, <1>5 DEF HandleMessageSentFailure
<1>6. CASE \E d \in Devices, m \in Messages :
             SendAttempt(d, m) \/ HandleMessageSentSuccess(d, m) \/ SyncMessageSent(d, m)
  BY <1>6, SendAttemptStep, SentSuccessStep, SyncMessageSentStep
<1>7. CASE \E d \in Devices, m \in Messages : RunCallback(d, m) \/ CallbackReturns(d, m)
  BY <1>7, RunCallbackStep, CallbackReturnsStep
<1>8. CASE \E d \in Devices, m \in Messages : RemoveMessage(d, m) \/ Settle(d, m)
  BY <1>8, RemoveMessageStep, SettleStep
<1>9. CASE Crash
  BY <1>9, Restarted DEF Crash, durable, QueueInv, Basics, Accepted
<1>10. CASE UNCHANGED vars
  BY <1>1, <1>10 DEF vars, volatile, durable
<1> QED BY <1>2, <1>3, <1>4, <1>5, <1>6, <1>7, <1>8, <1>9, <1>10 DEF Next, Microtask

-----------------------------------------------------------------------------
(* The theorems *)

\* QueueInv holds in every state.
THEOREM Invariance == Spec => []QueueInv
<1>1. Init => QueueInv
  BY QueueInit
<1>2. QueueInv /\ [Next]_vars => QueueInv'
  BY QueueStep
<1> QED BY <1>1, <1>2, PTL DEF Spec

\* Messages go out in the order they were accepted, each in one task, whichever calls of
\* processPending interleave with the end of a task (addWithId, has, remove).
THEOREM TasksFollow == Spec => []TasksFollowCache
<1>1. QueueInv => TasksFollowCache
  BY DEF QueueInv, Order, ChainInOrder, Pending, TasksFollowCache
<1> QED BY <1>1, Invariance, PTL

\* No pending message is left without a task, or a processPending that will see it.
THEOREM NoneForgotten == Spec => []NoMessageForgotten
<1>1. QueueInv => NoMessageForgotten
  BY DEF QueueInv, Order
<1> QED BY <1>1, Invariance, PTL

-----------------------------------------------------------------------------
(* The outbox *)

\* What the swarms store, as ReliableOutbox sees it.
InSwarms == UNION {{[id |-> m, device |-> d] : m \in swarm[d]} : d \in Devices}

\* The message of a chain's first task is the oldest of its device.
LEMMA RunningIsOldest ==
  ASSUME QueueInv, NEW d \in Devices, NEW m \in Messages, NEW p, Running(d, m, p), p # "removed"
  PROVE  Outbox!Oldest([id |-> m, device |-> d])
<1> DEFINE e == [id |-> m, device |-> d]
           u == Only(db, At(d))
<1>1. cache = db /\ db \in Seq(Entry) /\ Head(ForDevice(db, d)) = m /\ ForDevice(db, d) # <<>>
  BY RunningIsPending DEF QueueInv, TypeInv, Queues
<1>2. /\ u \in Seq(Entry) /\ ForDevice(db, d) = Names(u)
      /\ \A x : x \in Range(u) <=> x \in Range(db) /\ x.device = d
  BY <1>1, ForDeviceIs
<1>3. u # <<>> => \E i \in DOMAIN db : db[i] = Head(u) /\ \A j \in 1 .. i - 1 : db[j] \notin At(d)
  BY <1>1, OnlyFirst
<1> HIDE DEF u
<1>4. /\ Names(u) \in Seq(Messages) /\ Len(Names(u)) = Len(u)
      /\ \A i \in 1 .. Len(u) : Names(u)[i] = u[i].id
  BY <1>2, NamesType
<1>5. u # <<>> /\ 1 \in 1 .. Len(u) /\ Head(u) = u[1] /\ 1 \in DOMAIN u
  <2>1. Len(Names(u)) # 0
    BY <1>1, <1>2, <1>4
  <2> QED BY <1>2, <1>4, <2>1
<1>6. Names(u)[1] = m
  BY <1>1, <1>2, <1>4, <1>5
<1>7. Head(u) \in Entry /\ Head(u) \in Range(u) /\ Head(u).id = m
  BY <1>2, <1>4, <1>5, <1>6 DEF Range
<1>8. Head(u) = e
  BY <1>2, <1>7, EntryIs
<1>9. PICK i \in DOMAIN db : db[i] = e /\ \A j \in 1 .. i - 1 : db[j] \notin At(d)
  BY <1>3, <1>5, <1>8
<1>10. ASSUME NEW j \in 1 .. i - 1 PROVE db[j].device # e.device
  <2>1. j \in DOMAIN db
    BY <1>1, <1>9
  <2>2. db[j] \in Entry /\ db[j] \notin At(d)
    BY <1>1, <1>9, <2>1
  <2> QED BY <2>2 DEF At
<1> QED BY <1>9, <1>10 DEF Outbox!Oldest

\* The swarm of a device stores a message, or does not.
LEMMA SwarmStores ==
  ASSUME Records, NEW d \in Devices, NEW m \in Messages, NEW S \in SUBSET {m},
         swarm' = [swarm EXCEPT ![d] = @ \union S]
  PROVE  InSwarms' \in {InSwarms, InSwarms \union {[id |-> m, device |-> d]}}
<1> DEFINE e == [id |-> m, device |-> d]
<1>1. swarm'[d] = swarm[d] \union S /\ \A x \in Devices : x # d => swarm'[x] = swarm[x]
  BY DEF Records
<1>2. \A o : o \in InSwarms <=> \E x \in Devices : \E n \in swarm[x] : o = [id |-> n, device |-> x]
  BY DEF InSwarms
<1>3. \A o : o \in InSwarms' <=> \E x \in Devices : \E n \in swarm'[x] : o = [id |-> n, device |-> x]
  BY DEF InSwarms
<1>4. CASE S = {}
  <2>1. \A x \in Devices : swarm'[x] = swarm[x]
    BY <1>1, <1>4
  <2>2. \A o : o \in InSwarms' <=> o \in InSwarms
    BY <1>2, <1>3, <2>1
  <2> QED BY <2>2
<1>5. CASE S = {m}
  <2>1. ASSUME NEW o, o \in InSwarms' PROVE o \in InSwarms \/ o = e
    <3>1. PICK x \in Devices : \E n \in swarm'[x] : o = [id |-> n, device |-> x]
      BY <1>3, <2>1
    <3>2. PICK n \in swarm'[x] : o = [id |-> n, device |-> x]
      BY <3>1
    <3>3. n \in swarm[x] \/ (x = d /\ n = m)
      BY <1>1, <1>5, <3>2
    <3> QED BY <1>2, <3>2, <3>3
  <2>2. ASSUME NEW o, o \in InSwarms PROVE o \in InSwarms'
    <3>1. PICK x \in Devices : \E n \in swarm[x] : o = [id |-> n, device |-> x]
      BY <1>2, <2>2
    <3>2. \E n \in swarm'[x] : o = [id |-> n, device |-> x]
      BY <1>1, <3>1
    <3> QED BY <1>3, <3>2
  <2>3. e \in InSwarms'
    <3>1. m \in swarm'[d]
      BY <1>1, <1>5
    <3> QED BY <1>3, <3>1
  <2> HIDE DEF e
  <2>4. \A o : o \in InSwarms' <=> o \in InSwarms \/ o = e
    BY <2>1, <2>2, <2>3
  <2>5. InSwarms' = InSwarms \union {e}
    BY <2>4
  <2> QED BY <2>5 DEF e
<1> QED BY <1>4, <1>5

\* A step accepts a message, gives the swarm the oldest of a device, lets it go
\* once its task has ended, or leaves the outbox and the swarms alone.
LEMMA OutboxStep ==
  ASSUME QueueInv, [Next]_vars
  PROVE  [Outbox!Next]_<<db, InSwarms>>
<1>1. ASSUME UNCHANGED <<db, swarm>> PROVE [Outbox!Next]_<<db, InSwarms>>
  BY <1>1 DEF InSwarms
<1>2. ASSUME NEW e \in adding, Add(e) PROVE [Outbox!Next]_<<db, InSwarms>>
  <2>1. open /\ cache = db /\ e \in Entry
    BY <1>2 DEF QueueInv, TypeInv, Queues, Basics, Closed
  <2>2. UNCHANGED swarm
    BY <1>2 DEF Add
  <2>3. CASE UNCHANGED db
    BY <1>1, <2>2, <2>3
  <2>4. CASE e \notin Range(db) /\ db' = Append(db, e)
    <3>1. UNCHANGED InSwarms
      BY <2>2 DEF InSwarms
    <3>2. Outbox!Accept(e)
      BY <2>4, <3>1 DEF Outbox!Accept, Outbox!Range, Range, InSwarms
    <3> QED BY <2>1, <3>2 DEF Outbox!Next
  <2> QED BY <1>2, <2>1, <2>3, <2>4 DEF Add, SaveToDB
<1>3. ASSUME NEW d \in Devices, NEW m \in Messages, SendAttempt(d, m)
      PROVE  [Outbox!Next]_<<db, InSwarms>>
  <2> DEFINE e == [id |-> m, device |-> d]
  <2>1. Outbox!Oldest(e)
    BY <1>3, RunningIsOldest DEF SendAttempt
  <2>2. PICK S \in SUBSET {m} : swarm' = [swarm EXCEPT ![d] = @ \union S]
    BY <1>3 DEF SendAttempt
  <2>3. InSwarms' \in {InSwarms, InSwarms \union {e}}
    BY <2>2, SwarmStores DEF QueueInv, TypeInv
  <2>4. UNCHANGED db /\ e \in Entry
    BY <1>3 DEF SendAttempt, Entry
  <2> HIDE DEF e
  <2>5. CASE InSwarms' = InSwarms \union {e}
    <3>1. Outbox!Store(e)
      BY <2>1, <2>4, <2>5 DEF Outbox!Store, InSwarms
    <3> QED BY <2>4, <3>1 DEF Outbox!Next
  <2>6. CASE InSwarms' = InSwarms
    BY <2>4, <2>6
  <2> QED BY <2>3, <2>5, <2>6
<1>4. ASSUME NEW d \in Devices, NEW m \in Messages, RemoveMessage(d, m)
      PROVE  [Outbox!Next]_<<db, InSwarms>>
  <2> DEFINE e == [id |-> m, device |-> d]
  <2>1. Outbox!Oldest(e)
    BY <1>4, RunningIsOldest DEF RemoveMessage
  <2>2. cache = db /\ e \in Entry
    BY <1>4, RunningIsPending DEF RemoveMessage, Entry
  <2>3. UNCHANGED swarm
    BY <1>4 DEF RemoveMessage
  <2>4. db' = db \/ db' = Without(db, e)
    BY <1>4, <2>2 DEF RemoveMessage, SaveToDB
  <2> HIDE DEF e
  <2>5. CASE db' = Without(db, e)
    <3>1. Outbox!Release(e)
      BY <2>1, <2>3, <2>5 DEF Outbox!Release, Outbox!Filter, Outbox!Only, Without, Filter, Only
    <3> QED BY <2>2, <3>1 DEF Outbox!Next
  <2> QED BY <1>1, <2>3, <2>4, <2>5
<1>5. CASE \E m \in Messages : Send(m)
  BY <1>1, <1>5 DEF Send
<1>6. CASE \E c \in calls : ReadPending(c) \/ EnqueueJobs(c)
  BY <1>1, <1>6 DEF ReadPending, EnqueueJobs, durable
<1>7. CASE \E e \in failing : HandleMessageSentFailure(e)
  BY <1>1, <1>7 DEF HandleMessageSentFailure
<1>8. CASE \E d \in Devices, m \in Messages :
             \/ HandleMessageSentSuccess(d, m) \/ SyncMessageSent(d, m)
             \/ RunCallback(d, m) \/ CallbackReturns(d, m) \/ Settle(d, m)
  BY <1>1, <1>8 DEF HandleMessageSentSuccess, SyncMessageSent, RunCallback, CallbackReturns, Settle,
                    durable
<1>9. CASE Crash \/ UNCHANGED vars
  BY <1>1, <1>9 DEF Crash, vars, durable
<1> QED BY <1>2, <1>3, <1>4, <1>5, <1>6, <1>7, <1>8, <1>9 DEF Next, Microtask

\* The database item and the swarms implement the outbox: an accepted message stays until
\* its own task has ended, and only the oldest of a destination is ever given to the swarm,
\* whatever the network answers, whenever the process is killed (PendingMessageCache, JobQueue).
THEOREM Refinement == Spec => ImplementsReliableOutbox
<1>1. Init => Outbox!Init
  BY DEF Init, Outbox!Init
<1>2. QueueInv /\ [Next]_vars => [Outbox!Next]_<<db, InSwarms>>
  BY OutboxStep
<1> QED BY <1>1, <1>2, Invariance, PTL DEF Spec, ImplementsReliableOutbox, Outbox!Spec, InSwarms

-----------------------------------------------------------------------------
(* What follows a message *)

\* The task of m has handled the answer of the swarm, and has not removed m yet.
Late(d, m) == \E p \in {"handled", "calling", "ending"} : Running(d, m, p)

\* By then a private message is synced, flagged or failed ...
Told(m) ==
  Dest[m] \in Contacts /\ Late(Dest[m], m) =>
    row[m].synced \/ row[m].sentSync \/ row[m].failed \/ Main(m) \in failing

\* ... and a copy that could not be sent is about to lose its flag.
Flagged(m) ==
  Late(Us, m) /\ row[m].sentSync /\ ~row[m].synced => SyncCopy(m) \in failing

\* The copy that the task of m waits for is accepted, or about to be.
Copied(m) ==
  \A d \in Devices : Running(d, m, "syncing") =>
    d \in Contacts /\ SyncCopy(m) \in adding \union Range(db)

\* The message that the callback waits for is accepted, or about to be ...
Called(m) == Running(Dest[m], m, "calling") => FollowUp[m] \notin fresh

\* ... and a task that ends without the callback has failed.
Excused(m) ==
  Running(Dest[m], m, "ending") /\ m \in callbacks => row[m].failed \/ Main(m) \in failing

FollowInv ==
  \A m \in Messages : Told(m) /\ Flagged(m) /\ Copied(m) /\ Called(m) /\ Excused(m)

\* What FollowedUpBeforeForgotten says of a step.
FollowedUp ==
  \A m \in Messages :
    /\ SyncedBeforeForgotten(m) /\ CalledBeforeForgotten(m)
    /\ FlagIsTrue(m) => FlagIsTrue(m)' \/ (SyncCopy(m) \in failing /\ ~open')

Handling == {"syncing", "handled", "calling", "ending"}

\* One result is handled at a time, by one task.
LEMMA OneTask ==
  ASSUME QueueInv, NEW d \in Devices, NEW m, NEW p, Running(d, m, p), Active(d),
         NEW x \in Devices, NEW n, NEW q \in Handling, Running(x, n, q)
  PROVE  x = d /\ n = m /\ q = p
<1>1. Active(x)
  BY DEF Running, Active, Handling
<1>2. x = d
  BY <1>1 DEF QueueInv, Basics
<1> QED BY <1>2 DEF Running

\* After a task went on, it is the only one that handles a result.
LEMMA OneTaskGoesOn ==
  ASSUME QueueInv, NEW d \in Devices, NEW m, NEW p, Running(d, m, p), Active(d),
         NEW r, Goto(d, r), UNCHANGED jobs,
         NEW x \in Devices, NEW n, NEW q \in Handling, Running(x, n, q)'
  PROVE  x = d /\ n = m /\ q = r
<1>1. phase'[d] = r /\ \A y \in Devices : y # d => phase'[y] = phase[y]
  BY DEF Goto, QueueInv, TypeInv, Chains
<1>2. CASE x # d
  <2>1. Running(x, n, q)
    BY <1>1, <1>2 DEF Running
  <2> QED BY <1>2, <2>1, OneTask
<1>3. CASE x = d
  BY <1>1, <1>3 DEF Running
<1> QED BY <1>2, <1>3

\* Nothing begins to handle a result, and nothing is forgotten.
LEMMA FollowSteady ==
  ASSUME FollowInv,
         \A x \in Devices, n \in Messages, q \in Handling : Running(x, n, q)' => Running(x, n, q),
         UNCHANGED <<row, failing>>, fresh' \subseteq fresh, callbacks \subseteq callbacks',
         Range(db) \subseteq Range(db'), adding \subseteq adding' \union Range(db'),
         \A n \in Messages : Running(Dest[n], n, "ending") /\ n \in callbacks' => n \in callbacks
  PROVE  FollowInv' /\ FollowedUp
<1> SUFFICES ASSUME NEW m \in Messages
             PROVE  /\ (Told(m) /\ Flagged(m) /\ Copied(m) /\ Called(m) /\ Excused(m))'
                    /\ SyncedBeforeForgotten(m) /\ CalledBeforeForgotten(m)
                    /\ FlagIsTrue(m) => FlagIsTrue(m)'
  BY DEF FollowInv, FollowedUp
<1>1. Dest[m] \in Devices /\ Us \in Devices
  BY EntryTypes
<1>2. \A x \in Devices, q \in Handling : Running(x, m, q)' => Running(x, m, q)
  OBVIOUS
<1>3. \A x \in Devices : Late(x, m)' => Late(x, m)
  BY <1>2 DEF Late, Handling
<1>4. Told(m)'
  BY <1>1, <1>3 DEF FollowInv, Told
<1>5. Flagged(m)'
  BY <1>1, <1>3 DEF FollowInv, Flagged
<1>6. Copied(m)'
  BY <1>2 DEF FollowInv, Copied, Handling
<1>7. Called(m)'
  BY <1>1, <1>2 DEF FollowInv, Called, Handling
<1>8. Excused(m)'
  BY <1>1, <1>2 DEF FollowInv, Excused, Handling
<1>9. SyncedBeforeForgotten(m) /\ CalledBeforeForgotten(m) /\ (FlagIsTrue(m) => FlagIsTrue(m)')
  BY DEF SyncedBeforeForgotten, CalledBeforeForgotten, FlagIsTrue
<1> QED BY <1>4, <1>5, <1>6, <1>7, <1>8, <1>9

\* The steps that no task in hand takes.
LEMMA FollowCalmSteps ==
  ASSUME QueueInv, FollowInv,
         \/ \E m \in Messages : Send(m)
         \/ \E c \in calls : ReadPending(c) \/ EnqueueJobs(c)
         \/ \E d \in Devices, m \in Messages : Settle(d, m)
         \/ UNCHANGED vars
  PROVE  FollowInv' /\ FollowedUp
<1>1. /\ UNCHANGED <<row, failing, callbacks, db>> /\ fresh' \subseteq fresh
      /\ adding \subseteq adding'
  BY DEF Send, ReadPending, EnqueueJobs, Settle, vars, volatile, durable
<1>2. jobs \in [Devices -> Seq(Messages)] /\ phase \in [Devices -> Phase]
  BY DEF QueueInv, TypeInv, Chains
<1>3. \/ UNCHANGED <<jobs, phase>>
      \/ \E d \in Devices, chain \in Seq(Messages) :
           /\ jobs' = [jobs EXCEPT ![d] = chain]
           /\ \/ phase' = [phase EXCEPT ![d] = IF chain = <<>> THEN "idle" ELSE "sending"]
              \/ jobs[d] # <<>> /\ chain # <<>> /\ Head(chain) = Head(jobs[d]) /\ UNCHANGED phase
  <2>1. CASE \E c \in calls : EnqueueJobs(c)
    <3>1. PICK c \in calls : EnqueueJobs(c)
      BY <2>1
    <3> DEFINE d == c.device
               l == NewJobs(c.list, d)
               chain == jobs[d] \o l
    <3>2. d \in Devices /\ c.list \in Seq(Messages) /\ jobs[d] \in Seq(Messages)
      BY <1>2, ReadCallType DEF QueueInv
    <3>3. l \in Seq(Messages)
      BY <3>2, NewJobsFacts
    <3>4. \/ StartNext(d, chain)
          \/ jobs[d] # <<>> /\ jobs' = [jobs EXCEPT ![d] = chain] /\ UNCHANGED phase
      BY <3>1 DEF EnqueueJobs
    <3> HIDE DEF d, l
    <3>5. /\ chain \in Seq(Messages)
          /\ jobs[d] # <<>> => chain # <<>> /\ Head(chain) = Head(jobs[d])
      BY <3>2, <3>3, HeadTailOfConcat
    <3> HIDE DEF chain
    <3> QED BY <3>2, <3>4, <3>5 DEF StartNext
  <2>2. CASE \E d \in Devices, m \in Messages : Settle(d, m)
    <3>1. PICK d \in Devices, m \in Messages : Settle(d, m)
      BY <2>2
    <3>2. Tail(jobs[d]) \in Seq(Messages)
      BY <3>1, RunningFacts DEF Settle, QueueInv, TypeInv
    <3> QED BY <3>1, <3>2 DEF Settle, StartNext
  <2>3. CASE (\E m \in Messages : Send(m)) \/ (\E c \in calls : ReadPending(c)) \/ UNCHANGED vars
    BY <2>3 DEF Send, ReadPending, vars, volatile
  <2> QED BY <2>1, <2>2, <2>3
<1>4. ASSUME NEW x \in Devices, NEW n \in Messages, NEW q \in Handling, Running(x, n, q)'
      PROVE  Running(x, n, q)
  <2>1. CASE UNCHANGED <<jobs, phase>>
    BY <1>4, <2>1 DEF Running
  <2>2. ASSUME NEW d \in Devices, NEW chain \in Seq(Messages),
               jobs' = [jobs EXCEPT ![d] = chain],
               phase' = [phase EXCEPT ![d] = IF chain = <<>> THEN "idle" ELSE "sending"]
        PROVE  Running(x, n, q)
    BY <1>2, <1>4, <2>2 DEF Running, Handling
  <2>3. ASSUME NEW d \in Devices, NEW chain \in Seq(Messages),
               jobs' = [jobs EXCEPT ![d] = chain], jobs[d] # <<>>, chain # <<>>,
               Head(chain) = Head(jobs[d]), UNCHANGED phase
        PROVE  Running(x, n, q)
    BY <1>2, <1>4, <2>3 DEF Running
  <2> QED BY <1>3, <2>1, <2>2, <2>3
<1> QED BY <1>1, <1>4, FollowSteady

LEMMA FollowAddStep ==
  ASSUME QueueInv, FollowInv, NEW e \in adding, Add(e)
  PROVE  FollowInv' /\ FollowedUp
<1>1. /\ adding' = adding \ {e} /\ UNCHANGED <<jobs, phase, row, failing, fresh>>
      /\ e \in Entry /\ db \in Seq(Entry) /\ cache = db /\ e.id \in Messages
  BY EntryIs DEF Add, QueueInv, TypeInv, Queues, Basics, Closed
<1>2. \/ e \in Range(db) /\ UNCHANGED <<callbacks, db>>
      \/ /\ db' = Append(db, e)
         /\ callbacks' = IF FollowUp[e.id] # NoMessage THEN callbacks \union {e.id} ELSE callbacks
  BY <1>1 DEF Add, SaveToDB
<1>3. Range(db') = Range(db) \union {e}
  <2>1. Range(Append(db, e)) = Range(db) \union {e}
    BY <1>1, RangeOfAppend
  <2> QED BY <1>2, <2>1
<1>4. ASSUME NEW n \in Messages, Running(Dest[n], n, "ending"), n \in callbacks' PROVE n \in callbacks
  <2> SUFFICES ASSUME n \notin callbacks PROVE FALSE
    OBVIOUS
  <2>1. n = e.id /\ FollowUp[n] # NoMessage
    BY <1>2, <1>4
  <2>2. Valid(e) /\ Dest[e.id] \notin Contacts
    BY <1>1, <2>1, FollowUpAssumption DEF QueueInv, Accepted, AllValid
  <2>3. e = Main(n)
    BY <1>1, <2>1, <2>2, EntryIs DEF Valid, Main
  <2>4. n \notin Range(jobs[Dest[n]])
    BY <2>3 DEF QueueInv, Accepted, NewMain
  <2>5. Dest[n] \in Devices /\ Chains
    BY EntryTypes DEF QueueInv, TypeInv
  <2> QED BY <1>4, <2>4, <2>5, RunningFacts
<1>5. callbacks \subseteq callbacks'
  BY <1>2
<1> QED BY <1>1, <1>3, <1>4, <1>5, FollowSteady DEF Running

\* handleMessageSentFailure marks the message as failed; for a copy, it takes the flag back.
LEMMA FollowFailureStep ==
  ASSUME QueueInv, FollowInv, NEW e \in failing, HandleMessageSentFailure(e)
  PROVE  FollowInv' /\ FollowedUp
<1>1. /\ failing' = failing \ {e} /\ UNCHANGED <<adding, callbacks, jobs, phase, db, fresh>>
      /\ e \in Entry /\ e.id \in Messages /\ e = [id |-> e.id, device |-> e.device]
      /\ row \in [Messages -> Row]
      /\ row' = [row EXCEPT ![e.id].failed = TRUE, ![e.id].sentSync = @ /\ e.device # Us]
  BY EntryIs DEF HandleMessageSentFailure, QueueInv, TypeInv, Queues, Records
<1>2. /\ row'[e.id].failed /\ row'[e.id].synced = row[e.id].synced
      /\ row'[e.id].sentSync = (row[e.id].sentSync /\ e.device # Us)
  BY <1>1 DEF Row
<1>3. \A m \in Messages : m # e.id => row'[m] = row[m]
  BY <1>1
<1> SUFFICES ASSUME NEW m \in Messages
             PROVE  /\ (Told(m) /\ Flagged(m) /\ Copied(m) /\ Called(m) /\ Excused(m))'
                    /\ SyncedBeforeForgotten(m) /\ CalledBeforeForgotten(m)
                    /\ FlagIsTrue(m) => FlagIsTrue(m)'
  BY DEF FollowInv, FollowedUp
<1>4. \A x, q : Running(x, m, q)' <=> Running(x, m, q)
  BY <1>1 DEF Running
<1>5. \A x : Late(x, m)' <=> Late(x, m)
  BY <1>4 DEF Late
<1>6. m # e.id => Main(m) # e /\ SyncCopy(m) # e
  BY EntryTypes
<1>7. row'[m].sentSync /\ ~row'[m].synced =>
        SyncCopy(m) # e /\ row[m].sentSync /\ ~row[m].synced
  <2>1. CASE m = e.id
    BY <1>2, <2>1, EntryTypes
  <2>2. CASE m # e.id
    BY <1>3, <1>6, <2>2
  <2> QED BY <2>1, <2>2
<1>8. row[m].failed \/ Main(m) \in failing => row'[m].failed \/ Main(m) \in failing'
  BY <1>1, <1>2, <1>3, <1>6
<1>9. Told(m)'
  <2>1. CASE m = e.id
    BY <1>2, <2>1 DEF Told
  <2>2. CASE m # e.id
    BY <1>1, <1>3, <1>5, <1>6, <2>2 DEF FollowInv, Told
  <2> QED BY <2>1, <2>2
<1>10. Flagged(m)'
  BY <1>1, <1>5, <1>7 DEF FollowInv, Flagged
<1>11. Copied(m)' /\ Called(m)'
  BY <1>1, <1>4 DEF FollowInv, Copied, Called
<1>12. Excused(m)'
  BY <1>1, <1>4, <1>8 DEF FollowInv, Excused
<1>13. SyncedBeforeForgotten(m) /\ CalledBeforeForgotten(m)
  BY <1>1 DEF SyncedBeforeForgotten, CalledBeforeForgotten
<1>14. FlagIsTrue(m) => FlagIsTrue(m)'
  BY <1>1, <1>7 DEF FlagIsTrue
<1> QED BY <1>9, <1>10, <1>11, <1>12, <1>13, <1>14

LEMMA FollowAttemptStep ==
  ASSUME QueueInv, FollowInv, NEW d \in Devices, NEW m \in Messages, SendAttempt(d, m)
  PROVE  FollowInv' /\ FollowedUp
<1> DEFINE e == [id |-> m, device |-> d]
<1>1. /\ Running(d, m, "sending") /\ UNCHANGED <<adding, callbacks, jobs, db, row, fresh>>
      /\ phase \in [Devices -> Phase] /\ failing \subseteq failing'
      /\ \/ UNCHANGED phase
         \/ phase' = [phase EXCEPT ![d] = "sent"]
         \/ phase' = [phase EXCEPT ![d] = "ending"] /\ e \in failing'
  BY DEF SendAttempt, Goto, QueueInv, TypeInv, Chains
<1> HIDE DEF e
<1>2. ASSUME NEW x \in Devices, NEW n \in Messages, NEW q \in Handling, Running(x, n, q)'
      PROVE  Running(x, n, q) \/ (x = d /\ n = m /\ q = "ending" /\ e \in failing')
  <2>1. CASE x = d
    BY <1>1, <1>2, <2>1 DEF Running, Handling
  <2>2. CASE x # d
    BY <1>1, <1>2, <2>2 DEF Running
  <2> QED BY <2>1, <2>2
<1> SUFFICES ASSUME NEW n \in Messages
             PROVE  /\ (Told(n) /\ Flagged(n) /\ Copied(n) /\ Called(n) /\ Excused(n))'
                    /\ SyncedBeforeForgotten(n) /\ CalledBeforeForgotten(n)
                    /\ FlagIsTrue(n) => FlagIsTrue(n)'
  BY DEF FollowInv, FollowedUp
<1>3. Dest[n] \in Devices /\ Us \in Devices
  BY EntryTypes
<1>4. ASSUME NEW x \in Devices, Late(x, n)'
      PROVE  Late(x, n) \/ (x = d /\ n = m /\ e \in failing')
  BY <1>2, <1>4 DEF Late, Handling
<1>5. Told(n)'
  <2>1. CASE Late(Dest[n], n)
    BY <1>1, <2>1 DEF FollowInv, Told
  <2>2. CASE Dest[n] = d /\ n = m /\ e \in failing'
    BY <2>2 DEF Told, Main, e
  <2> QED BY <1>3, <1>4, <2>1, <2>2 DEF Told
<1>6. Flagged(n)'
  <2>1. CASE Late(Us, n)
    BY <1>1, <2>1 DEF FollowInv, Flagged
  <2>2. CASE Us = d /\ n = m /\ e \in failing'
    BY <2>2 DEF Flagged, SyncCopy, e
  <2> QED BY <1>3, <1>4, <2>1, <2>2 DEF Flagged
<1>7. Copied(n)'
  BY <1>1, <1>2 DEF FollowInv, Copied, Handling
<1>8. Called(n)'
  BY <1>1, <1>2, <1>3 DEF FollowInv, Called, Handling
<1>9. Excused(n)'
  <2>1. CASE Running(Dest[n], n, "ending")
    BY <1>1, <2>1 DEF FollowInv, Excused
  <2>2. CASE Dest[n] = d /\ n = m /\ e \in failing'
    BY <2>2 DEF Excused, Main, e
  <2> QED BY <1>2, <1>3, <2>1, <2>2 DEF Excused, Handling
<1>10. SyncedBeforeForgotten(n) /\ CalledBeforeForgotten(n) /\ (FlagIsTrue(n) => FlagIsTrue(n)')
  BY <1>1 DEF SyncedBeforeForgotten, CalledBeforeForgotten, FlagIsTrue
<1> QED BY <1>5, <1>6, <1>7, <1>8, <1>9, <1>10

\* The task of m goes from p to r: what FollowInv says of any other phase is void.
LEMMA FollowGoesOn ==
  ASSUME QueueInv, NEW d \in Devices, NEW m \in Messages, NEW p, Running(d, m, p), Active(d),
         NEW r, Goto(d, r), UNCHANGED jobs,
         NEW n \in Messages
  PROVE  /\ \A x \in Devices : Late(x, n)' => x = d /\ n = m /\ r \in {"handled", "calling", "ending"}
         /\ \A x \in Devices : Running(x, n, "syncing")' => x = d /\ n = m /\ r = "syncing"
         /\ Running(Dest[n], n, "calling")' => Dest[n] = d /\ n = m /\ r = "calling"
         /\ Running(Dest[n], n, "ending")' => Dest[n] = d /\ n = m /\ r = "ending"
<1>1. Dest[n] \in Devices
  BY EntryTypes
<1>2. ASSUME NEW x \in Devices, NEW q \in Handling, Running(x, n, q)'
      PROVE  x = d /\ n = m /\ q = r
  BY <1>2, OneTaskGoesOn
<1>3. ASSUME NEW x \in Devices, Late(x, n)'
      PROVE  x = d /\ n = m /\ r \in {"handled", "calling", "ending"}
  <2>1. PICK q \in {"handled", "calling", "ending"} : Running(x, n, q)'
    BY <1>3 DEF Late
  <2> QED BY <1>2, <2>1 DEF Handling
<1> QED BY <1>1, <1>2, <1>3 DEF Handling

LEMMA FollowSuccessStep ==
  ASSUME QueueInv, FollowInv, NEW d \in Devices, NEW m \in Messages, HandleMessageSentSuccess(d, m)
  PROVE  FollowInv' /\ FollowedUp
<1>1. /\ Running(d, m, "sent") /\ Active(d) /\ UNCHANGED <<callbacks, jobs, failing, db, fresh>>
      /\ row \in [Messages -> Row]
  BY DEF HandleMessageSentSuccess, Running, Active, QueueInv, TypeInv, Records
<1>2. PICK r \in {"syncing", "handled"} :
        /\ Goto(d, r)
        /\ \/ /\ r = "syncing" /\ ShouldTriggerSyncMessage(d, m)
              /\ adding' = adding \union {SyncCopy(m)} /\ UNCHANGED row
           \/ /\ r = "handled" /\ ~ShouldTriggerSyncMessage(d, m) /\ UNCHANGED adding
              /\ row' = IF d = Us /\ row[m].sentSync THEN [row EXCEPT ![m].synced = TRUE] ELSE row
  BY DEF HandleMessageSentSuccess
<1>3. ASSUME NEW n \in Messages
      PROVE  /\ row'[n].sentSync = row[n].sentSync /\ row'[n].failed = row[n].failed
             /\ row[n].synced => row'[n].synced
             /\ r = "handled" /\ d = Us /\ row[m].sentSync => row'[m].synced
  <2>1. CASE UNCHANGED row /\ ~(r = "handled" /\ d = Us /\ row[m].sentSync)
    BY <2>1
  <2>2. CASE row' = [row EXCEPT ![m].synced = TRUE]
    BY <1>1, <2>2 DEF Row
  <2> QED BY <1>2, <2>1, <2>2
<1> SUFFICES ASSUME NEW n \in Messages
             PROVE  /\ (Told(n) /\ Flagged(n) /\ Copied(n) /\ Called(n) /\ Excused(n))'
                    /\ SyncedBeforeForgotten(n) /\ CalledBeforeForgotten(n)
                    /\ FlagIsTrue(n) => FlagIsTrue(n)'
  BY DEF FollowInv, FollowedUp
<1>4. /\ \A x \in Devices : Late(x, n)' => x = d /\ n = m /\ r = "handled"
      /\ \A x \in Devices : Running(x, n, "syncing")' => x = d /\ n = m /\ r = "syncing"
      /\ ~Running(Dest[n], n, "calling")' /\ ~Running(Dest[n], n, "ending")'
  BY <1>1, <1>2, FollowGoesOn
<1>5. Dest[n] \in Devices /\ Us \in Devices /\ Dest[n] # Us
  BY EntryTypes
<1>6. Told(n)'
  <2> SUFFICES ASSUME Dest[n] \in Contacts, Late(Dest[n], n)' PROVE row'[n].synced \/ row'[n].sentSync
    BY DEF Told
  <2>1. Dest[n] = d /\ n = m /\ r = "handled"
    BY <1>4, <1>5
  <2>2. row[n].synced \/ row[n].sentSync
    BY <1>2, <2>1 DEF ShouldTriggerSyncMessage
  <2> QED BY <1>3, <2>2
<1>7. Flagged(n)'
  BY <1>3, <1>4, <1>5 DEF Flagged
<1>8. Copied(n)'
  BY <1>2, <1>4 DEF Copied, ShouldTriggerSyncMessage
<1>9. Called(n)' /\ Excused(n)'
  BY <1>4 DEF Called, Excused
<1>10. SyncedBeforeForgotten(n) /\ CalledBeforeForgotten(n)
  BY <1>1 DEF SyncedBeforeForgotten, CalledBeforeForgotten
<1>11. FlagIsTrue(n) => FlagIsTrue(n)'
  BY <1>1, <1>3 DEF FlagIsTrue
<1> QED BY <1>6, <1>7, <1>8, <1>9, <1>10, <1>11

\* The message is flagged once its copy is in the outbox.
LEMMA FollowSyncedStep ==
  ASSUME QueueInv, FollowInv, NEW d \in Devices, NEW m \in Messages, SyncMessageSent(d, m)
  PROVE  FollowInv' /\ FollowedUp
<1>1. /\ Running(d, m, "syncing") /\ Active(d) /\ Goto(d, "handled") /\ SyncCopy(m) \notin adding
      /\ UNCHANGED <<adding, callbacks, jobs, failing, db, fresh>>
      /\ row \in [Messages -> Row] /\ row' = [row EXCEPT ![m].sentSync = TRUE]
  BY DEF SyncMessageSent, Running, Active, QueueInv, TypeInv, Records
<1>2. d \in Contacts /\ SyncCopy(m) \in Range(db)
  BY <1>1 DEF FollowInv, Copied
<1>3. row'[m].sentSync /\ \A n \in Messages : n # m => row'[n] = row[n]
  BY <1>1 DEF Row
<1> SUFFICES ASSUME NEW n \in Messages
             PROVE  /\ (Told(n) /\ Flagged(n) /\ Copied(n) /\ Called(n) /\ Excused(n))'
                    /\ SyncedBeforeForgotten(n) /\ CalledBeforeForgotten(n)
                    /\ FlagIsTrue(n) => FlagIsTrue(n)'
  BY DEF FollowInv, FollowedUp
<1>4. /\ \A x \in Devices : Late(x, n)' => x = d /\ n = m
      /\ \A x \in Devices : ~Running(x, n, "syncing")'
      /\ ~Running(Dest[n], n, "calling")' /\ ~Running(Dest[n], n, "ending")'
  BY <1>1, FollowGoesOn
<1>5. Dest[n] \in Devices /\ Us \in Devices /\ d # Us
  BY <1>2, EntryTypes, ContactAssumption
<1>6. Told(n)' /\ Flagged(n)' /\ Copied(n)' /\ Called(n)' /\ Excused(n)'
  BY <1>3, <1>4, <1>5 DEF Told, Flagged, Copied, Called, Excused
<1>7. SyncedBeforeForgotten(n) /\ CalledBeforeForgotten(n)
  BY <1>1 DEF SyncedBeforeForgotten, CalledBeforeForgotten
<1>8. FlagIsTrue(n) => FlagIsTrue(n)'
  BY <1>1, <1>2, <1>3 DEF FlagIsTrue
<1> QED BY <1>6, <1>7, <1>8

\* The callback begins, is done, or the task ends without it.
LEMMA FollowCallbackSteps ==
  ASSUME QueueInv, FollowInv, NEW d \in Devices, NEW m \in Messages,
         RunCallback(d, m) \/ CallbackReturns(d, m)
  PROVE  FollowInv' /\ FollowedUp
<1> DEFINE e == [id |-> m, device |-> d]
<1>1. /\ Active(d) /\ Late(d, m) /\ UNCHANGED <<jobs, row, db>> /\ failing \subseteq failing'
  BY DEF RunCallback, CallbackReturns, durable, Running, Active, Late
<1>2. PICK p \in {"handled", "calling"}, r \in {"calling", "ending"} :
        /\ Running(d, m, p) /\ Goto(d, r)
        /\ \/ /\ UNCHANGED <<callbacks, fresh>>
              /\ r = "ending" => m \notin callbacks \/ e \in failing'
              /\ r = "ending"
           \/ UNCHANGED callbacks /\ fresh' = fresh \ {FollowUp[m]} /\ r = "calling"
           \/ /\ p = "calling" /\ r = "ending"
              /\ UNCHANGED fresh /\ callbacks' = callbacks \ {m}
  BY DEF RunCallback, CallbackReturns, durable
<1> HIDE DEF e
<1>3. ASSUME m \in callbacks \ callbacks' PROVE FollowUp[m] \notin fresh'
  <2>1. FollowUp[m] # NoMessage /\ p = "calling" /\ fresh' = fresh
    BY <1>2, <1>3 DEF QueueInv, TypeInv, Queues
  <2>2. d = Dest[m]
    BY <1>2, <2>1, RunningIsPending
  <2> QED BY <1>2, <2>1, <2>2 DEF FollowInv, Called
<1> SUFFICES ASSUME NEW n \in Messages
             PROVE  /\ (Told(n) /\ Flagged(n) /\ Copied(n) /\ Called(n) /\ Excused(n))'
                    /\ SyncedBeforeForgotten(n) /\ CalledBeforeForgotten(n)
                    /\ FlagIsTrue(n) => FlagIsTrue(n)'
  BY DEF FollowInv, FollowedUp
<1>4. /\ \A x \in Devices : Late(x, n)' => x = d /\ n = m
      /\ \A x \in Devices : ~Running(x, n, "syncing")'
      /\ Running(Dest[n], n, "calling")' => Dest[n] = d /\ n = m /\ r = "calling"
      /\ Running(Dest[n], n, "ending")' => Dest[n] = d /\ n = m /\ r = "ending"
  BY <1>1, <1>2, FollowGoesOn
<1>5. Dest[n] \in Devices /\ Us \in Devices
  BY EntryTypes
<1>6. \A x \in Devices : Late(x, n)' => Late(x, n)
  BY <1>1, <1>4
<1>7. Told(n)'
  BY <1>1, <1>5, <1>6 DEF FollowInv, Told
<1>8. Flagged(n)'
  BY <1>1, <1>5, <1>6 DEF FollowInv, Flagged
<1>9. Copied(n)' /\ Called(n)'
  BY <1>2, <1>4 DEF Copied, Called
<1>10. Excused(n)'
  BY <1>2, <1>4 DEF Excused, Main, e
<1>11. CalledBeforeForgotten(n)
  BY <1>2, <1>3 DEF CalledBeforeForgotten
<1>12. SyncedBeforeForgotten(n) /\ (FlagIsTrue(n) => FlagIsTrue(n)')
  BY <1>1 DEF SyncedBeforeForgotten, FlagIsTrue
<1> QED BY <1>7, <1>8, <1>9, <1>10, <1>11, <1>12

\* The message goes, with its callback: FollowInv says what was done for it.
LEMMA FollowRemoveStep ==
  ASSUME QueueInv, FollowInv, NEW d \in Devices, NEW m \in Messages, RemoveMessage(d, m)
  PROVE  FollowInv' /\ FollowedUp
<1> DEFINE e == [id |-> m, device |-> d]
<1>1. /\ Running(d, m, "ending") /\ Active(d) /\ Goto(d, "removed")
      /\ UNCHANGED <<jobs, row, failing>> /\ callbacks \subseteq callbacks' \union {m}
      /\ cache = db /\ db \in Seq(Entry) /\ IsInjective(db) /\ e \in Entry
  BY RunningIsPending DEF RemoveMessage, Running, Active, QueueInv, TypeInv, Queues, Basics, Entry
<1>2. Range(db) \subseteq Range(db') \union {e}
  <2>1. db' = db \/ db' = Without(db, e)
    BY <1>1 DEF RemoveMessage, SaveToDB
  <2>2. Range(Without(db, e)) = Range(db) \ {e}
    BY <1>1, WithoutFacts
  <2> QED BY <2>1, <2>2
<1>3. Late(d, m)
  BY <1>1 DEF Late
<1>4. m \in callbacks => d = Dest[m]
  <2>1. m \in callbacks => FollowUp[m] # NoMessage
    BY DEF QueueInv, TypeInv, Queues
  <2> QED BY <1>1, <2>1, RunningIsPending
<1> SUFFICES ASSUME NEW n \in Messages
             PROVE  /\ (Told(n) /\ Flagged(n) /\ Copied(n) /\ Called(n) /\ Excused(n))'
                    /\ SyncedBeforeForgotten(n) /\ CalledBeforeForgotten(n)
                    /\ FlagIsTrue(n) => FlagIsTrue(n)'
  BY DEF FollowInv, FollowedUp
<1>5. /\ \A x \in Devices : ~Late(x, n)' /\ ~Running(x, n, "syncing")'
      /\ ~Running(Dest[n], n, "calling")' /\ ~Running(Dest[n], n, "ending")'
  BY <1>1, FollowGoesOn
<1>6. Dest[n] \in Devices /\ Us \in Devices
  BY EntryTypes
<1>7. Told(n)' /\ Flagged(n)' /\ Copied(n)' /\ Called(n)' /\ Excused(n)'
  BY <1>5, <1>6 DEF Told, Flagged, Copied, Called, Excused
<1>8. SyncedBeforeForgotten(n)
  <2> SUFFICES ASSUME Dest[n] \in Contacts, Main(n) = e
               PROVE  row'[n].synced \/ row'[n].sentSync \/ row'[n].failed \/ Main(n) \in failing'
    BY <1>2 DEF SyncedBeforeForgotten
  <2>1. n = m /\ Dest[n] = d
    BY EntryTypes
  <2> QED BY <1>1, <1>3, <2>1 DEF FollowInv, Told
<1>9. CalledBeforeForgotten(n)
  <2> SUFFICES ASSUME n = m, m \in callbacks PROVE row'[n].failed \/ Main(n) \in failing'
    BY <1>1 DEF CalledBeforeForgotten
  <2> QED BY <1>1, <1>4 DEF FollowInv, Excused
<1>10. FlagIsTrue(n) => FlagIsTrue(n)'
  <2> SUFFICES ASSUME row[n].sentSync, ~row[n].synced, SyncCopy(n) = e PROVE SyncCopy(n) \in failing'
    BY <1>1, <1>2 DEF FlagIsTrue
  <2>1. n = m /\ Us = d
    BY EntryTypes
  <2> QED BY <1>1, <1>3, <2>1 DEF FollowInv, Flagged
<1> QED BY <1>7, <1>8, <1>9, <1>10

\* A kill leaves the outbox and the rows; a copy given up may leave its flag.
LEMMA FollowCrashStep ==
  ASSUME QueueInv, FollowInv, Crash
  PROVE  FollowInv' /\ FollowedUp
<1>1. phase' = [x \in Devices |-> "idle"] /\ ~open' /\ UNCHANGED <<db, row, fresh>>
  BY DEF Crash, durable
<1> SUFFICES ASSUME NEW n \in Messages
             PROVE  /\ (Told(n) /\ Flagged(n) /\ Copied(n) /\ Called(n) /\ Excused(n))'
                    /\ SyncedBeforeForgotten(n) /\ CalledBeforeForgotten(n)
                    /\ FlagIsTrue(n) => FlagIsTrue(n)' \/ (SyncCopy(n) \in failing /\ ~open')
  BY DEF FollowInv, FollowedUp
<1>2. Dest[n] \in Devices /\ Us \in Devices
  BY EntryTypes
<1>3. \A x \in Devices, q \in Handling : ~Running(x, n, q)'
  BY <1>1 DEF Running, Handling
<1>4. Told(n)' /\ Flagged(n)' /\ Copied(n)' /\ Called(n)' /\ Excused(n)'
  BY <1>2, <1>3 DEF Told, Flagged, Copied, Called, Excused, Late, Handling
<1>5. SyncedBeforeForgotten(n) /\ CalledBeforeForgotten(n)
  BY <1>1 DEF SyncedBeforeForgotten, CalledBeforeForgotten
<1>6. FlagIsTrue(n) => FlagIsTrue(n)' \/ (SyncCopy(n) \in failing /\ ~open')
  BY <1>1 DEF FlagIsTrue
<1> QED BY <1>4, <1>5, <1>6

LEMMA FollowStep ==
  ASSUME QueueInv, FollowInv, [Next]_vars
  PROVE  FollowInv' /\ FollowedUp
<1>1. CASE \/ \E m \in Messages : Send(m)
           \/ \E c \in calls : ReadPending(c) \/ EnqueueJobs(c)
           \/ \E d \in Devices, m \in Messages : Settle(d, m)
           \/ UNCHANGED vars
  BY <1>1, FollowCalmSteps
<1>2. CASE (\E e \in adding : Add(e)) \/ (\E e \in failing : HandleMessageSentFailure(e)) \/ Crash
  BY <1>2, FollowAddStep, FollowFailureStep, FollowCrashStep
<1>3. CASE \E d \in Devices, m \in Messages :
             SendAttempt(d, m) \/ HandleMessageSentSuccess(d, m) \/ SyncMessageSent(d, m)
  BY <1>3, FollowAttemptStep, FollowSuccessStep, FollowSyncedStep
<1>4. CASE \E d \in Devices, m \in Messages :
             RunCallback(d, m) \/ CallbackReturns(d, m) \/ RemoveMessage(d, m)
  BY <1>4, FollowCallbackSteps, FollowRemoveStep
<1> QED BY <1>1, <1>2, <1>3, <1>4 DEF Next, Microtask

LEMMA FollowInit == Init => FollowInv
<1> SUFFICES ASSUME Init, NEW n \in Messages
             PROVE  Told(n) /\ Flagged(n) /\ Copied(n) /\ Called(n) /\ Excused(n)
  BY DEF FollowInv
<1>1. Dest[n] \in Devices /\ Us \in Devices
  BY EntryTypes
<1>2. \A x \in Devices, q \in Handling : ~Running(x, n, q)
  BY DEF Init, Running
<1> QED BY <1>1, <1>2 DEF Told, Flagged, Copied, Called, Excused, Late, Handling

\* What follows a message is not forgotten with it, however its task, the calls nobody awaits
\* and the kills interleave: its copy to our devices, its callback, and the flag of the copy
\* (handleMessageSentSuccess, handleMessageSentFailure, remove).
THEOREM FollowUpsKept == Spec => FollowedUpBeforeForgotten
<1>1. Init => QueueInv /\ FollowInv
  BY QueueInit, FollowInit
<1>2. QueueInv /\ FollowInv /\ [Next]_vars => QueueInv' /\ FollowInv' /\ [FollowedUp]_vars
  BY QueueStep, FollowStep
<1> QED BY <1>1, <1>2, PTL DEF Spec, FollowedUpBeforeForgotten, FollowedUp

=============================================================================
