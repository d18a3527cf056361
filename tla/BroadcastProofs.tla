--------------------------- MODULE BroadcastProofs ---------------------------
(***************************************************************************)
(* Proofs about the event ring for every capacity, event size, set of      *)
(* receivers and number of events.                                         *)
(***************************************************************************)
EXTENDS Broadcast, TLAPS

-----------------------------------------------------------------------------
(* Positions and the locations they live in *)

\* A slot index is an index of the ring, and never beyond its position.
LEMMA SlotOf ==
    ASSUME NEW p \in Nat
    PROVE  p % Capacity \in Slot /\ p % Capacity <= p
<1>1. p % Capacity \in Int /\ 0 <= p % Capacity /\ p % Capacity < Capacity
    BY RingAssumption
<1>2. p \div Capacity \in Int /\ p = Capacity * (p \div Capacity) + (p % Capacity)
    BY RingAssumption
<1>3. p \div Capacity >= 0
    BY RingAssumption
<1>4. Capacity * (p \div Capacity) >= 0
    BY <1>2, <1>3, RingAssumption
<1> QED BY <1>1, <1>2, <1>4, RingAssumption DEF Slot

\* Two positions that share a slot are a full ring apart.
LEMMA SameSlotApart ==
    ASSUME NEW p \in Nat, NEW q \in Nat, p % Capacity = q % Capacity, p < q
    PROVE  q >= p + Capacity
<1> DEFINE a == p \div Capacity
           b == q \div Capacity
<1>1. a \in Int /\ p = Capacity * a + (p % Capacity)
    BY RingAssumption
<1>2. b \in Int /\ q = Capacity * b + (q % Capacity)
    BY RingAssumption
<1>3. p % Capacity \in Int
    BY RingAssumption
<1> HIDE DEF a, b
<1>4. q - p = Capacity * (b - a)
    BY <1>1, <1>2, <1>3, RingAssumption
<1>5. b - a >= 1
    BY <1>1, <1>2, <1>4, RingAssumption
<1>6. Capacity * (b - a) >= Capacity
    BY <1>1, <1>2, <1>5, RingAssumption
<1> QED BY <1>4, <1>6, RingAssumption

\* Where positions live: all in Loc, no two kinds the same, and the same slot
\* exactly for positions with the same index.
LEMMA Locations ==
    /\ producer \in Loc
    /\ \A p \in Nat : version(p) \in Loc /\ version(p) # producer
    /\ \A p \in Nat, i \in Word : word(p, i) \in Loc /\ word(p, i) # producer
    /\ \A p, q \in Nat, i \in Word : word(p, i) # version(q)
    /\ \A p, q \in Nat : version(p) = version(q) => p % Capacity = q % Capacity
    /\ \A p, q \in Nat, i, k \in Word :
          word(p, i) = word(q, k) => p % Capacity = q % Capacity /\ version(p) = version(q) /\ i = k
<1>1. \A p \in Nat : p % Capacity \in Slot
    BY SlotOf
<1>2. producer \in Loc
    BY DEF producer, Loc
<1>3. \A p \in Nat : version(p) \in Loc /\ version(p) # producer
    BY <1>1 DEF version, producer, Loc
<1>4. \A p \in Nat, i \in Word : word(p, i) \in Loc /\ word(p, i) # producer
    BY <1>1 DEF word, producer, Loc
<1>5. \A p, q \in Nat, i \in Word : word(p, i) # version(q)
    BY DEF word, version
<1>6. \A p, q \in Nat : version(p) = version(q) => p % Capacity = q % Capacity
    BY DEF version
<1>7. \A p, q \in Nat, i, k \in Word :
          word(p, i) = word(q, k) => p % Capacity = q % Capacity /\ version(p) = version(q) /\ i = k
    BY DEF word, version
<1> QED BY <1>2, <1>3, <1>4, <1>5, <1>6, <1>7

\* What a new ring holds.
LEMMA FreshRing ==
    /\ NewRing \in View
    /\ NewRing[producer] = 0
    /\ \A p \in Nat : NewRing[version(p)] >= 0 /\ NewRing[version(p)] <= 2 * p
    /\ \A p \in Nat, i \in Word : NewRing[word(p, i)] = -1
<1>1. \A l \in Loc : NewRing[l] = CASE l[1] = "version" -> 2 * l[2]
                                    [] l[1] = "word"    -> -1
                                    [] OTHER            -> 0
    BY DEF NewRing, NewVersion
<1>2. \A p \in Nat : p % Capacity \in Slot /\ p % Capacity <= p
    BY SlotOf
<1>3. ASSUME NEW l \in Loc PROVE NewRing[l] \in Int
  <2>1. CASE l[1] = "version"
    <3>1. l[2] \in Slot
        BY <2>1 DEF Loc, producer
    <3> QED BY <1>1, <2>1, <3>1, RingAssumption DEF Slot
  <2>2. CASE l[1] # "version"
      BY <1>1, <2>2
  <2> QED BY <2>1, <2>2
<1>4. NewRing \in View
    BY <1>3 DEF View, NewRing
<1>5. NewRing[producer] = 0
  <2>1. producer[1] = "producer" /\ producer \in Loc
      BY Locations DEF producer
  <2> QED BY <1>1, <2>1
<1>6. ASSUME NEW p \in Nat PROVE NewRing[version(p)] >= 0 /\ NewRing[version(p)] <= 2 * p
  <2>1. version(p)[1] = "version" /\ version(p)[2] = p % Capacity /\ version(p) \in Loc
      BY Locations DEF version
  <2>2. NewRing[version(p)] = 2 * (p % Capacity)
      BY <1>1, <2>1
  <2>3. p % Capacity \in Int /\ 0 <= p % Capacity
      BY <1>2, RingAssumption DEF Slot
  <2> QED BY <1>2, <2>2, <2>3
<1>7. ASSUME NEW p \in Nat, NEW i \in Word PROVE NewRing[word(p, i)] = -1
  <2>1. word(p, i)[1] = "word" /\ word(p, i) \in Loc
      BY Locations DEF word
  <2> QED BY <1>1, <2>1
<1> QED BY <1>4, <1>5, <1>6, <1>7

\* Joining two views gives a view that is at least each of them.
LEMMA Joined ==
    ASSUME NEW v \in View, NEW w \in View
    PROVE  /\ Join(v, w) \in View
           /\ \A l \in Loc : Join(v, w)[l] >= v[l] /\ Join(v, w)[l] >= w[l]
BY DEF Join, View

-----------------------------------------------------------------------------
(* The inductive invariant *)

\* How far the producer's view and its last release fence have got, by phase
\* of a send.
SendOK ==
    /\ own[producer] >= 0
    /\ sending = "idle" => released[producer] = own[producer]
    /\ sending = "claimed" => own[producer] = pos + 1 /\ released[producer] = pos
    /\ sending = "writing" =>
          /\ own[producer] = pos + 1 /\ released[producer] = pos + 1
          /\ released[version(pos)] >= 2 * pos + 1
          /\ \A i \in Word : i < stored => own[word(pos, i)] >= pos

\* What the writes publish: a word publishes the odd version before it, an even
\* version the words before it, and a version later than the one wanted at
\* position p a producer position a ring past p.
MemoryOK ==
    /\ \A m \in memory[producer] : m.val >= 0
    /\ \A p \in Nat, i \in Word : \A m \in memory[word(p, i)] : m.view[version(p)] >= 2 * m.val + 1
    /\ \A p \in Nat : \A m \in memory[version(p)] :
          /\ m.val = 2 * p + 2 => \A i \in Word : m.view[word(p, i)] >= p
          /\ m.val > 2 * p + 2 => m.view[producer] >= p + Capacity /\ own[producer] > p + Capacity

\* What receiver r knows at each point of try_recv.
Knows(r) ==
    /\ state[r] = "none" => got[r].pos < 0
    /\ state[r] = "reading" => \A i \in Word :
          /\ view[r][word(rpos[r], i)] >= rpos[r]
          /\ i < loaded[r] => /\ staged[r][i] >= rpos[r]
                              /\ pending[r][version(rpos[r])] >= 2 * staged[r][i] + 1
    /\ state[r] = "lapped" => view[r][producer] >= rpos[r] + Capacity /\ own[producer] > rpos[r] + Capacity
    /\ state[r] # "reading" => loaded[r] = 0
    /\ got[r].pos < rpos[r]
    /\ \A i \in Word : got[r].words[i] = got[r].pos
RecvOK == \A r \in Receiver : Knows(r)

Inv == TypeOK /\ SendOK /\ MemoryOK /\ RecvOK

\* A new ring satisfies the invariant.
LEMMA InitialInv == Init => Inv
<1> SUFFICES ASSUME Init PROVE Inv
    OBVIOUS
<1>1. TypeOK
  <2>1. memory \in [Loc -> SUBSET Write]
    <3>1. \A l \in Loc : NewRing[l] \in Int
        BY FreshRing DEF View
    <3>2. \A l \in Loc : {[val |-> NewRing[l], view |-> NewRing]} \subseteq Write
        BY <3>1, FreshRing DEF Write
    <3> QED BY <3>2 DEF Init
  <2>2. NoWords \in [Word -> Int] /\ NoEvent \in Event
      BY DEF NoWords, NoEvent, Event
  <2> QED BY <2>1, <2>2, FreshRing, RingAssumption DEF Init, TypeOK
<1>2. SendOK
    BY FreshRing DEF Init, SendOK
<1>3. MemoryOK
  <2>1. ASSUME NEW l \in Loc, NEW m \in memory[l] PROVE m.val = NewRing[l] /\ m.view = NewRing
    <3>1. m \in {[val |-> NewRing[l], view |-> NewRing]}
        BY DEF Init
    <3> QED BY <3>1
  <2>2. \A p \in Nat : NewRing[version(p)] \in Int
      BY FreshRing, Locations DEF View
  <2>3. \A m \in memory[producer] : m.val >= 0
      BY <2>1, FreshRing, Locations
  <2>4. \A p \in Nat, i \in Word : \A m \in memory[word(p, i)] : m.view[version(p)] >= 2 * m.val + 1
      BY <2>1, <2>2, FreshRing, Locations
  <2>5. \A p \in Nat : \A m \in memory[version(p)] : m.val < 2 * p + 2
      BY <2>1, <2>2, FreshRing, Locations
  <2>6. \A p \in Nat : \A m \in memory[version(p)] : m.val \in Int
      BY <2>1, <2>2, Locations
  <2>7. \A p \in Nat : \A m \in memory[version(p)] : m.val # 2 * p + 2 /\ ~(m.val > 2 * p + 2)
      BY <2>5, <2>6
  <2> QED BY <2>3, <2>4, <2>7 DEF MemoryOK
<1>4. RecvOK
    BY DEF Init, RecvOK, Knows, NoEvent, NoWords
<1> QED BY <1>1, <1>2, <1>3, <1>4 DEF Inv

-----------------------------------------------------------------------------
(* The producer's steps *)

\* Storing in one location keeps the types and adds one write to it.
LEMMA Stored ==
    ASSUME TypeOK, NEW l \in Loc, NEW v \in Int, NEW published \in View, Store(l, v, published)
    PROVE  /\ own' \in View /\ memory' \in [Loc -> SUBSET Write]
           /\ own'[l] = v
           /\ \A k \in Loc : k # l => own'[k] = own[k] /\ memory'[k] = memory[k]
           /\ \A m \in memory'[l] : m \in memory[l] \/ (m.val = v /\ m.view = published)
<1>1. own \in View /\ memory \in [Loc -> SUBSET Write]
    BY DEF TypeOK
<1>2. own' \in View /\ own'[l] = v /\ \A k \in Loc : k # l => own'[k] = own[k]
    BY <1>1 DEF View, Store
<1> DEFINE w == [val |-> v, view |-> published]
<1>3. w \in Write /\ w.val = v /\ w.view = published
    BY DEF Write
<1>4. memory' = [memory EXCEPT ![l] = @ \cup {w}]
    BY DEF Store
<1> HIDE DEF w
<1>5. /\ memory' \in [Loc -> SUBSET Write]
      /\ memory'[l] = memory[l] \cup {w}
      /\ \A k \in Loc : k # l => memory'[k] = memory[k]
    BY <1>1, <1>3, <1>4
<1>6. ASSUME NEW m \in memory'[l] PROVE m \in memory[l] \/ (m.val = v /\ m.view = published)
    BY <1>3, <1>5
<1> QED BY <1>2, <1>5, <1>6

\* No step of send breaks the invariant; only the storing of versions needs to know
\* how far apart positions of one slot are.
LEMMA SendPreserves == Inv /\ send => Inv'
<1> SUFFICES ASSUME Inv, send PROVE Inv'
    OBVIOUS
<1> USE Locations
<1>0. TypeOK /\ SendOK /\ MemoryOK /\ RecvOK
    BY DEF Inv
<1>t. own \in View /\ released \in View /\ pos \in Nat /\ own[producer] \in Int /\ released[producer] \in Int
      /\ stored \in 0..Words /\ Words \in Nat /\ Capacity \in Nat
    BY <1>0, RingAssumption DEF TypeOK, View
<1>r. ASSUME own'[producer] \in Int, own'[producer] >= own[producer], UNCHANGED recvVars PROVE RecvOK'
    BY <1>0, <1>r, <1>t DEF RecvOK, Knows, TypeOK, recvVars
<1>1. CASE Claim
  <2>1. Store(producer, own[producer] + 1, released) /\ own[producer] + 1 \in Int
        /\ pos' = own[producer] /\ sending = "idle" /\ sending' = "claimed" /\ UNCHANGED <<released, stored, recvVars>>
      BY <1>1, <1>t DEF Claim
  <2>2. /\ own' \in View /\ memory' \in [Loc -> SUBSET Write]
        /\ own'[producer] = own[producer] + 1
        /\ \A k \in Loc : k # producer => own'[k] = own[k] /\ memory'[k] = memory[k]
        /\ \A m \in memory'[producer] : m \in memory[producer] \/ (m.val = own[producer] + 1 /\ m.view = released)
      BY <1>0, <1>t, <2>1, Stored
  <2>3. TypeOK'
      BY <1>0, <1>t, <2>1, <2>2 DEF TypeOK, SendOK, recvVars
  <2>4. SendOK'
      BY <1>0, <1>t, <2>1, <2>2 DEF SendOK
  <2>5. MemoryOK'
      BY <1>0, <1>t, <2>1, <2>2 DEF MemoryOK, SendOK
  <2>6. RecvOK'
      BY <1>r, <1>t, <2>1, <2>2
  <2> QED BY <2>3, <2>4, <2>5, <2>6 DEF Inv
<1>2. CASE BeginWrite
  <2>1. Store(version(pos), 2 * pos + 1, released) /\ 2 * pos + 1 \in Int /\ version(pos) \in Loc
        /\ sending = "claimed" /\ sending' = "writing" /\ stored' = 0 /\ released' = own' /\ UNCHANGED <<pos, recvVars>>
      BY <1>2, <1>t DEF BeginWrite
  <2>2. /\ own' \in View /\ memory' \in [Loc -> SUBSET Write]
        /\ own'[version(pos)] = 2 * pos + 1
        /\ \A k \in Loc : k # version(pos) => own'[k] = own[k] /\ memory'[k] = memory[k]
        /\ \A m \in memory'[version(pos)] : m \in memory[version(pos)] \/ (m.val = 2 * pos + 1 /\ m.view = released)
      BY <1>0, <1>t, <2>1, Stored
  <2>3. TypeOK'
      BY <1>0, <1>t, <2>1, <2>2 DEF TypeOK, recvVars
  <2>4. SendOK'
      BY <1>0, <1>t, <2>1, <2>2 DEF SendOK, Word
  <2>5. MemoryOK'
    <3>1. own'[producer] = own[producer] /\ memory'[producer] = memory[producer]
        BY <1>t, <2>2
    <3>2. \A p \in Nat, i \in Word : memory'[word(p, i)] = memory[word(p, i)]
        BY <1>t, <2>2
    <3>3. ASSUME NEW p \in Nat, NEW m \in memory'[version(p)]
          PROVE  /\ m.val = 2 * p + 2 => \A i \in Word : m.view[word(p, i)] >= p
                 /\ m.val > 2 * p + 2 => m.view[producer] >= p + Capacity /\ own[producer] > p + Capacity
      <4>1. CASE m \in memory[version(p)]
          BY <1>0, <4>1 DEF MemoryOK
      <4>2. CASE m \notin memory[version(p)]
        <5>1. version(p) = version(pos) /\ m.val = 2 * pos + 1 /\ m.view = released
            BY <1>t, <2>2, <4>2
        <5>2. p % Capacity = pos % Capacity
            BY <1>t, <5>1
        <5>3. released[producer] = pos /\ own[producer] = pos + 1
            BY <1>0, <2>1 DEF SendOK
        <5>4. ASSUME m.val > 2 * p + 2 PROVE pos >= p + Capacity
          <6>1. p < pos
              BY <1>t, <5>1, <5>4
          <6> QED BY <1>t, <5>2, <6>1, SameSlotApart
        <5>5. m.val # 2 * p + 2
            BY <1>t, <5>1
        <5> QED BY <1>t, <5>1, <5>3, <5>4, <5>5
      <4> QED BY <4>1, <4>2
    <3> QED BY <1>0, <3>1, <3>2, <3>3 DEF MemoryOK
  <2>6. RecvOK'
    <3>1. own'[producer] = own[producer]
        BY <1>t, <2>2
    <3> QED BY <1>r, <1>t, <2>1, <3>1
  <2> QED BY <2>3, <2>4, <2>5, <2>6 DEF Inv
<1>3. CASE StoreWord
  <2>1. Store(word(pos, stored), pos, released) /\ stored \in Word /\ word(pos, stored) \in Loc
        /\ sending = "writing" /\ stored' = stored + 1 /\ stored < Words /\ UNCHANGED <<released, sending, pos, recvVars>>
      BY <1>3, <1>t DEF StoreWord, Word
  <2>2. /\ own' \in View /\ memory' \in [Loc -> SUBSET Write]
        /\ own'[word(pos, stored)] = pos
        /\ \A k \in Loc : k # word(pos, stored) => own'[k] = own[k] /\ memory'[k] = memory[k]
        /\ \A m \in memory'[word(pos, stored)] : m \in memory[word(pos, stored)] \/ (m.val = pos /\ m.view = released)
      BY <1>0, <1>t, <2>1, Stored
  <2>3. TypeOK'
      BY <1>0, <1>t, <2>1, <2>2 DEF TypeOK, recvVars
  <2>4. SendOK'
    <3>1. own'[producer] = own[producer]
        BY <1>t, <2>1, <2>2
    <3>2. ASSUME NEW i \in Word, i < stored' PROVE own'[word(pos, i)] >= pos
      <4>1. CASE i = stored
          BY <1>t, <2>2, <4>1
      <4>2. CASE i # stored
        <5>1. i < stored
            BY <1>t, <2>1, <3>2, <4>2 DEF Word
        <5>2. word(pos, i) # word(pos, stored)
            BY <1>t, <2>1, <4>2
        <5> QED BY <1>0, <1>t, <2>1, <2>2, <5>1, <5>2 DEF SendOK
      <4> QED BY <4>1, <4>2
    <3> QED BY <1>0, <1>t, <2>1, <3>1, <3>2 DEF SendOK
  <2>5. MemoryOK'
    <3>1. own'[producer] = own[producer] /\ memory'[producer] = memory[producer]
        BY <1>t, <2>1, <2>2
    <3>2. \A p \in Nat : memory'[version(p)] = memory[version(p)]
        BY <1>t, <2>1, <2>2
    <3>3. ASSUME NEW p \in Nat, NEW i \in Word, NEW m \in memory'[word(p, i)]
          PROVE  m.view[version(p)] >= 2 * m.val + 1
      <4>1. CASE m \in memory[word(p, i)]
          BY <1>0, <4>1 DEF MemoryOK
      <4>2. CASE m \notin memory[word(p, i)]
        <5>1. word(p, i) = word(pos, stored) /\ m.val = pos /\ m.view = released
            BY <1>t, <2>1, <2>2, <4>2
        <5>2. version(p) = version(pos)
            BY <1>t, <2>1, <5>1
        <5> QED BY <1>0, <2>1, <5>1, <5>2 DEF SendOK
      <4> QED BY <4>1, <4>2
    <3> QED BY <1>0, <3>1, <3>2, <3>3 DEF MemoryOK
  <2>6. RecvOK'
    <3>1. own'[producer] = own[producer]
        BY <1>t, <2>1, <2>2
    <3> QED BY <1>r, <1>t, <2>1, <3>1
  <2> QED BY <2>3, <2>4, <2>5, <2>6 DEF Inv
<1>4. CASE EndWrite
  <2> DEFINE published == [own EXCEPT ![version(pos)] = 2 * pos + 2]
  <2>1. Store(version(pos), 2 * pos + 2, published) /\ 2 * pos + 2 \in Int /\ version(pos) \in Loc
        /\ sending = "writing" /\ sending' = "idle" /\ stored = Words /\ UNCHANGED <<released, pos, stored, recvVars>>
      BY <1>4, <1>t DEF EndWrite
  <2>o. own' = published
      BY <2>1 DEF Store
  <2>p. published \in View
      BY <1>t, <2>1 DEF View
  <2> HIDE DEF published
  <2>2. /\ own' \in View /\ memory' \in [Loc -> SUBSET Write]
        /\ own'[version(pos)] = 2 * pos + 2
        /\ \A k \in Loc : k # version(pos) => own'[k] = own[k] /\ memory'[k] = memory[k]
        /\ \A m \in memory'[version(pos)] : m \in memory[version(pos)] \/ (m.val = 2 * pos + 2 /\ m.view = published)
      BY <1>0, <1>t, <2>1, <2>o, <2>p, Stored
  <2>3. TypeOK'
      BY <1>0, <1>t, <2>1, <2>2 DEF TypeOK, recvVars
  <2>7. own'[producer] = own[producer] /\ own[producer] = pos + 1 /\ released[producer] = pos + 1
      BY <1>0, <1>t, <2>1, <2>2 DEF SendOK
  <2>4. SendOK'
      BY <1>t, <2>1, <2>7 DEF SendOK
  <2>5. MemoryOK'
    <3>1. memory'[producer] = memory[producer]
        BY <1>t, <2>2
    <3>2. \A p \in Nat, i \in Word : memory'[word(p, i)] = memory[word(p, i)]
        BY <1>t, <2>2
    <3>3. \A i \in Word : own'[word(pos, i)] >= pos
        BY <1>0, <1>t, <2>1, <2>2 DEF SendOK, Word
    <3>4. ASSUME NEW p \in Nat, NEW m \in memory'[version(p)]
          PROVE  /\ m.val = 2 * p + 2 => \A i \in Word : m.view[word(p, i)] >= p
                 /\ m.val > 2 * p + 2 => m.view[producer] >= p + Capacity /\ own[producer] > p + Capacity
      <4>1. CASE m \in memory[version(p)]
          BY <1>0, <4>1 DEF MemoryOK
      <4>2. CASE m \notin memory[version(p)]
        <5>1. version(p) = version(pos) /\ m.val = 2 * pos + 2 /\ m.view = own'
            BY <1>t, <2>2, <2>o, <4>2
        <5>2. p % Capacity = pos % Capacity
            BY <1>t, <5>1
        <5>3. ASSUME m.val > 2 * p + 2 PROVE pos >= p + Capacity
          <6>1. p < pos
              BY <1>t, <5>1, <5>3
          <6> QED BY <1>t, <5>2, <6>1, SameSlotApart
        <5>4. m.val = 2 * p + 2 => p = pos
            BY <1>t, <5>1
        <5> QED BY <1>t, <2>7, <3>3, <5>1, <5>3, <5>4
      <4> QED BY <4>1, <4>2
    <3> QED BY <1>0, <2>7, <3>1, <3>2, <3>4 DEF MemoryOK
  <2>6. RecvOK'
      BY <1>r, <1>t, <2>1, <2>7
  <2> QED BY <2>3, <2>4, <2>5, <2>6 DEF Inv
<1> QED BY <1>1, <1>2, <1>3, <1>4 DEF send

-----------------------------------------------------------------------------
(* The receivers' steps *)

\* A receiver's step keeps the invariant and moves it forward; it leaves the other
\* receivers alone, so what it knows itself suffices.
LEMMA RecvPreserves ==
    ASSUME Inv, NEW r \in Receiver, subscribe(r) \/ try_recv(r)
    PROVE  Inv' /\ (state[r] # "none" => rpos'[r] >= rpos[r])
<1> USE Locations
<1>0. TypeOK /\ SendOK /\ MemoryOK /\ RecvOK
    BY DEF Inv
<1>1. UNCHANGED sendVars
    BY DEF subscribe, try_recv, LoadVersion, catch_up, LoadWord, Recheck
<1>2. SendOK' /\ MemoryOK'
    BY <1>0, <1>1 DEF SendOK, MemoryOK, sendVars
<1>t. /\ rpos[r] \in Nat /\ view[r] \in View /\ pending[r] \in View /\ staged[r] \in [Word -> Int]
      /\ loaded[r] \in 0..Words /\ got[r] \in Event /\ laps[r] \in Nat
      /\ Words \in Nat /\ Capacity \in Nat /\ Capacity >= 2 /\ own[producer] \in Int
    BY <1>0, RingAssumption DEF TypeOK, View
<1>m. \A l \in Loc : \A m \in memory[l] : m.val \in Int /\ m.view \in View
    BY <1>0 DEF TypeOK, Write
<1>v. /\ version(rpos[r]) \in Loc
      /\ \A i \in Word : word(rpos[r], i) \in Loc /\ word(rpos[r], i) # version(rpos[r])
    BY <1>t
<1>o. Knows(r)
    BY <1>0 DEF RecvOK
<1>3. ASSUME NEW q \in Receiver, q # r
      PROVE  /\ state'[q] = state[q] /\ rpos'[q] = rpos[q] /\ view'[q] = view[q] /\ pending'[q] = pending[q]
             /\ staged'[q] = staged[q] /\ loaded'[q] = loaded[q] /\ got'[q] = got[q]
  <2>1. CASE subscribe(r)
      BY <1>0, <1>3, <2>1 DEF TypeOK, subscribe
  <2>2. CASE LoadVersion(r)
      BY <1>0, <1>3, <2>2 DEF TypeOK, LoadVersion
  <2>3. CASE catch_up(r)
      BY <1>0, <1>3, <2>3 DEF TypeOK, catch_up
  <2>4. CASE LoadWord(r)
      BY <1>0, <1>3, <2>4 DEF TypeOK, LoadWord
  <2>5. CASE Recheck(r)
      BY <1>0, <1>3, <2>5 DEF TypeOK, Recheck
  <2> QED BY <2>1, <2>2, <2>3, <2>4, <2>5 DEF try_recv
<1>4. SUFFICES TypeOK' /\ Knows(r)' /\ (state[r] # "none" => rpos'[r] >= rpos[r])
  <2>1. ASSUME Knows(r)' PROVE RecvOK'
    <3>1. ASSUME NEW q \in Receiver, q # r PROVE Knows(q)'
        BY <1>0, <1>1, <1>3, <3>1 DEF RecvOK, Knows, sendVars
    <3> QED BY <2>1, <3>1 DEF RecvOK
  <2> QED BY <1>2, <2>1 DEF Inv
<1>5. CASE subscribe(r)
  <2>1. PICK m \in Readable(view[r], producer) :
          /\ rpos' = [rpos EXCEPT ![r] = m.val]
          /\ view' = [view EXCEPT ![r][producer] = m.val]
          /\ pending' = [pending EXCEPT ![r] = Join(@, m.view)]
      BY <1>5 DEF subscribe
  <2>2. m.val \in Nat /\ m.view \in View
      BY <1>0, <1>m DEF Readable, MemoryOK
  <2>3. Join(pending[r], m.view) \in View /\ [view[r] EXCEPT ![producer] = m.val] \in View
      BY <1>t, <2>2, Joined DEF View
  <2>4. TypeOK'
      BY <1>0, <1>1, <1>5, <2>1, <2>2, <2>3 DEF TypeOK, subscribe, sendVars
  <2>5. got[r] = got'[r] /\ rpos'[r] = m.val /\ state'[r] = "ready" /\ state[r] = "none"
      BY <1>0, <1>5, <2>1 DEF TypeOK, subscribe
  <2>6. Knows(r)'
      BY <1>0, <1>o, <1>t, <1>5, <2>2, <2>5 DEF Knows, TypeOK, Event, subscribe
  <2> QED BY <2>4, <2>5, <2>6
<1>6. CASE LoadVersion(r)
  <2> DEFINE l == version(rpos[r])
  <2>1. PICK m \in Readable(view[r], l) :
          /\ view' = [view EXCEPT ![r] = Join([@ EXCEPT ![l] = m.val], m.view)]
          /\ state' = [state EXCEPT ![r] = FirstLook(m.val, want(r))]
      BY <1>6 DEF LoadVersion
  <2>2. m \in memory[l] /\ m.val \in Int /\ m.view \in View /\ [view[r] EXCEPT ![l] = m.val] \in View
      BY <1>m, <1>t, <1>v DEF Readable, View
  <2> DEFINE joined == Join([view[r] EXCEPT ![l] = m.val], m.view)
  <2>3. joined \in View /\ \A k \in Loc : joined[k] >= m.view[k]
      BY <2>2, Joined
  <2>4. FirstLook(m.val, want(r)) \in {"ready", "reading", "lapped"}
      BY DEF FirstLook
  <2>5. state[r] = "ready" /\ UNCHANGED <<rpos, laps, pending, staged, loaded, got>>
      BY <1>6 DEF LoadVersion
  <2>6. view'[r] = joined /\ state'[r] = FirstLook(m.val, want(r))
      BY <1>0, <2>1 DEF TypeOK
  <2> HIDE DEF joined
  <2>7. TypeOK'
      BY <1>0, <1>1, <2>1, <2>3, <2>4, <2>5, <2>6 DEF TypeOK, sendVars, joined
  <2>8. state'[r] = "reading" => \A i \in Word : joined[word(rpos[r], i)] >= rpos[r]
    <3>1. state'[r] = "reading" => m.val = 2 * rpos[r] + 2
        BY <1>t, <2>2, <2>6 DEF FirstLook, want
    <3>2. m.val = 2 * rpos[r] + 2 => \A i \in Word : m.view[word(rpos[r], i)] >= rpos[r]
        BY <1>0, <1>t, <2>2 DEF MemoryOK
    <3>3. \A i \in Word : m.view[word(rpos[r], i)] \in Int /\ joined[word(rpos[r], i)] \in Int
        BY <1>v, <2>2, <2>3 DEF View
    <3> QED BY <1>t, <1>v, <2>3, <3>1, <3>2, <3>3
  <2>9. state'[r] = "lapped" => joined[producer] >= rpos[r] + Capacity /\ own[producer] > rpos[r] + Capacity
    <3>1. state'[r] = "lapped" => m.val > 2 * rpos[r] + 2
        BY <1>t, <2>2, <2>6 DEF FirstLook, want
    <3>2. m.val > 2 * rpos[r] + 2 => m.view[producer] >= rpos[r] + Capacity /\ own[producer] > rpos[r] + Capacity
        BY <1>0, <1>t, <2>2 DEF MemoryOK
    <3>3. m.view[producer] \in Int /\ joined[producer] \in Int /\ joined[producer] >= m.view[producer]
        BY <2>2, <2>3 DEF View
    <3> QED BY <1>t, <3>1, <3>2, <3>3
  <2>10. loaded[r] = 0 /\ \A i \in Word : ~(i < loaded[r])
      BY <1>o, <2>5 DEF Knows, Word
  <2>11. Knows(r)'
      BY <1>1, <1>o, <2>4, <2>5, <2>6, <2>8, <2>9, <2>10 DEF Knows, sendVars
  <2>12. rpos'[r] >= rpos[r]
      BY <1>t, <2>5
  <2> QED BY <2>7, <2>11, <2>12
<1>7. CASE catch_up(r)
  <2>1. PICK m \in Readable(view[r], producer) :
          /\ rpos' = [rpos EXCEPT ![r] = saturating_sub(m.val, Capacity \div 2)]
          /\ view' = [view EXCEPT ![r][producer] = m.val]
          /\ pending' = [pending EXCEPT ![r] = Join(@, m.view)]
      BY <1>7 DEF catch_up
  <2>2. m.val \in Int /\ m.view \in View /\ m.val >= view[r][producer] /\ view[r][producer] \in Int
      BY <1>m, <1>t DEF Readable, View
  <2>3. Join(pending[r], m.view) \in View /\ [view[r] EXCEPT ![producer] = m.val] \in View
      BY <1>t, <2>2, Joined DEF View
  <2>4. state[r] = "lapped" /\ laps' = [laps EXCEPT ![r] = @ + 1] /\ state' = [state EXCEPT ![r] = "ready"]
        /\ UNCHANGED <<staged, loaded, got>>
      BY <1>7 DEF catch_up
  <2>5. m.val >= rpos[r] + Capacity
      BY <1>o, <1>t, <2>2, <2>4 DEF Knows
  <2>6. Capacity \div 2 \in Nat /\ Capacity \div 2 <= Capacity
      BY <1>t
  <2>7. saturating_sub(m.val, Capacity \div 2) \in Nat /\ saturating_sub(m.val, Capacity \div 2) >= rpos[r]
      BY <1>t, <2>2, <2>5, <2>6 DEF saturating_sub
  <2>8. TypeOK'
      BY <1>0, <1>1, <1>t, <2>1, <2>3, <2>4, <2>7 DEF TypeOK, sendVars
  <2>9. rpos'[r] \in Nat /\ rpos'[r] >= rpos[r] /\ state'[r] = "ready"
      BY <1>0, <2>1, <2>4, <2>7 DEF TypeOK
  <2>10. loaded[r] = 0
      BY <1>o, <2>4 DEF Knows
  <2>11. Knows(r)'
      BY <1>o, <1>t, <2>4, <2>9, <2>10 DEF Knows, Event
  <2> QED BY <2>8, <2>9, <2>11
<1>8. CASE LoadWord(r)
  <2> DEFINE n == loaded[r]
             l == word(rpos[r], n)
  <2>1. PICK m \in Readable(view[r], l) :
          /\ staged' = [staged EXCEPT ![r][n] = m.val]
          /\ view' = [view EXCEPT ![r][l] = m.val]
          /\ pending' = [pending EXCEPT ![r] = Join(@, m.view)]
      BY <1>8 DEF LoadWord
  <2>2. state[r] = "reading" /\ n < Words /\ loaded' = [loaded EXCEPT ![r] = @ + 1]
        /\ UNCHANGED <<state, rpos, laps, got>>
      BY <1>8 DEF LoadWord
  <2>3. n \in Word /\ l \in Loc
      BY <1>t, <1>v, <2>2 DEF Word
  <2>4. m \in memory[l] /\ m.val \in Int /\ m.view \in View /\ m.val >= view[r][l] /\ view[r][l] \in Int
      BY <1>m, <1>t, <2>3 DEF Readable, View
  <2> DEFINE joined == Join(pending[r], m.view)
  <2>5. /\ joined \in View
        /\ \A k \in Loc : joined[k] >= pending[r][k] /\ joined[k] >= m.view[k]
      BY <1>t, <2>4, Joined
  <2>6. /\ [view[r] EXCEPT ![l] = m.val] \in View
        /\ [staged[r] EXCEPT ![n] = m.val] \in [Word -> Int]
      BY <1>t, <2>3, <2>4 DEF View
  <2>7. view'[r] = [view[r] EXCEPT ![l] = m.val] /\ pending'[r] = joined
        /\ staged'[r] = [staged[r] EXCEPT ![n] = m.val] /\ loaded'[r] = n + 1
      BY <1>0, <2>1, <2>2 DEF TypeOK
  <2> HIDE DEF joined
  <2>8. TypeOK'
      BY <1>0, <1>1, <1>t, <2>1, <2>2, <2>5, <2>6 DEF TypeOK, sendVars, joined
  <2>9. m.view[version(rpos[r])] >= 2 * m.val + 1 /\ m.val >= rpos[r]
      BY <1>0, <1>o, <1>t, <2>2, <2>3, <2>4 DEF MemoryOK, Knows
  <2>10. /\ joined[version(rpos[r])] \in Int /\ m.view[version(rpos[r])] \in Int /\ pending[r][version(rpos[r])] \in Int
         /\ joined[version(rpos[r])] >= pending[r][version(rpos[r])] /\ joined[version(rpos[r])] >= m.view[version(rpos[r])]
      BY <1>t, <1>v, <2>4, <2>5 DEF View
  <2>11. ASSUME NEW i \in Word PROVE view'[r][word(rpos[r], i)] >= rpos[r]
    <3>1. view[r][word(rpos[r], i)] >= rpos[r]
        BY <1>o, <2>2 DEF Knows
    <3>2. CASE word(rpos[r], i) = l
        BY <1>t, <2>3, <2>7, <2>9, <3>2 DEF View
    <3>3. CASE word(rpos[r], i) # l
        BY <1>t, <1>v, <2>7, <3>1, <3>3 DEF View
    <3> QED BY <3>2, <3>3
  <2>12. ASSUME NEW i \in Word, i < n + 1
         PROVE  staged'[r][i] >= rpos[r] /\ joined[version(rpos[r])] >= 2 * staged'[r][i] + 1
    <3>1. CASE i = n
      <4>1. staged'[r][i] = m.val
          BY <1>t, <2>3, <2>7, <3>1
      <4> QED BY <1>t, <2>4, <2>9, <2>10, <4>1
    <3>2. CASE i # n
      <4>1. staged'[r][i] = staged[r][i] /\ i < n /\ staged[r][i] \in Int
          BY <1>t, <2>7, <2>12, <3>2 DEF Word
      <4>2. staged[r][i] >= rpos[r] /\ pending[r][version(rpos[r])] >= 2 * staged[r][i] + 1
          BY <1>o, <2>2, <4>1 DEF Knows
      <4> QED BY <2>10, <4>1, <4>2
    <3> QED BY <3>1, <3>2
  <2>13. Knows(r)'
      BY <1>o, <2>2, <2>7, <2>11, <2>12 DEF Knows
  <2>14. rpos'[r] >= rpos[r]
      BY <1>t, <2>2
  <2> QED BY <2>8, <2>13, <2>14
<1>9. CASE Recheck(r)
  <2> DEFINE l == version(rpos[r])
             fenced == Join(view[r], pending[r])
  <2>1. PICK m \in Readable(fenced, l) :
          /\ view' = [view EXCEPT ![r] = [fenced EXCEPT ![l] = m.val]]
          /\ pending' = [pending EXCEPT ![r] = Join(@, m.view)]
          /\ IF m.val = want(r)
             THEN /\ got' = [got EXCEPT ![r] = [pos |-> rpos[r], words |-> staged[r]]]
                  /\ rpos' = [rpos EXCEPT ![r] = @ + 1]
             ELSE UNCHANGED <<got, rpos>>
      BY <1>9 DEF Recheck
  <2>2. state[r] = "reading" /\ loaded[r] = Words /\ state' = [state EXCEPT ![r] = "ready"]
        /\ staged' = [staged EXCEPT ![r] = NoWords] /\ loaded' = [loaded EXCEPT ![r] = 0] /\ UNCHANGED laps
      BY <1>9 DEF Recheck
  <2>3. fenced \in View /\ \A k \in Loc : fenced[k] >= pending[r][k]
      BY <1>t, Joined
  <2> HIDE DEF fenced
  <2>4. m.val \in Int /\ m.view \in View /\ m.val >= fenced[l] /\ fenced[l] \in Int /\ pending[r][l] \in Int
        /\ fenced[l] >= pending[r][l]
      BY <1>m, <1>t, <1>v, <2>3 DEF Readable, View
  <2>5. Join(pending[r], m.view) \in View /\ [fenced EXCEPT ![l] = m.val] \in View /\ NoWords \in [Word -> Int]
      BY <1>t, <2>3, <2>4, Joined DEF View, NoWords
  <2>6. [pos |-> rpos[r], words |-> staged[r]] \in Event
      BY <1>t DEF Event
  <2>7. TypeOK'
    <3>1. rpos' \in [Receiver -> Nat] /\ got' \in [Receiver -> Event]
      <4>1. CASE m.val = want(r)
        <5>1. rpos' = [rpos EXCEPT ![r] = rpos[r] + 1]
            BY <2>1, <4>1
        <5>2. got' = [got EXCEPT ![r] = [pos |-> rpos[r], words |-> staged[r]]]
            BY <2>1, <4>1
        <5>3. rpos' \in [Receiver -> Nat]
            BY <1>0, <1>t, <5>1 DEF TypeOK
        <5>4. got' \in [Receiver -> Event]
            BY <1>0, <2>6, <5>2 DEF TypeOK
        <5> QED BY <5>3, <5>4
      <4>2. CASE m.val # want(r)
          BY <1>0, <2>1, <4>2 DEF TypeOK
      <4> QED BY <4>1, <4>2
    <3>2. view' \in [Receiver -> View] /\ pending' \in [Receiver -> View]
        BY <1>0, <2>1, <2>5 DEF TypeOK
    <3>3. /\ state' \in [Receiver -> {"none", "ready", "lapped", "reading"}] /\ laps' \in [Receiver -> Nat]
          /\ staged' \in [Receiver -> [Word -> Int]] /\ loaded' \in [Receiver -> 0..Words]
        BY <1>0, <1>t, <2>2, <2>5 DEF TypeOK
    <3> QED BY <1>0, <1>1, <3>1, <3>2, <3>3 DEF TypeOK, sendVars
  <2>8. state'[r] = "ready" /\ loaded'[r] = 0
      BY <1>0, <2>2 DEF TypeOK
  <2>9. CASE m.val = want(r)
    <3>1. ASSUME NEW i \in Word PROVE staged[r][i] = rpos[r]
      <4>1. staged[r][i] >= rpos[r] /\ pending[r][l] >= 2 * staged[r][i] + 1
          BY <1>o, <1>t, <2>2 DEF Knows, Word
      <4>2. m.val = 2 * rpos[r] + 2 /\ staged[r][i] \in Int
          BY <1>t, <2>9 DEF want
      <4>3. rpos[r] \in Nat
          BY <1>t
      <4> HIDE DEF l
      <4>4. m.val >= 2 * staged[r][i] + 1
          BY <2>4, <4>1, <4>2
      <4> QED BY <4>1, <4>2, <4>3, <4>4
    <3>2. got'[r] = [pos |-> rpos[r], words |-> staged[r]] /\ rpos'[r] = rpos[r] + 1
        BY <1>0, <2>1, <2>9 DEF TypeOK
    <3>3. Knows(r)'
        BY <1>t, <2>8, <3>1, <3>2 DEF Knows
    <3> QED BY <1>t, <2>7, <3>2, <3>3
  <2>10. CASE m.val # want(r)
    <3>1. got' = got /\ rpos' = rpos
        BY <2>1, <2>10
    <3>2. Knows(r)'
        BY <1>o, <2>8, <3>1 DEF Knows
    <3> QED BY <1>t, <2>7, <3>1, <3>2
  <2> QED BY <2>9, <2>10
<1> QED BY <1>5, <1>6, <1>7, <1>8, <1>9 DEF try_recv

-----------------------------------------------------------------------------
(* The theorems *)

\* Nothing changes, nothing breaks.
LEMMA Stutter == Inv /\ UNCHANGED vars => Inv'
BY DEF Inv, TypeOK, SendOK, MemoryOK, RecvOK, Knows, vars, sendVars, recvVars

\* The invariant holds of every ring, with any capacity and any receivers.
THEOREM Invariance == Spec => []Inv
<1>1. Init => Inv
    BY InitialInv
<1>2. Inv /\ [Next]_vars => Inv'
    BY SendPreserves, RecvPreserves, Stutter DEF Next
<1> QED BY <1>1, <1>2, PTL DEF Spec

\* No receiver of a ring of any size is ever given an event whose words were
\* written by two sends, or by another send than the one at its position, on
\* a machine as weak as C11 atomics allow: the release fence after the odd
\* version and the acquire fence before the second look are enough.
THEOREM EventsWhole == Spec => []NeverTorn
<1>1. Inv => NeverTorn
    BY DEF Inv, RecvOK, Knows, NeverTorn
<1> QED BY <1>1, Invariance, PTL

\* A receiver is sent to catch_up only when the producer is more than a full
\* ring past it.
THEOREM LapsAreReal == Spec => []LapIsReal
<1>1. Inv => LapIsReal
    BY DEF Inv, RecvOK, Knows, LapIsReal
<1> QED BY <1>1, Invariance, PTL

\* A receiver never moves backwards and returns events in the order they were
\* sent, although catch_up reads the producer's position with a relaxed load:
\* the acquire load that found the slot overwritten already brought it along.
THEOREM EventsInOrder == Spec => InOrder
<1> DEFINE Forward == \A r \in Receiver :
                state[r] # "none" => rpos'[r] >= rpos[r] /\ got'[r].pos >= got[r].pos
<1>1. ASSUME Inv, Inv', [Next]_vars PROVE [Forward]_vars
  <2>1. CASE send
    <3>1. UNCHANGED recvVars
        BY <2>1 DEF send, Claim, BeginWrite, StoreWord, EndWrite
    <3> QED BY <1>1, <3>1 DEF recvVars, Inv, TypeOK, Event
  <2>2. ASSUME NEW q \in Receiver, subscribe(q) \/ try_recv(q) PROVE Forward
    <3> SUFFICES ASSUME NEW r \in Receiver, state[r] # "none"
                 PROVE  rpos'[r] >= rpos[r] /\ got'[r].pos >= got[r].pos
        OBVIOUS
    <3>1. rpos[r] \in Nat /\ got[r].pos \in Int
        BY <1>1 DEF Inv, TypeOK, Event
    <3>2. CASE r = q
      <4>1. rpos'[r] >= rpos[r]
          BY <1>1, <2>2, <3>2, RecvPreserves
      <4>2. got'[r] = got[r] \/ got'[r].pos = rpos[r]
          BY <1>1, <2>2, <3>2 DEF subscribe, try_recv, LoadVersion, catch_up, LoadWord, Recheck, Inv, TypeOK
      <4>3. got[r].pos < rpos[r]
          BY <1>1 DEF Inv, RecvOK, Knows
      <4> QED BY <3>1, <4>1, <4>2, <4>3
    <3>3. CASE r # q
      <4>1. rpos'[r] = rpos[r] /\ got'[r] = got[r]
          BY <1>1, <2>2, <3>3 DEF subscribe, try_recv, LoadVersion, catch_up, LoadWord, Recheck, Inv, TypeOK
      <4> QED BY <3>1, <4>1
    <3> QED BY <3>2, <3>3
  <2> QED BY <1>1, <2>1, <2>2 DEF Next
<1> QED BY <1>1, Invariance, PTL DEF Spec, InOrder

\* The ring keeps its types: no version counter, payload word or receiver
\* position is ever outside what broadcast.rs can hold.
THEOREM RingTypes == Spec => []TypeOK
<1>1. Inv => TypeOK
    BY DEF Inv
<1> QED BY <1>1, Invariance, PTL

-----------------------------------------------------------------------------
(* The ring implements the log *)

\* The cursor shows no event that was not begun, and a version no event that is
\* not sent.
PublishedOK ==
    /\ \A m \in memory[producer] : m.val <= own[producer]
    /\ \A p \in Nat : \A m \in memory[version(p)] : m.val = 2 * p + 2 => p < Done

\* What the steps of send make of the log: an event is begun, or sent, or
\* nothing shows.
LEMMA SendSteps ==
    ASSUME Inv, send
    PROVE  /\ own[producer] \in Int /\ pos \in Nat /\ Done \in Int
           /\ \/ Claim /\ own[producer] = Done /\ own'[producer] = own[producer] + 1 /\ Done' = Done
              \/ EndWrite /\ Done < own[producer] /\ own'[producer] = own[producer] /\ Done' = own[producer]
              \/ (BeginWrite \/ StoreWord) /\ own'[producer] = own[producer] /\ Done' = Done
<1> USE Locations
<1>0. TypeOK /\ SendOK
    BY DEF Inv
<1>1. own \in View /\ released \in View /\ pos \in Nat /\ own[producer] \in Int /\ stored \in 0..Words
    BY <1>0 DEF TypeOK, View
<1>2. Done \in Int
    BY <1>1 DEF Done
<1>3. CASE Claim
  <2>1. Store(producer, own[producer] + 1, released)
      BY <1>3 DEF Claim
  <2>2. own'[producer] = own[producer] + 1
      BY <1>1, <2>1 DEF Store, View
  <2>3. sending = "idle" /\ sending' = "claimed" /\ pos' = own[producer]
      BY <1>3 DEF Claim
  <2> QED BY <1>1, <1>2, <1>3, <2>2, <2>3 DEF Done
<1>4. CASE BeginWrite
  <2>1. Store(version(pos), 2 * pos + 1, released) /\ version(pos) \in Loc /\ version(pos) # producer
      BY <1>1, <1>4 DEF BeginWrite
  <2>2. own'[producer] = own[producer]
      BY <1>1, <2>1 DEF Store, View
  <2>3. sending = "claimed" /\ sending' = "writing" /\ pos' = pos
      BY <1>4 DEF BeginWrite
  <2> QED BY <1>1, <1>2, <1>4, <2>2, <2>3 DEF Done
<1>5. CASE StoreWord
  <2>1. stored \in Word
      BY <1>1, <1>5, RingAssumption DEF StoreWord, Word
  <2>2. Store(word(pos, stored), pos, released) /\ word(pos, stored) \in Loc /\ word(pos, stored) # producer
      BY <1>1, <1>5, <2>1 DEF StoreWord
  <2>3. own'[producer] = own[producer]
      BY <1>1, <2>2 DEF Store, View
  <2>4. sending = "writing" /\ sending' = "writing" /\ pos' = pos
      BY <1>5 DEF StoreWord
  <2> QED BY <1>1, <1>2, <1>5, <2>3, <2>4 DEF Done
<1>6. CASE EndWrite
  <2>1. own' = [own EXCEPT ![version(pos)] = 2 * pos + 2] /\ version(pos) \in Loc /\ version(pos) # producer
      BY <1>1, <1>6 DEF EndWrite, Store
  <2>2. own'[producer] = own[producer]
      BY <1>1, <2>1 DEF View
  <2>3. sending = "writing" /\ sending' = "idle" /\ own[producer] = pos + 1
      BY <1>0, <1>6 DEF EndWrite, SendOK
  <2> QED BY <1>1, <1>2, <1>6, <2>2, <2>3 DEF Done
<1> QED BY <1>1, <1>2, <1>3, <1>4, <1>5, <1>6 DEF send

\* A new ring publishes nothing.
LEMMA NothingPublished == Init => PublishedOK
<1> SUFFICES ASSUME Init PROVE PublishedOK
    OBVIOUS
<1>1. ASSUME NEW l \in Loc, NEW m \in memory[l] PROVE m.val = NewRing[l]
  <2>1. m \in {[val |-> NewRing[l], view |-> NewRing]}
      BY DEF Init
  <2> QED BY <2>1
<1>2. \A m \in memory[producer] : m.val <= own[producer]
    BY <1>1, FreshRing, Locations DEF Init
<1>3. ASSUME NEW p \in Nat, NEW m \in memory[version(p)] PROVE m.val # 2 * p + 2
  <2>1. m.val = NewRing[version(p)] /\ NewRing[version(p)] \in Int
      BY <1>1, FreshRing, Locations DEF View
  <2>2. NewRing[version(p)] < 2 * p + 2
      BY FreshRing, <2>1
  <2> QED BY <2>1, <2>2
<1> QED BY <1>2, <1>3 DEF PublishedOK

\* No step publishes an event early.
LEMMA PublishedKept ==
    ASSUME Inv, PublishedOK, [Next]_vars
    PROVE  PublishedOK'
<1> USE Locations
<1>0. TypeOK /\ own \in View /\ released \in View /\ pos \in Nat
    BY DEF Inv, TypeOK
<1>1. CASE UNCHANGED sendVars
    BY <1>1 DEF PublishedOK, Done, sendVars
<1>2. CASE send
  <2>1. /\ own[producer] \in Int /\ Done \in Int
        /\ own'[producer] \in Int /\ Done' \in Int
        /\ own'[producer] >= own[producer] /\ Done' >= Done
      BY <1>2, SendSteps
  <2>2. \A l \in Loc : \A m \in memory[l] : m.val \in Int
      BY <1>0 DEF TypeOK, Write
  <2>3. ASSUME NEW m \in memory'[producer] PROVE m.val <= own'[producer]
    <3>1. m \in memory[producer] \/ m.val = own'[producer]
      <4>1. CASE Claim
        <5>1. Store(producer, own[producer] + 1, released) /\ own[producer] + 1 \in Int
            BY <2>1, <4>1 DEF Claim
        <5> QED BY <1>0, <2>3, <5>1, Stored
      <4>2. CASE BeginWrite
        <5>1. Store(version(pos), 2 * pos + 1, released) /\ 2 * pos + 1 \in Int
            BY <1>0, <4>2 DEF BeginWrite
        <5> QED BY <1>0, <2>3, <5>1, Stored
      <4>3. CASE StoreWord
        <5>1. stored \in Word
            BY <1>0, <4>3, RingAssumption DEF StoreWord, Word, TypeOK
        <5>2. Store(word(pos, stored), pos, released)
            BY <4>3 DEF StoreWord
        <5> QED BY <1>0, <2>3, <5>1, <5>2, Stored
      <4>4. CASE EndWrite
        <5> DEFINE published == [own EXCEPT ![version(pos)] = 2 * pos + 2]
        <5>1. Store(version(pos), 2 * pos + 2, published) /\ 2 * pos + 2 \in Int /\ published \in View
            BY <1>0, <4>4 DEF EndWrite, View
        <5> HIDE DEF published
        <5> QED BY <1>0, <2>3, <5>1, Stored
      <4> QED BY <1>2, <4>1, <4>2, <4>3, <4>4 DEF send
    <3>2. CASE m \in memory[producer]
      <4>1. m.val \in Int /\ m.val <= own[producer]
          BY <2>2, <3>2 DEF PublishedOK
      <4> QED BY <2>1, <4>1
    <3>3. CASE m.val = own'[producer]
        BY <2>1, <3>3
    <3> QED BY <3>1, <3>2, <3>3
  <2>4. ASSUME NEW p \in Nat, NEW m \in memory'[version(p)], m.val = 2 * p + 2 PROVE p < Done'
    <3>1. \/ m \in memory[version(p)]
          \/ m.val = 2 * pos + 1
          \/ EndWrite /\ m.val = 2 * pos + 2
      <4>1. CASE Claim
        <5>1. Store(producer, own[producer] + 1, released) /\ own[producer] + 1 \in Int
            BY <2>1, <4>1 DEF Claim
        <5> QED BY <1>0, <2>4, <5>1, Stored
      <4>2. CASE BeginWrite
        <5>1. Store(version(pos), 2 * pos + 1, released) /\ 2 * pos + 1 \in Int
            BY <1>0, <4>2 DEF BeginWrite
        <5> QED BY <1>0, <2>4, <5>1, Stored
      <4>3. CASE StoreWord
        <5>1. stored \in Word
            BY <1>0, <4>3, RingAssumption DEF StoreWord, Word, TypeOK
        <5>2. Store(word(pos, stored), pos, released)
            BY <4>3 DEF StoreWord
        <5> QED BY <1>0, <2>4, <5>1, <5>2, Stored
      <4>4. CASE EndWrite
        <5> DEFINE published == [own EXCEPT ![version(pos)] = 2 * pos + 2]
        <5>1. Store(version(pos), 2 * pos + 2, published) /\ 2 * pos + 2 \in Int /\ published \in View
            BY <1>0, <4>4 DEF EndWrite, View
        <5> HIDE DEF published
        <5> QED BY <1>0, <2>4, <4>4, <5>1, Stored
      <4> QED BY <1>2, <4>1, <4>2, <4>3, <4>4 DEF send
    <3>2. CASE m \in memory[version(p)]
      <4>1. p < Done
          BY <2>4, <3>2 DEF PublishedOK
      <4> QED BY <2>1, <4>1
    <3>3. CASE m.val = 2 * pos + 1
        BY <1>0, <2>4, <3>3
    <3>4. CASE EndWrite /\ m.val = 2 * pos + 2
      <4>1. p = pos
          BY <1>0, <2>4, <3>4
      <4>2. Done' = own[producer] /\ own[producer] = pos + 1
          BY <1>2, <3>4, SendSteps DEF EndWrite, Claim, BeginWrite, StoreWord, Inv, SendOK
      <4> QED BY <1>0, <4>1, <4>2
    <3> QED BY <3>1, <3>2, <3>3, <3>4
  <2> QED BY <2>3, <2>4 DEF PublishedOK
<1>3. CASE \E r \in Receiver : subscribe(r) \/ try_recv(r)
  <2>1. UNCHANGED sendVars
      BY <1>3 DEF subscribe, try_recv, LoadVersion, catch_up, LoadWord, Recheck
  <2> QED BY <1>1, <2>1
<1> QED BY <1>1, <1>2, <1>3 DEF Next, vars

\* What a step of receiver r makes of the log: it subscribes at an event that was
\* begun, is given the one it is at, which is sent, jumps forward over events the
\* sender is a ring past, or nothing shows.
LEMMA RecvSteps ==
    ASSUME Inv, PublishedOK, NEW r \in Receiver, subscribe(r) \/ try_recv(r)
    PROVE  \/ Log!Subscribe(r) \/ Log!Receive(r) \/ Log!Skip(r)
           \/ UNCHANGED Log!logVars
<1> USE Locations
<1>0. TypeOK /\ Knows(r) /\ MemoryOK
    BY DEF Inv, RecvOK
<1>1. own'[producer] = own[producer] /\ Done' = Done
  <2>1. UNCHANGED sendVars
      BY DEF subscribe, try_recv, LoadVersion, catch_up, LoadWord, Recheck
  <2> QED BY <2>1 DEF sendVars, Done
<1>2. /\ rpos \in [Receiver -> Nat] /\ laps \in [Receiver -> Nat] /\ got \in [Receiver -> Event]
      /\ state \in [Receiver -> {"none", "ready", "lapped", "reading"}] /\ view[r] \in View
      /\ own[producer] \in Int /\ Done \in Int /\ Capacity \in Nat /\ Capacity >= 2
    BY <1>0, RingAssumption DEF TypeOK, View, Done
<1>3. \A q \in Receiver : Expected[q] = IF state[q] = "none" THEN -1 ELSE rpos[q]
    BY DEF Expected
<1>4. Expected' = [q \in Receiver |-> IF state'[q] = "none" THEN -1 ELSE rpos'[q]]
    BY DEF Expected
<1>5. \A m \in memory[producer] : m.val \in Int /\ 0 <= m.val /\ m.val <= own[producer]
    BY <1>0 DEF TypeOK, Write, MemoryOK, PublishedOK
\* A step after which r, and only r, expects event p.
<1>6. ASSUME NEW p \in Nat, NEW s \in {"ready", "lapped", "reading"},
             rpos' = [rpos EXCEPT ![r] = p], state' = [state EXCEPT ![r] = s]
      PROVE  Expected' = [Expected EXCEPT ![r] = p]
  <2>1. ASSUME NEW q \in Receiver
        PROVE  (IF state'[q] = "none" THEN -1 ELSE rpos'[q]) = IF q = r THEN p ELSE Expected[q]
      BY <1>2, <1>3, <1>6
  <2> QED BY <1>4, <2>1 DEF Expected
\* A step in which no receiver moves.
<1>7. ASSUME NEW s \in {"ready", "lapped", "reading"}, state[r] # "none",
             rpos' = rpos, state' = [state EXCEPT ![r] = s] \/ state' = state
      PROVE  Expected' = Expected
    BY <1>2, <1>4, <1>7 DEF Expected
<1>8. CASE subscribe(r)
  <2>1. PICK m \in Readable(view[r], producer) : rpos' = [rpos EXCEPT ![r] = m.val]
      BY <1>8 DEF subscribe
  <2>2. m.val \in 0..own[producer] /\ m.val \in Nat
      BY <1>2, <1>5, <2>1 DEF Readable
  <2>3. state[r] = "none" /\ state' = [state EXCEPT ![r] = "ready"] /\ UNCHANGED <<laps, got>>
      BY <1>8 DEF subscribe
  <2>4. Expected' = [Expected EXCEPT ![r] = m.val] /\ Expected[r] = -1
      BY <1>3, <1>6, <2>1, <2>2, <2>3
  <2>5. Log!Subscribe(r)
      BY <1>1, <2>2, <2>3, <2>4 DEF Log!Subscribe
  <2> QED BY <2>5
<1>9. CASE LoadVersion(r)
  <2>1. PICK m \in Readable(view[r], version(rpos[r])) : state' = [state EXCEPT ![r] = FirstLook(m.val, want(r))]
      BY <1>9 DEF LoadVersion
  <2>2. FirstLook(m.val, want(r)) \in {"ready", "lapped", "reading"}
      BY DEF FirstLook
  <2>3. state[r] # "none" /\ UNCHANGED <<rpos, laps, got>>
      BY <1>9 DEF LoadVersion
  <2>4. Expected' = Expected
      BY <1>7, <2>1, <2>2, <2>3
  <2> QED BY <1>1, <2>3, <2>4 DEF Log!logVars
<1>10. CASE catch_up(r)
  <2>1. PICK m \in Readable(view[r], producer) : rpos' = [rpos EXCEPT ![r] = saturating_sub(m.val, Capacity \div 2)]
      BY <1>10 DEF catch_up
  <2>2. state[r] = "lapped" /\ state' = [state EXCEPT ![r] = "ready"] /\ laps' = [laps EXCEPT ![r] = @ + 1] /\ UNCHANGED got
      BY <1>10 DEF catch_up
  <2>3. view[r][producer] \in Int /\ view[r][producer] >= rpos[r] + Capacity /\ own[producer] > rpos[r] + Capacity
      BY <1>0, <1>2, <2>2 DEF Knows, View
  <2>4. m.val \in Int /\ m.val >= view[r][producer] /\ m.val <= own[producer]
      BY <1>5, <2>1 DEF Readable
  <2>5. Capacity \div 2 \in Int /\ 1 <= Capacity \div 2 /\ Capacity \div 2 < Capacity
      BY <1>2
  <2> DEFINE p == saturating_sub(m.val, Capacity \div 2)
  <2>6. rpos[r] \in Nat
      BY <1>2
  <2>7. m.val >= rpos[r] + Capacity
      BY <1>2, <2>3, <2>4, <2>6
  <2>8. p = m.val - (Capacity \div 2)
      BY <1>2, <2>4, <2>5, <2>6, <2>7 DEF saturating_sub
  <2>9. p \in Nat /\ p \in (rpos[r] + 1)..(own[producer] - 1)
      BY <1>2, <2>4, <2>5, <2>6, <2>7, <2>8
  <2> HIDE DEF p
  <2>10. Expected' = [Expected EXCEPT ![r] = p] /\ Expected[r] = rpos[r]
      BY <1>3, <1>6, <2>1, <2>2, <2>9 DEF p
  <2>11. Expected[r] >= 0 /\ own[producer] > Expected[r] + Capacity /\ p \in (Expected[r] + 1)..(own[producer] - 1)
    <3>1. rpos[r] >= 0
        BY <2>6
    <3> QED BY <2>3, <2>9, <2>10, <3>1
  <2>12. \E x \in (Expected[r] + 1)..(own[producer] - 1) : Expected' = [Expected EXCEPT ![r] = x]
      BY <2>10, <2>11
  <2>13. Log!Skip(r)
      BY <1>1, <2>2, <2>11, <2>12 DEF Log!Skip
  <2> QED BY <2>13
<1>11. CASE LoadWord(r)
  <2>1. state[r] = "reading" /\ UNCHANGED <<state, rpos, laps, got>>
      BY <1>11 DEF LoadWord
  <2>2. Expected' = Expected
      BY <1>7, <2>1
  <2> QED BY <1>1, <2>1, <2>2 DEF Log!logVars
<1>12. CASE Recheck(r)
  <2>1. state[r] = "reading" /\ state' = [state EXCEPT ![r] = "ready"] /\ UNCHANGED laps
      BY <1>12 DEF Recheck
  <2>2. CASE UNCHANGED <<got, rpos>>
    <3>1. Expected' = Expected
        BY <1>7, <2>1, <2>2
    <3> QED BY <1>1, <2>1, <2>2, <3>1 DEF Log!logVars
  <2>3. ASSUME NEW m \in memory[version(rpos[r])], m.val = want(r),
               got' = [got EXCEPT ![r] = [pos |-> rpos[r], words |-> staged[r]]],
               rpos' = [rpos EXCEPT ![r] = @ + 1]
        PROVE  Log!Receive(r)
    <3>1. rpos[r] \in Nat
        BY <1>2
    <3>2. rpos[r] < Done
        BY <2>3, <3>1 DEF PublishedOK, want
    <3>3. Expected[r] = rpos[r] /\ Expected[r] \in 0..(Done - 1)
        BY <1>2, <1>3, <2>1, <3>1, <3>2
    <3>4. Expected' = [Expected EXCEPT ![r] = rpos[r] + 1]
      <4>1. rpos' = [rpos EXCEPT ![r] = rpos[r] + 1] /\ rpos[r] + 1 \in Nat
          BY <2>3, <3>1
      <4> QED BY <1>6, <2>1, <4>1
    <3>5. got'[r] = [pos |-> rpos[r], words |-> staged[r]]
        BY <1>2, <2>3
    <3>6. \A i \in Word : staged[r][i] = rpos[r]
      <4>1. Inv'
          BY RecvPreserves
      <4>2. \A i \in Word : got'[r].words[i] = got'[r].pos
          BY <4>1 DEF Inv, RecvOK, Knows
      <4> QED BY <3>5, <4>2
    <3>7. staged[r] = [i \in Word |-> rpos[r]]
      <4>1. staged[r] \in [Word -> Int]
          BY <1>0 DEF TypeOK
      <4> QED BY <3>6, <4>1
    <3>8. Log!Sent(rpos[r]) = [pos |-> rpos[r], words |-> staged[r]]
        BY <3>7 DEF Log!Sent
    <3>9. got' = [got EXCEPT ![r] = Log!Sent(Expected[r])]
        BY <2>3, <3>3, <3>8
    <3> QED BY <1>1, <2>1, <3>3, <3>4, <3>9 DEF Log!Receive
  <2> QED BY <1>12, <2>2, <2>3 DEF Recheck, Readable
<1> QED BY <1>8, <1>9, <1>10, <1>11, <1>12 DEF try_recv

\* For a ring of any size, any number of receivers and any number of words, and
\* on a memory as weak as C11 atomics, send, subscribe and try_recv implement
\* EventLog: what a subscriber is given is an unbroken run of whole events
\* except where it was lapped, and every such gap is counted by lap_count.
THEOREM RingImplementsLog == Spec => FollowsLog
<1>1. Init => Log!Init
  <2> SUFFICES ASSUME Init PROVE Log!Init
      OBVIOUS
  <2>1. own[producer] = 0 /\ Done = 0
      BY FreshRing DEF Init, Done
  <2>2. Expected = [r \in Receiver |-> -1]
      BY DEF Init, Expected
  <2>3. NoEvent = Log!Sent(-1)
      BY DEF NoEvent, NoWords, Log!Sent
  <2> QED BY <2>1, <2>2, <2>3 DEF Init, Log!Init
<1>2. Inv /\ PublishedOK /\ [Next]_vars => [Log!Next]_(Log!logVars)
  <2> SUFFICES ASSUME Inv, PublishedOK, [Next]_vars PROVE [Log!Next]_(Log!logVars)
      OBVIOUS
  <2>1. CASE send
    <3>1. UNCHANGED recvVars
        BY <2>1 DEF send, Claim, BeginWrite, StoreWord, EndWrite
    <3>2. UNCHANGED <<Expected, laps, got>>
        BY <3>1 DEF recvVars, Expected
    <3>3. \/ own[producer] = Done /\ own'[producer] = own[producer] + 1 /\ Done' = Done
          \/ Done < own[producer] /\ own'[producer] = own[producer] /\ Done' = own[producer]
          \/ own'[producer] = own[producer] /\ Done' = Done
        BY <2>1, SendSteps
    <3> QED BY <3>2, <3>3 DEF Log!logVars, Log!Next, Log!Begin, Log!Finish
  <2>2. ASSUME NEW r \in Receiver, subscribe(r) \/ try_recv(r) PROVE [Log!Next]_(Log!logVars)
      BY <2>2, RecvSteps DEF Log!Next
  <2>3. CASE UNCHANGED vars
      BY <2>3 DEF Log!logVars, vars, sendVars, recvVars, Expected, Done
  <2> QED BY <2>1, <2>2, <2>3 DEF Next
<1>3. Spec => []PublishedOK
  <2>1. Init => PublishedOK
      BY NothingPublished
  <2>2. Inv /\ PublishedOK /\ [Next]_vars => PublishedOK'
      BY PublishedKept
  <2> QED BY <2>1, <2>2, Invariance, PTL DEF Spec
<1> QED BY <1>1, <1>2, <1>3, Invariance, PTL DEF Spec, FollowsLog, Log!Spec
=============================================================================
