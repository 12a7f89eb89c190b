--------------------------- MODULE RegistryProofs ---------------------------
(***************************************************************************)
(* Proofs about Registry, for every set of hosts, groups and players and   *)
(* every size of the table.                                                *)
(***************************************************************************)
EXTENDS Registry, SequenceTheorems, WellFoundedInduction, TLAPS

Removing == {"found", "ping", "delete", "join"}

\* Who removes a device is at one.
AtSlots == \A t \in Threads : proc[t].at \in Removing => proc[t].slot \in Slots

\* What holds of the table whatever the threads do to each other's slots.
Table == TypeOK /\ AtSlots /\ OneEntryPerDevice /\ ClaimantsListed

-----------------------------------------------------------------------------
\* RemoveFirst takes one entry out, if there is one.
LEMMA RemoveFirstIsRemoveAt ==
  ASSUME NEW S, NEW s \in Seq(S), NEW e
  PROVE  \/ RemoveFirst(s, e) = s
         \/ \E i \in 1..Len(s) : s[i] = e /\ (\A j \in 1..i - 1 : s[j] # e)
                                 /\ RemoveFirst(s, e) = RemoveAt(s, i)
<1> DEFINE I == {i \in 1..Len(s) : s[i] = e}
<1>1. CASE I = {}
  <2>1. ~\E i \in 1..Len(s) : s[i] = e
    BY <1>1
  <2> QED BY <2>1 DEF RemoveFirst
<1>2. CASE I # {}
  <2>1. I \subseteq Nat
    BY LenProperties
  <2>2. PICK i \in I : \A j \in I : ~(<<j, i>> \in OpToRel(<, Nat))
    BY <1>2, <2>1, WFMin, NatLessThanWellFounded, Zenon
  <2>3. \A j \in I : i <= j
    <3> SUFFICES ASSUME NEW j \in I, j < i PROVE FALSE
      BY <2>1
    <3>1. <<j, i>> \in Nat \X Nat /\ <<j, i>>[1] = j /\ <<j, i>>[2] = i
      BY <2>1
    <3>2. <<j, i>> \in OpToRel(<, Nat)
      BY <3>1 DEF OpToRel
    <3> QED BY <2>2, <3>2
  <2>4. Min(I) = i
    BY <2>1, <2>3 DEF Min
  <2>5. RemoveFirst(s, e) = RemoveAt(s, i)
    BY <1>2, <2>4 DEF RemoveFirst, SelectInSeq
  <2>6. i \in 1..Len(s) /\ s[i] = e /\ \A j \in 1..i - 1 : s[j] # e
    BY <2>3, LenProperties
  <2> QED BY <2>5, <2>6
<1> QED BY <1>1, <1>2

LEMMA RemoveAtKeeps ==
  ASSUME NEW S, NEW s \in Seq(S), NEW i \in 1..Len(s)
  PROVE  /\ RemoveAt(s, i) \in Seq(S)
         /\ Len(RemoveAt(s, i)) = Len(s) - 1
         /\ Range(s) \subseteq Range(RemoveAt(s, i)) \cup {s[i]}
         /\ i > 1 => Head(RemoveAt(s, i)) = Head(s)
<1> DEFINE a == SubSeq(s, 1, i - 1)
           b == SubSeq(s, i + 1, Len(s))
<1>1. Len(s) \in Nat /\ i \in Nat
  BY LenProperties
<1>2. a \in Seq(S) /\ Len(a) = i - 1 /\ \A k \in 1..i - 1 : a[k] = s[k]
  BY <1>1, SubSeqProperties
<1>3. b \in Seq(S) /\ Len(b) = Len(s) - i /\ \A k \in 1..Len(s) - i : b[k] = s[k + i]
  BY <1>1, SubSeqProperties
<1> HIDE DEF a, b
<1>4. RemoveAt(s, i) = a \o b
  BY DEF RemoveAt, a, b
<1>5. /\ a \o b \in Seq(S) /\ Len(a \o b) = Len(a) + Len(b)
      /\ \A k \in 1..Len(a) + Len(b) : (a \o b)[k] = IF k <= Len(a) THEN a[k] ELSE b[k - Len(a)]
  BY <1>2, <1>3, ConcatProperties
<1>6. \A k \in 1..i - 1 : k \in 1..Len(a \o b) /\ (a \o b)[k] = s[k]
  BY <1>1, <1>2, <1>3, <1>5
<1>7. \A k \in i + 1..Len(s) : k - 1 \in 1..Len(a \o b) /\ (a \o b)[k - 1] = s[k]
  <2> SUFFICES ASSUME NEW k \in i + 1..Len(s)
               PROVE  k - 1 \in 1..Len(a \o b) /\ (a \o b)[k - 1] = s[k]
    OBVIOUS
  <2>1. k - 1 \in 1..Len(a) + Len(b) /\ ~(k - 1 <= Len(a)) /\ k - 1 - Len(a) = k - i
    BY <1>1, <1>2, <1>3
  <2>2. k - i \in 1..Len(s) - i /\ (k - i) + i = k
    BY <1>1
  <2> QED BY <1>3, <1>5, <2>1, <2>2
<1>8. Range(s) \subseteq Range(a \o b) \cup {s[i]}
  <2> SUFFICES ASSUME NEW k \in 1..Len(s)
               PROVE  s[k] \in Range(a \o b) \cup {s[i]}
    BY LenProperties DEF Range
  <2>1. DOMAIN (a \o b) = 1..Len(a \o b)
    BY <1>5, LenProperties
  <2>2. CASE k \in 1..i - 1
    BY <1>6, <2>1, <2>2 DEF Range
  <2>3. CASE k \in i + 1..Len(s)
    BY <1>7, <2>1, <2>3 DEF Range
  <2> QED BY <1>1, <2>2, <2>3
<1>9. i > 1 => Head(a \o b) = Head(s)
  BY <1>1, <1>2, <1>3, <1>5, <1>6
<1> QED BY <1>1, <1>2, <1>3, <1>4, <1>5, <1>8, <1>9

\* What a retraction leaves of the candidates.
LEMMA FirstRemoved ==
  ASSUME NEW S, NEW s \in Seq(S), NEW e, Len(s) > 1
  PROVE  /\ RemoveFirst(s, e) \in Seq(S) /\ RemoveFirst(s, e) # <<>>
         /\ Range(s) \subseteq Range(RemoveFirst(s, e)) \cup {e}
         /\ Head(s) # e => Head(RemoveFirst(s, e)) = Head(s)
<1>1. CASE RemoveFirst(s, e) = s
  BY <1>1
<1>2. CASE \E i \in 1..Len(s) : s[i] = e /\ (\A j \in 1..i - 1 : s[j] # e)
                                 /\ RemoveFirst(s, e) = RemoveAt(s, i)
  <2>1. PICK i \in 1..Len(s) : s[i] = e /\ RemoveFirst(s, e) = RemoveAt(s, i)
    BY <1>2
  <2>2. Len(s) \in Nat /\ Len(RemoveAt(s, i)) = Len(s) - 1 /\ RemoveAt(s, i) \in Seq(S)
    BY LenProperties, RemoveAtKeeps
  <2>3. RemoveAt(s, i) # <<>>
    BY <2>2, EmptySeq
  <2>4. Head(s) # e => i > 1
    BY <2>1, <2>2
  <2> QED BY <2>1, <2>2, <2>3, <2>4, RemoveAtKeeps
<1> QED BY <1>1, <1>2, RemoveFirstIsRemoveAt

LEMMA HeadRemoved ==
  ASSUME NEW S, NEW s \in Seq(S), Len(s) > 1
  PROVE  /\ Tail(s) \in Seq(S) /\ Tail(s) # <<>>
         /\ Range(s) \subseteq Range(Tail(s)) \cup {Head(s)}
         /\ Head(Tail(s)) = s[2] /\ s[2] \in S
<1>1. Len(s) \in Nat /\ s # <<>>
  BY LenProperties, EmptySeq
<1>2. Tail(s) \in Seq(S) /\ Len(Tail(s)) = Len(s) - 1 /\ \A i \in 1..Len(Tail(s)) : Tail(s)[i] = s[i + 1]
  BY <1>1, HeadTailProperties
<1>3. Range(s) \subseteq Range(Tail(s)) \cup {Head(s)}
  <2> SUFFICES ASSUME NEW k \in 1..Len(s), k # 1
               PROVE  s[k] \in Range(Tail(s))
    BY LenProperties DEF Range
  <2>1. k - 1 \in 1..Len(Tail(s)) /\ Tail(s)[k - 1] = s[k]
    BY <1>1, <1>2
  <2> QED BY <1>2, <2>1, LenProperties DEF Range
<1>4. s[2] \in S
  BY <1>1, ElementOfSeq
<1>5. Tail(s) # <<>>
  <2>1. Len(Tail(s)) # 0
    BY <1>1, <1>2
  <2>2. Len(<<>>) = 0
    OBVIOUS
  <2> QED BY <2>1, <2>2
<1>6. Head(Tail(s)) = s[2]
  BY <1>1, <1>2
<1> QED BY <1>2, <1>3, <1>4, <1>5, <1>6

LEMMA Prepended ==
  ASSUME NEW S, NEW s \in Seq(S), NEW e \in S
  PROVE  /\ <<e>> \o s \in Seq(S) /\ <<e>> \o s # <<>>
         /\ Range(s) \cup {e} \subseteq Range(<<e>> \o s)
         /\ Head(<<e>> \o s) = e
<1>1. <<e>> \in Seq(S) /\ Len(<<e>>) = 1 /\ <<e>>[1] = e /\ Len(s) \in Nat
  BY LenProperties
<1>2. /\ <<e>> \o s \in Seq(S) /\ Len(<<e>> \o s) = 1 + Len(s)
      /\ \A k \in 1..1 + Len(s) : (<<e>> \o s)[k] = IF k <= 1 THEN <<e>>[k] ELSE s[k - 1]
  BY <1>1, ConcatProperties
<1>3. (<<e>> \o s)[1] = e /\ \A k \in 1..Len(s) : k + 1 \in 1..1 + Len(s) /\ (<<e>> \o s)[k + 1] = s[k]
  BY <1>1, <1>2
<1>4. DOMAIN (<<e>> \o s) = 1..1 + Len(s) /\ DOMAIN s = 1..Len(s)
  BY <1>2, LenProperties
<1>5. <<e>> \o s # <<>>
  BY <1>1, <1>2, EmptySeq
<1>6. e \in Range(<<e>> \o s)
  <2>1. 1 \in 1..1 + Len(s)
    BY <1>1
  <2> QED BY <1>3, <1>4, <2>1 DEF Range
<1>7. Range(s) \subseteq Range(<<e>> \o s)
  <2> SUFFICES ASSUME NEW k \in 1..Len(s)
               PROVE  s[k] \in Range(<<e>> \o s)
    BY <1>4 DEF Range
  <2> QED BY <1>3, <1>4 DEF Range
<1> QED BY <1>2, <1>3, <1>5, <1>6, <1>7

-----------------------------------------------------------------------------
LEMMA SlotsAreNat ==
  /\ MaxDevices \in Nat /\ MaxDevices > 0 /\ MaxMasters \in Nat
  /\ Slots \subseteq 1..MaxDevices + 1 /\ 1 \in 1..MaxDevices + 1
  /\ \A d \in Slots : d + 1 \in 1..MaxDevices + 1
BY RegistryAssumption DEF Slots

LEMMA FreeIsDevice == Free \in DeviceType /\ ~Free.running
BY EmptySeq DEF Free, DeviceType

LEMMA RecordTypes ==
  ASSUME NEW rec \in Records
  PROVE  /\ rec.udn \in UDNs /\ rec.host \in Hosts /\ rec.addr \in Hosts /\ rec.expired \in BOOLEAN
         /\ rec.udn \in Groups => rec.host = rec.addr
BY DEF Records

\* One slot is written and the claims of the others do not grow.
LEMMA SlotWritten ==
  ASSUME Table, NEW d \in Slots,
         device' \in [Slots -> DeviceType], claims' \in [Groups -> SUBSET Hosts],
         \A e \in Slots \ {d} :
           /\ device'[e] = device[e]
           /\ device[e].running /\ device[e].udn \in Groups =>
                claims'[device[e].udn] \subseteq claims[device[e].udn],
         device'[d].running =>
           /\ \A e \in Slots \ {d} : device[e].running => device[e].udn # device'[d].udn
           /\ device'[d].udn \in Groups =>
                /\ device'[d].masters # <<>>
                /\ claims'[device'[d].udn] \subseteq Range(device'[d].masters)
                /\ device'[d].addr = Head(device'[d].masters)
  PROVE  /\ \A e \in Slots : device'[e].running /\ device'[e].udn \in Groups => device'[e].masters # <<>>
         /\ OneEntryPerDevice' /\ ClaimantsListed'
<1>1. \A e \in Slots : device'[e].running /\ device'[e].udn \in Groups => device'[e].masters # <<>>
  BY DEF Table, TypeOK
<1>2. OneEntryPerDevice'
  BY DEF Table, OneEntryPerDevice
<1>3. ClaimantsListed'
  <2> SUFFICES ASSUME NEW e \in Slots, device'[e].running, device'[e].udn \in Groups
               PROVE  claims'[device'[e].udn] \subseteq Range(device'[e].masters)
                      /\ device'[e].addr = Head(device'[e].masters)
    BY DEF ClaimantsListed
  <2>1. CASE e = d
    BY <2>1
  <2>2. CASE e # d
    BY <2>2 DEF Table, ClaimantsListed
  <2> QED BY <2>1, <2>2
<1> QED BY <1>1, <1>2, <1>3

\* The usual case: what the slot says of who it is does not change, or it no
\* longer runs.
LEMMA SlotTouched ==
  ASSUME Table, NEW d \in Slots, device' \in [Slots -> DeviceType],
         \A e \in Slots \ {d} : device'[e] = device[e],
         device'[d].running =>
           /\ device[d].running /\ device'[d].udn = device[d].udn
           /\ device'[d].masters = device[d].masters /\ device'[d].addr = device[d].addr,
         claims' \in [Groups -> SUBSET Hosts],
         \A g \in Groups : claims'[g] \subseteq claims[g]
  PROVE  /\ \A e \in Slots : device'[e].running /\ device'[e].udn \in Groups => device'[e].masters # <<>>
         /\ OneEntryPerDevice' /\ ClaimantsListed'
<1>1. device'[d].running =>
        \A e \in Slots \ {d} : device[e].running => device[e].udn # device'[d].udn
  BY DEF Table, OneEntryPerDevice
<1>2. device'[d].running /\ device'[d].udn \in Groups =>
        /\ device'[d].masters # <<>>
        /\ claims'[device'[d].udn] \subseteq Range(device'[d].masters)
        /\ device'[d].addr = Head(device'[d].masters)
  BY DEF Table, TypeOK, ClaimantsListed
<1> QED BY <1>1, <1>2, SlotWritten

\* The records.  A host that announces a group it is not the master of comes
\* first in the list.
LEMMA AnnouncedIs ==
  ASSUME NEW dev \in DeviceType, dev.running, dev.udn \in Groups => dev.masters # <<>>,
         dev.udn \in Groups => dev.addr = Head(dev.masters),
         NEW host \in Hosts, NEW addr \in Hosts, dev.udn \in Groups => host = addr,
         NEW new, new = Announced([dev EXCEPT !.expired = "no"], host, addr)
  PROVE  /\ new \in DeviceType /\ new.running /\ new.udn = dev.udn
         /\ new.expired = "no" /\ new.ctx = dev.ctx
         /\ dev.udn \in Groups =>
              /\ new.masters # <<>> /\ new.addr = Head(new.masters)
              /\ Range(dev.masters) \cup {host} \subseteq Range(new.masters)
<1>1. /\ dev.masters \in Seq(Hosts) /\ dev.addr \in Hosts \cup {None}
      /\ dev.ctx \in {"none", "live"} /\ dev.udn \in UDNs \cup {None} /\ dev.connected \in BOOLEAN
  BY DEF DeviceType
<1> DEFINE linked == dev.connected /\ dev.addr = addr
<1>4. linked \in BOOLEAN
  OBVIOUS
<1>2. CASE dev.udn \in Groups /\ Head(dev.masters) # addr
  <2>1. new = [dev EXCEPT !.masters = <<host>> \o dev.masters, !.addr = addr, !.expired = "no",
                          !.connected = linked]
    BY <1>2 DEF Announced, Addressed, DeviceType
  <2>2. /\ <<host>> \o dev.masters \in Seq(Hosts) /\ <<host>> \o dev.masters # <<>>
        /\ Range(dev.masters) \cup {host} \subseteq Range(<<host>> \o dev.masters)
        /\ Head(<<host>> \o dev.masters) = host
    BY <1>1, Prepended
  <2> HIDE DEF linked
  <2>3. new \in DeviceType
    BY <1>1, <1>4, <2>1, <2>2 DEF DeviceType
  <2>4. /\ new.masters = <<host>> \o dev.masters /\ new.addr = addr /\ new.running
        /\ new.udn = dev.udn /\ new.expired = "no" /\ new.ctx = dev.ctx
    BY <2>1 DEF DeviceType
  <2> QED BY <1>2, <2>2, <2>3, <2>4
<1>3. CASE ~(dev.udn \in Groups /\ Head(dev.masters) # addr)
  <2>1. new = [dev EXCEPT !.addr = addr, !.expired = "no",
                          !.connected = linked]
    BY <1>3 DEF Announced, Addressed, DeviceType
  <2> HIDE DEF linked
  <2>2. new \in DeviceType
    BY <1>1, <1>4, <2>1 DEF DeviceType
  <2>3. /\ new.masters = dev.masters /\ new.addr = addr /\ new.running
        /\ new.udn = dev.udn /\ new.expired = "no" /\ new.ctx = dev.ctx
    BY <2>1 DEF DeviceType
  <2>4. ASSUME dev.udn \in Groups
        PROVE  host \in Range(dev.masters)
    <3>1. Head(dev.masters) = host /\ Len(dev.masters) \in Nat /\ DOMAIN dev.masters = 1..Len(dev.masters)
      BY <1>1, <1>3, <2>4, LenProperties
    <3>2. 1 \in 1..Len(dev.masters) /\ dev.masters[1] = host
      BY <1>1, <2>4, <3>1, EmptySeq
    <3> QED BY <3>1, <3>2 DEF Range
  <2> QED BY <1>3, <2>2, <2>3, <2>4
<1> QED BY <1>2, <1>3

\* A retraction takes at most the host off the list.
LEMMA RetractedIs ==
  ASSUME NEW dev \in DeviceType, dev.running, Len(dev.masters) > 1,
         dev.udn \in Groups => dev.addr = Head(dev.masters),
         NEW host \in Hosts,
         NEW new, new = Retracted([dev EXCEPT !.expired = "no"], host)
  PROVE  /\ new \in DeviceType /\ new.running /\ new.udn = dev.udn
         /\ new.expired = "no" /\ new.ctx = dev.ctx
         /\ dev.udn \in Groups =>
              /\ new.masters # <<>> /\ new.addr = Head(new.masters)
              /\ Range(dev.masters) \subseteq Range(new.masters) \cup {host}
<1>1. /\ dev.masters \in Seq(Hosts) /\ dev.addr \in Hosts \cup {None}
      /\ dev.ctx \in {"none", "live"} /\ dev.udn \in UDNs \cup {None} /\ dev.connected \in BOOLEAN
  BY DEF DeviceType
<1>2. CASE Head(dev.masters) = host
  <2> DEFINE left == Tail(dev.masters)
             linked == dev.connected /\ dev.addr = dev.masters[2]
  <2>1. new = [dev EXCEPT !.masters = left, !.addr = dev.masters[2], !.expired = "no",
                          !.connected = linked]
    BY <1>2 DEF Retracted, WithoutHead, Addressed, DeviceType
  <2>2. /\ left \in Seq(Hosts) /\ left # <<>> /\ Range(dev.masters) \subseteq Range(left) \cup {host}
        /\ Head(left) = dev.masters[2] /\ dev.masters[2] \in Hosts
    BY <1>1, <1>2, HeadRemoved
  <2>5. linked \in BOOLEAN
    OBVIOUS
  <2> HIDE DEF left, linked
  <2>3. new \in DeviceType
    BY <1>1, <2>1, <2>2, <2>5 DEF DeviceType
  <2>4. /\ new.masters = left /\ new.addr = dev.masters[2] /\ new.running
        /\ new.udn = dev.udn /\ new.expired = "no" /\ new.ctx = dev.ctx
    BY <2>1 DEF DeviceType
  <2> QED BY <2>2, <2>3, <2>4
<1>3. CASE Head(dev.masters) # host
  <2> DEFINE left == RemoveFirst(dev.masters, host)
  <2>1. new = [dev EXCEPT !.expired = "no", !.masters = left]
    BY <1>3 DEF Retracted, WithoutMember, DeviceType
  <2>2. /\ left \in Seq(Hosts) /\ left # <<>> /\ Range(dev.masters) \subseteq Range(left) \cup {host}
        /\ Head(left) = Head(dev.masters)
    BY <1>1, <1>3, FirstRemoved
  <2> HIDE DEF left
  <2>3. new \in DeviceType
    BY <2>1, <2>2 DEF DeviceType
  <2>4. /\ new.masters = left /\ new.addr = dev.addr /\ new.running
        /\ new.udn = dev.udn /\ new.expired = "no" /\ new.ctx = dev.ctx
    BY <2>1 DEF DeviceType
  <2> QED BY <2>2, <2>3, <2>4
<1> QED BY <1>2, <1>3

LEMMA Claimed ==
  ASSUME TypeOK, NEW rec \in Records, Claim(rec)
  PROVE  /\ claims' \in [Groups -> SUBSET Hosts]
         /\ \A g \in Groups \ {rec.udn} : claims'[g] = claims[g]
         /\ rec.udn \in Groups =>
              claims'[rec.udn] = IF rec.expired THEN claims[rec.udn] \ {rec.host}
                                 ELSE IF SearchUDN(rec.udn) = {} THEN {rec.host}
                                 ELSE claims[rec.udn] \cup {rec.host}
<1>1. rec.host \in Hosts /\ claims \in [Groups -> SUBSET Hosts]
  BY RecordTypes DEF TypeOK
<1>2. CASE rec.udn \notin Groups
  BY <1>1, <1>2 DEF Claim
<1>3. CASE rec.udn \in Groups
  <2> DEFINE new == IF rec.expired THEN claims[rec.udn] \ {rec.host}
                    ELSE IF SearchUDN(rec.udn) = {} THEN {rec.host}
                    ELSE claims[rec.udn] \cup {rec.host}
  <2>1. claims' = [claims EXCEPT ![rec.udn] = new]
    BY <1>3 DEF Claim
  <2>2. new \in SUBSET Hosts
    BY <1>1, <1>3
  <2> HIDE DEF new
  <2>3. /\ claims' \in [Groups -> SUBSET Hosts] /\ claims'[rec.udn] = new
        /\ \A g \in Groups \ {rec.udn} : claims'[g] = claims[g]
    BY <1>1, <1>3, <2>1, <2>2
  <2> QED BY <2>3 DEF new
<1> QED BY <1>2, <1>3

\* What a record does to the table.
LEMMA RefreshKeeps ==
  ASSUME Table, NEW rec \in Records, NEW d \in Slots, Refresh(rec, d)
  PROVE  Table'
<1> DEFINE dev == device[d]
           new == Announced([dev EXCEPT !.expired = "no"], rec.host, rec.addr)
<1>1. /\ dev \in DeviceType /\ dev.running /\ dev.udn = rec.udn
      /\ dev.udn \in Groups => dev.masters # <<>> /\ claims[dev.udn] \subseteq Range(dev.masters)
                               /\ dev.addr = Head(dev.masters)
  BY DEF Refresh, SearchUDN, Table, TypeOK, ClaimantsListed
<1>2. /\ rec.host \in Hosts /\ rec.addr \in Hosts
      /\ dev.udn \in Groups => rec.host = rec.addr
  BY <1>1, RecordTypes
<1>3. new = Announced([dev EXCEPT !.expired = "no"], rec.host, rec.addr)
  OBVIOUS
<1>4. device' = [device EXCEPT ![d] = new]
  BY DEF Refresh
<1> HIDE DEF dev, new
<1>5. /\ new \in DeviceType /\ new.running /\ new.udn = dev.udn
      /\ dev.udn \in Groups =>
           /\ new.masters # <<>> /\ new.addr = Head(new.masters)
           /\ Range(dev.masters) \cup {rec.host} \subseteq Range(new.masters)
  BY <1>1, <1>2, <1>3, AnnouncedIs
<1>6. /\ device' \in [Slots -> DeviceType] /\ device'[d] = new
      /\ \A e \in Slots \ {d} : device'[e] = device[e]
  BY <1>4, <1>5 DEF Table, TypeOK
<1>7. \A e \in Slots \ {d} : device[e].running => device[e].udn # new.udn
  BY <1>1, <1>5 DEF Table, OneEntryPerDevice, dev
<1>8. /\ claims' \in [Groups -> SUBSET Hosts]
      /\ \A g \in Groups \ {rec.udn} : claims'[g] = claims[g]
      /\ rec.udn \in Groups => claims'[rec.udn] = claims[rec.udn] \cup {rec.host}
  <2>1. Claim(rec) /\ ~rec.expired /\ SearchUDN(rec.udn) # {}
    BY DEF Refresh
  <2> QED BY <2>1, Claimed DEF Table
<1>9. new.udn \in Groups => claims'[new.udn] \subseteq Range(new.masters)
  BY <1>1, <1>5, <1>8
<1>10. \A e \in Slots \ {d} :
         device[e].running /\ device[e].udn \in Groups => claims'[device[e].udn] \subseteq claims[device[e].udn]
  BY <1>1, <1>5, <1>7, <1>8
<1>11. /\ \A e \in Slots : device'[e].running /\ device'[e].udn \in Groups => device'[e].masters # <<>>
       /\ OneEntryPerDevice' /\ ClaimantsListed'
  BY <1>5, <1>6, <1>7, <1>8, <1>9, <1>10, SlotWritten
<1> QED BY <1>6, <1>8, <1>11 DEF Refresh, Table, TypeOK, AtSlots

LEMMA RetractKeeps ==
  ASSUME Table, NEW rec \in Records, NEW d \in Slots, Retract(rec, d)
  PROVE  Table'
<1> DEFINE dev == device[d]
           new == Retracted([dev EXCEPT !.expired = "no"], rec.host)
<1>1. /\ dev \in DeviceType /\ dev.running /\ dev.udn = rec.udn /\ Len(dev.masters) > 1
      /\ dev.udn \in Groups => claims[dev.udn] \subseteq Range(dev.masters)
                               /\ dev.addr = Head(dev.masters)
  BY DEF Retract, SearchUDN, Table, TypeOK, ClaimantsListed
<1>2. rec.host \in Hosts
  BY RecordTypes
<1>3. new = Retracted([dev EXCEPT !.expired = "no"], rec.host)
  OBVIOUS
<1>4. device' = [device EXCEPT ![d] = new]
  BY DEF Retract
<1> HIDE DEF dev, new
<1>5. /\ new \in DeviceType /\ new.running /\ new.udn = dev.udn
      /\ dev.udn \in Groups =>
           /\ new.masters # <<>> /\ new.addr = Head(new.masters)
           /\ Range(dev.masters) \subseteq Range(new.masters) \cup {rec.host}
  BY <1>1, <1>2, <1>3, RetractedIs
<1>6. /\ device' \in [Slots -> DeviceType] /\ device'[d] = new
      /\ \A e \in Slots \ {d} : device'[e] = device[e]
  BY <1>4, <1>5 DEF Table, TypeOK
<1>7. \A e \in Slots \ {d} : device[e].running => device[e].udn # new.udn
  BY <1>1, <1>5 DEF Table, OneEntryPerDevice, dev
<1>8. /\ claims' \in [Groups -> SUBSET Hosts]
      /\ \A g \in Groups \ {rec.udn} : claims'[g] = claims[g]
      /\ rec.udn \in Groups => claims'[rec.udn] = claims[rec.udn] \ {rec.host}
  <2>1. Claim(rec) /\ rec.expired
    BY DEF Retract
  <2> QED BY <2>1, Claimed DEF Table
<1>9. new.udn \in Groups => claims'[new.udn] \subseteq Range(new.masters)
  BY <1>1, <1>5, <1>8
<1>10. \A e \in Slots \ {d} :
         device[e].running /\ device[e].udn \in Groups => claims'[device[e].udn] \subseteq claims[device[e].udn]
  BY <1>1, <1>5, <1>7, <1>8
<1>11. /\ \A e \in Slots : device'[e].running /\ device'[e].udn \in Groups => device'[e].masters # <<>>
       /\ OneEntryPerDevice' /\ ClaimantsListed'
  BY <1>5, <1>6, <1>7, <1>8, <1>9, <1>10, SlotWritten
<1> QED BY <1>6, <1>8, <1>11 DEF Retract, Table, TypeOK, AtSlots

LEMMA ExpireKeeps ==
  ASSUME Table, NEW rec \in Records, NEW d \in Slots, Expire(rec, d)
  PROVE  Table'
<1>1. \E x \in {"no", "recent"} : device' = [device EXCEPT ![d].expired = x]
  BY DEF Expire
<1>2. PICK x \in {"no", "recent"} : device' = [device EXCEPT ![d].expired = x]
  BY <1>1
<1>3. device \in [Slots -> DeviceType] /\ device[d] \in DeviceType
  BY DEF Table, TypeOK
<1>4. [device[d] EXCEPT !.expired = x] \in DeviceType
  BY <1>3 DEF DeviceType
<1>5. /\ device' \in [Slots -> DeviceType] /\ device'[d] = [device[d] EXCEPT !.expired = x]
      /\ \A e \in Slots \ {d} : device'[e] = device[e]
  BY <1>2, <1>3, <1>4
<1>6. /\ device'[d].running = device[d].running /\ device'[d].udn = device[d].udn
      /\ device'[d].masters = device[d].masters /\ device'[d].addr = device[d].addr
  BY <1>3, <1>5 DEF DeviceType
<1>7. /\ claims' \in [Groups -> SUBSET Hosts]
      /\ \A g \in Groups : claims'[g] \subseteq claims[g]
  <2>1. Claim(rec) /\ rec.expired
    BY DEF Expire
  <2> QED BY <2>1, Claimed DEF Table
<1>8. /\ \A e \in Slots : device'[e].running /\ device'[e].udn \in Groups => device'[e].masters # <<>>
      /\ OneEntryPerDevice' /\ ClaimantsListed'
  BY <1>5, <1>6, <1>7, SlotTouched
<1>9. proc' \in [Threads -> ProcType] /\ AtSlots'
  <2>1. \/ proc' = proc
        \/ proc' = [proc EXCEPT !["search"] = [at |-> "found", slot |-> d, then |-> "records"]]
    BY DEF Expire
  <2>2. [at |-> "found", slot |-> d, then |-> "records"] \in ProcType
    BY SlotsAreNat DEF ProcType, Places
  <2> QED BY <2>1, <2>2 DEF Table, TypeOK, AtSlots, Threads
<1> QED BY <1>5, <1>7, <1>8, <1>9 DEF Expire, Table, TypeOK

LEMMA AddKeeps ==
  ASSUME Table, NEW rec \in Records, NEW d \in Slots, Add(rec, d)
  PROVE  Table'
<1> DEFINE new(created) ==
      [Free EXCEPT !.running = created, !.udn = rec.udn, !.addr = rec.addr, !.ctx = "live",
                   !.masters = IF rec.udn \in Groups THEN <<rec.addr>> ELSE <<>>]
<1>1. PICK created \in BOOLEAN :
        /\ device' = [device EXCEPT ![d] = new(created)]
        /\ \/ proc' = proc
           \/ proc' = [proc EXCEPT !["search"] = [at |-> "delete", slot |-> d, then |-> "records"]]
  BY DEF Add
<1>2. rec.udn \in UDNs /\ rec.addr \in Hosts /\ (rec.udn \in Groups => rec.host = rec.addr)
  BY RecordTypes
<1>3. /\ new(created) \in DeviceType /\ new(created).udn = rec.udn
      /\ new(created).addr = rec.addr
      /\ rec.udn \in Groups => new(created).masters = <<rec.addr>>
  <2> DEFINE m == IF rec.udn \in Groups THEN <<rec.addr>> ELSE <<>>
  <2>1. m \in Seq(Hosts) /\ (rec.udn \in Groups => m = <<rec.addr>>)
    BY <1>2, EmptySeq
  <2> HIDE DEF m
  <2>2. new(created) = [Free EXCEPT !.running = created, !.udn = rec.udn, !.addr = rec.addr,
                                    !.ctx = "live", !.masters = m]
    BY DEF m
  <2> QED BY ZenonT(40), <1>2, <2>1, <2>2, FreeIsDevice DEF DeviceType
<1> HIDE DEF new
<1>4. /\ device' \in [Slots -> DeviceType] /\ device'[d] = new(created)
      /\ \A e \in Slots \ {d} : device'[e] = device[e]
  BY <1>1, <1>3 DEF Table, TypeOK
<1>5. SearchUDN(rec.udn) = {} /\ ~rec.expired /\ Claim(rec)
  BY DEF Add
<1>6. \A e \in Slots : device[e].running => device[e].udn # rec.udn
  BY <1>5 DEF SearchUDN
<1>7. /\ claims' \in [Groups -> SUBSET Hosts]
      /\ \A g \in Groups \ {rec.udn} : claims'[g] = claims[g]
      /\ rec.udn \in Groups => claims'[rec.udn] = {rec.host}
  BY <1>5, Claimed DEF Table
<1>8. rec.udn \in Groups =>
        /\ new(created).masters # <<>> /\ new(created).addr = Head(new(created).masters)
        /\ claims'[rec.udn] \subseteq Range(new(created).masters)
  <2> SUFFICES ASSUME rec.udn \in Groups
               PROVE  /\ <<rec.addr>> # <<>> /\ rec.addr = Head(<<rec.addr>>)
                      /\ rec.addr \in Range(<<rec.addr>>)
    BY <1>2, <1>3, <1>7
  <2>1. <<rec.addr>> # <<>> /\ rec.addr = Head(<<rec.addr>>)
    OBVIOUS
  <2>2. rec.addr \in Range(<<rec.addr>>)
    BY DEF Range
  <2> QED BY <2>1, <2>2
<1>9. /\ \A e \in Slots : device'[e].running /\ device'[e].udn \in Groups => device'[e].masters # <<>>
      /\ OneEntryPerDevice' /\ ClaimantsListed'
  BY <1>3, <1>4, <1>6, <1>7, <1>8, SlotWritten
<1>10. proc' \in [Threads -> ProcType] /\ AtSlots'
  <2>1. [at |-> "delete", slot |-> d, then |-> "records"] \in ProcType
    BY SlotsAreNat DEF ProcType, Places
  <2> QED BY <1>1, <2>1 DEF Table, TypeOK, AtSlots, Threads
<1> QED BY <1>4, <1>7, <1>9, <1>10 DEF Add, Table, TypeOK

LEMMA RecordKeeps ==
  ASSUME Table, HandleRecord
  PROVE  Table'
<1>1. PICK rec \in Records :
        \/ Skip(rec) \/ Ignore(rec)
        \/ \E d \in Slots : Refresh(rec, d) \/ Retract(rec, d) \/ Expire(rec, d) \/ Add(rec, d)
  BY DEF HandleRecord
<1>2. CASE Skip(rec) \/ Ignore(rec)
  <2>1. UNCHANGED vars
    BY <1>2 DEF Skip, Ignore
  <2> QED BY <2>1 DEF vars, Table, TypeOK, AtSlots, OneEntryPerDevice, ClaimantsListed
<1> QED BY <1>1, <1>2, RefreshKeeps, RetractKeeps, ExpireKeeps, AddKeeps

\* A step that leaves the table and the claims alone.
LEMMA TableUnread ==
  ASSUME Table, device' = device, claims' = claims, timeout' = timeout,
         proc' \in [Threads -> ProcType], AtSlots',
         mutex' \in {"free", "search", "main"}, running' \in BOOLEAN, alive' \subseteq Hosts
  PROVE  Table'
BY DEF Table, TypeOK, OneEntryPerDevice, ClaimantsListed

\* A step that writes a slot and does not touch the claims.
LEMMA SlotOnly ==
  ASSUME Table, NEW d \in Slots, NEW new \in DeviceType, device' = [device EXCEPT ![d] = new],
         new.running =>
           /\ device[d].running /\ new.udn = device[d].udn
           /\ new.masters = device[d].masters /\ new.addr = device[d].addr,
         UNCHANGED <<timeout, mutex, running, alive, claims>>,
         proc' \in [Threads -> ProcType], AtSlots'
  PROVE  Table'
<1>1. /\ device' \in [Slots -> DeviceType] /\ device'[d] = new
      /\ \A e \in Slots \ {d} : device'[e] = device[e]
  BY DEF Table, TypeOK
<1>2. claims' \in [Groups -> SUBSET Hosts] /\ \A g \in Groups : claims'[g] \subseteq claims[g]
  BY DEF Table, TypeOK
<1>3. /\ \A e \in Slots : device'[e].running /\ device'[e].udn \in Groups => device'[e].masters # <<>>
      /\ OneEntryPerDevice' /\ ClaimantsListed'
  BY <1>1, <1>2, SlotTouched
<1> QED BY <1>1, <1>2, <1>3 DEF Table, TypeOK

\* Where a thread goes.
LEMMA Goes ==
  ASSUME Table, NEW t \in Threads, NEW place \in Places, NEW slot \in 1..MaxDevices + 1,
         NEW then \in {"records", "scan"},
         \/ proc' = [proc EXCEPT ![t].at = place] /\ slot = proc[t].slot
         \/ proc' = [proc EXCEPT ![t].slot = slot] /\ place = proc[t].at
         \/ proc' = [proc EXCEPT ![t].at = place, ![t].slot = slot]
         \/ proc' = [proc EXCEPT ![t] = [at |-> place, slot |-> slot, then |-> then]],
         place \in Removing => slot \in Slots
  PROVE  proc' \in [Threads -> ProcType] /\ AtSlots'
<1>1. proc[t] \in ProcType /\ proc \in [Threads -> ProcType]
  BY DEF Table, TypeOK
<1>2. /\ proc' \in [Threads -> ProcType]
      /\ proc'[t].at = place /\ proc'[t].slot = slot
      /\ \A u \in Threads \ {t} : proc'[u] = proc[u]
  BY <1>1 DEF ProcType
<1> QED BY <1>2 DEF Table, AtSlots

LEMMA Returns ==
  ASSUME Table, NEW t \in Threads, proc[t].slot \in Slots, Return(t)
  PROVE  proc' \in [Threads -> ProcType] /\ AtSlots'
<1> DEFINE slot == IF proc[t].then = "scan" THEN proc[t].slot + 1 ELSE 1
<1>1. proc[t] \in ProcType /\ proc \in [Threads -> ProcType]
  BY DEF Table, TypeOK
<1>2. proc' = [proc EXCEPT ![t].at = proc[t].then, ![t].slot = slot]
  BY <1>1 DEF Return
<1>3. slot \in 1..MaxDevices + 1 /\ proc[t].then \in Places /\ proc[t].then \notin Removing
  BY <1>1, SlotsAreNat DEF ProcType, Places, Removing
<1> HIDE DEF slot
<1>4. proc[t].then \in {"records", "scan"}
  BY <1>1 DEF ProcType
<1> QED BY <1>2, <1>3, <1>4, Goes

\* The removal of a device, by whichever thread.
LEMMA DeleteKeeps ==
  ASSUME Table, NEW t \in Threads, RemoveDelete(t)
  PROVE  Table'
<1> DEFINE d == proc[t].slot
           new == [device[d] EXCEPT !.ctx = "none", !.connected = FALSE]
<1>1. d \in Slots /\ device \in [Slots -> DeviceType] /\ device[d] \in DeviceType
  BY DEF RemoveDelete, Table, TypeOK, AtSlots, Removing
<1>2. device' = [device EXCEPT ![d] = new]
  BY <1>1 DEF RemoveDelete, DeviceType
<1>3. /\ new \in DeviceType /\ new.running = device[d].running /\ new.udn = device[d].udn
      /\ new.masters = device[d].masters /\ new.addr = device[d].addr
  BY <1>1 DEF DeviceType
<1>4. proc' \in [Threads -> ProcType] /\ AtSlots'
  BY <1>1, SlotsAreNat, Goes DEF RemoveDelete, Goto, Places
<1> HIDE DEF new, d
<1> QED BY <1>1, <1>2, <1>3, <1>4, SlotOnly DEF RemoveDelete

LEMMA JoinKeeps ==
  ASSUME Table, NEW t \in Threads, RemoveJoin(t)
  PROVE  Table'
<1>1. proc[t].slot \in Slots
  BY DEF RemoveJoin, Table, TypeOK, AtSlots, Removing
<1>2. proc' \in [Threads -> ProcType] /\ AtSlots'
  BY <1>1, Returns DEF RemoveJoin
<1> QED BY <1>1, <1>2, FreeIsDevice, SlotOnly DEF RemoveJoin

LEMMA PingKeeps ==
  ASSUME Table, NEW t \in Threads, Ping(t)
  PROVE  Table'
<1> DEFINE d == proc[t].slot
<1>1. d \in Slots /\ device \in [Slots -> DeviceType] /\ device[d] \in DeviceType
  BY DEF Ping, Table, TypeOK, AtSlots, Removing
<1>2. CASE device[d].addr \in alive
  <2> DEFINE new == [device[d] EXCEPT !.expired = "recent"]
  <2>1. device' = [device EXCEPT ![d] = new]
    BY <1>2 DEF Ping
  <2>2. /\ new \in DeviceType /\ new.running = device[d].running /\ new.udn = device[d].udn
        /\ new.masters = device[d].masters /\ new.addr = device[d].addr
    BY <1>1 DEF DeviceType
  <2>3. proc' \in [Threads -> ProcType] /\ AtSlots'
    BY <1>1, <1>2, Returns DEF Ping
  <2> HIDE DEF new, d
  <2> QED BY <1>1, <2>1, <2>2, <2>3, SlotOnly DEF Ping
<1>3. CASE device[d].addr \notin alive
  <2> DEFINE new == [device[d] EXCEPT !.running = FALSE]
  <2>1. device' = [device EXCEPT ![d] = new]
    BY <1>3 DEF Ping
  <2>2. new \in DeviceType /\ ~new.running
    BY <1>1 DEF DeviceType
  <2>3. proc' \in [Threads -> ProcType] /\ AtSlots'
    BY <1>1, <1>3, SlotsAreNat, Goes DEF Ping, Goto, Places
  <2> HIDE DEF new, d
  <2> QED BY <1>1, <2>1, <2>2, <2>3, SlotOnly DEF Ping
<1> QED BY <1>2, <1>3

LEMMA RemovalKeeps ==
  ASSUME Table, NEW t \in Threads, Removal(t)
  PROVE  Table'
<1> USE SlotsAreNat
<1>1. CASE Lock(t)
  <2>1. proc' \in [Threads -> ProcType] /\ AtSlots'
    BY <1>1, Goes DEF Lock, Places, Removing
  <2> QED BY <1>1, <2>1, TableUnread DEF Lock, Table, TypeOK
<1>2. CASE Scan(t)
  <2>1. PICK d \in Slots : proc' = [proc EXCEPT ![t].at = "ping", ![t].slot = d]
    BY <1>2 DEF Scan, DueSlots
  <2>2. proc' \in [Threads -> ProcType] /\ AtSlots'
    BY <2>1, Goes DEF Places
  <2> QED BY <1>2, <2>2, TableUnread DEF Scan, Table, TypeOK
<1>3. CASE Unlock(t)
  <2>1. proc' \in [Threads -> ProcType] /\ AtSlots'
    BY <1>3, Goes DEF Unlock, Places, Removing
  <2> QED BY <1>3, <2>1, TableUnread DEF Unlock, Table, TypeOK
<1> QED BY <1>1, <1>2, <1>3, DeleteKeeps, JoinKeeps, PingKeeps DEF Removal

\* The search and the main thread elsewhere, and Stop.
LEMMA StoppingKeeps ==
  ASSUME Table, Stopping \/ MainLeaves \/ Round
  PROVE  Table'
<1> USE SlotsAreNat DEF Threads
<1>1. proc \in [Threads -> ProcType]
  BY DEF Table, TypeOK
<1>2. CASE Round
  <2>1. proc' \in [Threads -> ProcType] /\ AtSlots'
    BY <1>1, <1>2, Goes DEF Round, Goto, Places, Removing, ProcType
  <2> QED BY <1>2, <2>1, TableUnread DEF Round, Table, TypeOK
<1>3. CASE MainLeaves
  <2>1. proc' \in [Threads -> ProcType] /\ AtSlots'
    BY <1>1, <1>3, Goes DEF MainLeaves, Goto, Places, Removing, ProcType
  <2> QED BY <1>3, <2>1, TableUnread DEF MainLeaves, Table, TypeOK
<1>4. CASE StopBegin
  <2>1. proc' \in [Threads -> ProcType] /\ AtSlots'
    BY <1>1, <1>4, Goes DEF StopBegin, Goto, Places, Removing, ProcType
  <2> QED BY <1>4, <2>1, TableUnread DEF StopBegin, Table, TypeOK
<1>5. CASE StopMain
  <2>1. proc' \in [Threads -> ProcType] /\ AtSlots'
    BY <1>1, <1>5, Goes DEF StopMain, Goto, Places, Removing, ProcType
  <2> QED BY <1>5, <2>1, TableUnread DEF StopMain, Table, TypeOK
<1>6. CASE StopSearch
  <2>1. [at |-> "scan", slot |-> 1, then |-> "scan"] \in ProcType
    BY DEF ProcType, Places
  <2>2. /\ proc' \in [Threads -> ProcType]
        /\ proc'["search"].at = "gone" /\ proc'["stop"].at = "scan" /\ proc'["main"] = proc["main"]
    BY <1>1, <1>6, <2>1 DEF StopSearch, ProcType, Places
  <2>3. AtSlots'
    BY <2>2 DEF Table, AtSlots, Removing
  <2> QED BY <1>6, <2>2, <2>3, TableUnread DEF StopSearch, Table, TypeOK
<1>7. CASE Flush
  <2> DEFINE d == proc["stop"].slot
  <2>1. d \in Slots /\ device[d] \in DeviceType /\ d \in 1..MaxDevices + 1
    BY <1>7 DEF Flush, Table, TypeOK
  <2>2. CASE device[d].running
    <3> DEFINE new == [device[d] EXCEPT !.running = FALSE]
    <3>1. device' = [device EXCEPT ![d] = new]
      BY <1>7, <2>2 DEF Flush
    <3>2. new \in DeviceType /\ ~new.running
      BY <2>1 DEF DeviceType
    <3>3. proc' \in [Threads -> ProcType] /\ AtSlots'
      BY <1>7, <2>1, <2>2, Goes DEF Flush, Goto, Places
    <3> HIDE DEF new, d
    <3> QED BY <1>7, <2>1, <3>1, <3>2, <3>3, SlotOnly DEF Flush
  <2>3. CASE ~device[d].running
    <3>1. proc' = [proc EXCEPT !["stop"].slot = d + 1] /\ proc["stop"].at = "scan"
      BY <1>1, <1>7, <2>3 DEF Flush
    <3>2. proc' \in [Threads -> ProcType] /\ AtSlots'
      BY <2>1, <3>1, Goes DEF Places, Removing
    <3> QED BY <1>7, <2>3, <3>2, TableUnread DEF Flush, Table, TypeOK
  <2> QED BY <2>2, <2>3
<1> QED BY <1>2, <1>3, <1>4, <1>5, <1>6, <1>7 DEF Stopping

LEMMA OutsideKeeps ==
  ASSUME Table, Outside
  PROVE  Table'
<1>1. proc \in [Threads -> ProcType] /\ AtSlots /\ device \in [Slots -> DeviceType]
  BY DEF Table, TypeOK
<1>2. ASSUME NEW d \in Slots, TimePasses(d)
      PROVE  Table'
  <2> DEFINE new == [device[d] EXCEPT !.expired = "late"]
  <2>1. /\ new \in DeviceType /\ new.running = device[d].running /\ new.udn = device[d].udn
        /\ new.masters = device[d].masters /\ new.addr = device[d].addr
    BY <1>1 DEF DeviceType
  <2>2. device' = [device EXCEPT ![d] = new]
    BY <1>2 DEF TimePasses
  <2> HIDE DEF new
  <2>3. proc' \in [Threads -> ProcType] /\ AtSlots'
    BY <1>1, <1>2 DEF TimePasses, AtSlots
  <2> QED BY <1>2, <2>1, <2>2, <2>3, SlotOnly DEF TimePasses
<1>3. ASSUME NEW d \in Slots, Connects(d)
      PROVE  Table'
  <2> DEFINE new == [device[d] EXCEPT !.connected = ~@]
  <2>1. /\ new \in DeviceType /\ new.running = device[d].running /\ new.udn = device[d].udn
        /\ new.masters = device[d].masters /\ new.addr = device[d].addr
    BY <1>1 DEF DeviceType
  <2>2. device' = [device EXCEPT ![d] = new]
    BY <1>3 DEF Connects
  <2> HIDE DEF new
  <2>3. proc' \in [Threads -> ProcType] /\ AtSlots'
    BY <1>1, <1>3 DEF Connects, AtSlots
  <2> QED BY <1>3, <2>1, <2>2, <2>3, SlotOnly DEF Connects
<1>4. ASSUME NEW host \in Failing, HostFails(host)
      PROVE  Table'
  <2>1. proc' \in [Threads -> ProcType] /\ AtSlots' /\ alive' \subseteq Hosts
    BY <1>1, <1>4 DEF HostFails, AtSlots, Table, TypeOK
  <2> QED BY <1>4, <2>1, TableUnread DEF HostFails, Table, TypeOK
<1> QED BY <1>2, <1>3, <1>4 DEF Outside

LEMMA InitTable == Init => Table
<1> SUFFICES ASSUME Init PROVE Table
  OBVIOUS
<1>1. \A d \in Slots : device[d] = Free
  BY DEF Init
<1>2. device \in [Slots -> DeviceType]
  BY FreeIsDevice DEF Init
<1>3. proc \in [Threads -> ProcType] /\ AtSlots
  BY SlotsAreNat DEF Init, ProcType, Places, AtSlots, Removing
<1>4. TypeOK
  BY <1>1, <1>2, <1>3, FreeIsDevice DEF Init, TypeOK
<1>5. OneEntryPerDevice /\ ClaimantsListed
  BY <1>1, FreeIsDevice DEF OneEntryPerDevice, ClaimantsListed
<1> QED BY <1>3, <1>4, <1>5 DEF Table

LEMMA TableInvariance == Spec => []Table
<1>1. Table /\ [Next]_vars => Table'
  <2>1. ASSUME Table, UNCHANGED vars
        PROVE  Table'
    BY <2>1 DEF vars, Table, TypeOK, AtSlots, OneEntryPerDevice, ClaimantsListed
  <2> QED BY <2>1, RecordKeeps, RemovalKeeps, StoppingKeeps, OutsideKeeps DEF Next, Search
<1> QED BY <1>1, InitTable, PTL DEF Spec

\* The table of squeeze2cast.c is well formed in every state, and no device has
\* two players, although mDNSsearchCallback adds, updates and expires devices
\* without a lock while UpdateDevices and FlushCastDevices remove them.
THEOREM TableIsSound == Spec => []TableOK
<1>1. Table => TableOK
  BY DEF Table, TableOK
<1> QED BY <1>1, TableInvariance, PTL

\* In mDNSsearchCallback, a host that announced a group and has not retracted
\* is in the group's list of masters, and the group talks to the head of the
\* list, whatever order the announcements and the retractions come in.
THEOREM ClaimantsAreListed == Spec => []ClaimantsListed
<1>1. Table => ClaimantsListed
  BY DEF Table
<1> QED BY <1>1, TableInvariance, PTL

-----------------------------------------------------------------------------
\* The rest is about the slots that are not shared: for Overlaps = FALSE.

\* Where each thread may be, and what it goes back to.
Where ==
  /\ proc["stop"].at \in {"idle", "closing", "scan", "delete", "join", "gone"}
  /\ proc["main"].at \in {"idle", "scan", "ping", "delete", "join", "gone"}
  /\ proc["search"].at # "closing"
  /\ proc["main"].then = "scan" /\ proc["stop"].then = "scan"
  /\ proc["search"].at \in {"scan", "ping"} => proc["search"].then = "scan"
  /\ proc["search"].at = "found" => proc["search"].then = "records"

\* glUpdateMutex is held from the first slot of UpdateDevices to the last, the
\* removals included.
Updating(t) == proc[t].at \in {"scan", "ping", "delete", "join"} /\ proc[t].then = "scan"
Locked == (mutex = "search" <=> Updating("search")) /\ (mutex = "main" <=> Updating("main"))

\* FlushCastDevices runs when the others remove nothing.
Stopped ==
  /\ proc["stop"].at # "idle" => ~running
  /\ proc["stop"].at \notin {"idle", "closing"} =>
       proc["search"].at = "gone" /\ proc["main"].at \in {"idle", "gone"}

Control == Where /\ Locked /\ Stopped

\* A slot is removed by one thread, which finds in it what it left.
Apart ==
  \A t, u \in Threads :
    proc[t].at \in Removing /\ proc[u].at \in Removing /\ proc[t].slot = proc[u].slot => t = u

AsLeft(t) ==
  LET dev == device[proc[t].slot]
  IN /\ proc[t].at \in {"found", "ping"} => dev.running
     /\ proc[t].at = "found" => dev.expired = "no"
     /\ proc[t].at = "delete" => ~dev.running /\ dev.ctx = "live"
     /\ proc[t].at = "join" => ~dev.running

Contexts ==
  /\ Apart /\ \A t \in Threads : AsLeft(t)
  /\ \A d \in Slots : device[d].running => device[d].ctx = "live"

IInv == Table /\ Control /\ Contexts

LEMMA ContextsStep ==
  ASSUME Table, Table', Contexts, NEW d \in Slots, NEW t \in Threads,
         \A e \in Slots \ {d} : device'[e] = device[e],
         \A u \in Threads \ {t} : proc'[u] = proc[u],
         device'[d].running => device'[d].ctx = "live",
         \/ \A u \in Threads \ {t} : proc[u].at \in Removing => proc[u].slot # d
         \/ /\ device'[d].running = device[d].running /\ device'[d].ctx = device[d].ctx
            /\ device[d].expired = "no" => device'[d].expired = "no",
         proc'[t].at \in Removing =>
           \A u \in Threads \ {t} : proc[u].at \in Removing => proc[u].slot # proc'[t].slot,
         AsLeft(t)'
  PROVE  Contexts'
<1>1. Apart'
  BY DEF Contexts, Apart
<1>2. ASSUME NEW u \in Threads \ {t}
      PROVE  AsLeft(u)'
  <2>1. proc'[u] = proc[u] /\ AsLeft(u) /\ (proc[u].at \in Removing => proc[u].slot \in Slots)
    BY DEF Contexts, Table, AtSlots
  <2>2. CASE proc[u].at \notin Removing
    BY <2>1, <2>2 DEF AsLeft, Removing
  <2>3. CASE proc[u].at \in Removing /\ proc[u].slot # d
    <3>1. device'[proc[u].slot] = device[proc[u].slot]
      BY <2>1, <2>3
    <3> QED BY <2>1, <3>1 DEF AsLeft
  <2>4. CASE proc[u].at \in Removing /\ proc[u].slot = d
    BY <2>1, <2>4 DEF AsLeft
  <2> QED BY <2>2, <2>3, <2>4
<1>3. \A e \in Slots : device'[e].running => device'[e].ctx = "live"
  BY DEF Contexts
<1> QED BY <1>1, <1>2, <1>3 DEF Contexts

\* Steps that leave the table alone.
LEMMA ContextsMove ==
  ASSUME Table, Table', Contexts, NEW t \in Threads, device' = device,
         \A u \in Threads \ {t} : proc'[u] = proc[u],
         proc'[t].at \in Removing =>
           \A u \in Threads \ {t} : proc[u].at \in Removing => proc[u].slot # proc'[t].slot,
         AsLeft(t)'
  PROVE  Contexts'
<1>1. 1 \in Slots
  BY SlotsAreNat DEF Slots
<1>2. device'[1].running => device'[1].ctx = "live"
  BY <1>1 DEF Contexts
<1> QED BY <1>1, <1>2, ContextsStep

\* What the search does with the records.
LEMMA RecordContexts ==
  ASSUME IInv, Table', ~Overlaps, HandleRecord
  PROVE  Contexts'
<1>1. PICK rec \in Records :
        \/ Skip(rec) \/ Ignore(rec)
        \/ \E d \in Slots : Refresh(rec, d) \/ Retract(rec, d) \/ Expire(rec, d) \/ Add(rec, d)
  BY DEF HandleRecord
<1>2. proc["search"].at = "records" /\ "search" \in Threads /\ Contexts /\ Table
  BY DEF HandleRecord, Threads, IInv
<1>3. device \in [Slots -> DeviceType] /\ proc \in [Threads -> ProcType]
  BY <1>2 DEF Table, TypeOK
<1>4. CASE Skip(rec) \/ Ignore(rec)
  <2>1. UNCHANGED vars
    BY <1>4 DEF Skip, Ignore
  <2> QED BY <1>2, <2>1 DEF vars, Contexts, Apart, AsLeft
<1>5. ASSUME NEW d \in Slots, Refresh(rec, d)
      PROVE  Contexts'
  <2> DEFINE dev == device[d]
             new == Announced([dev EXCEPT !.expired = "no"], rec.host, rec.addr)
  <2>1. /\ dev \in DeviceType /\ dev.running /\ dev.udn = rec.udn
        /\ dev.udn \in Groups => dev.masters # <<>> /\ dev.addr = Head(dev.masters)
    BY <1>2, <1>5 DEF Refresh, SearchUDN, Table, TypeOK, ClaimantsListed
  <2>2. rec.host \in Hosts /\ rec.addr \in Hosts /\ (dev.udn \in Groups => rec.host = rec.addr)
    BY <2>1, RecordTypes
  <2>3. new = Announced([dev EXCEPT !.expired = "no"], rec.host, rec.addr)
    OBVIOUS
  <2>4. device' = [device EXCEPT ![d] = new] /\ proc' = proc
    BY <1>5 DEF Refresh
  <2> HIDE DEF dev, new
  <2>5. new.running /\ new.expired = "no" /\ new.ctx = dev.ctx
    BY <2>1, <2>2, <2>3, AnnouncedIs
  <2>6. /\ \A e \in Slots \ {d} : device'[e] = device[e]
        /\ device'[d].running /\ device'[d].expired = "no" /\ device'[d].ctx = device[d].ctx
    BY <1>3, <2>4, <2>5 DEF dev
  <2>7. device[d].running /\ device[d].ctx = "live"
    BY <1>2, <2>1 DEF dev, Contexts
  <2>8. AsLeft("search")'
    BY <1>2, <2>4 DEF AsLeft
  <2>9. device'[d].running = device[d].running
    BY <2>6, <2>7, Table' DEF Table, TypeOK, DeviceType
  <2> QED BY <1>2, <2>4, <2>6, <2>7, <2>8, <2>9, ContextsStep DEF Removing
<1>6. ASSUME NEW d \in Slots, Retract(rec, d)
      PROVE  Contexts'
  <2> DEFINE dev == device[d]
             new == Retracted([dev EXCEPT !.expired = "no"], rec.host)
  <2>1. /\ dev \in DeviceType /\ dev.running /\ dev.udn = rec.udn /\ Len(dev.masters) > 1
        /\ dev.udn \in Groups => dev.addr = Head(dev.masters)
    BY <1>2, <1>6 DEF Retract, SearchUDN, Table, TypeOK, ClaimantsListed
  <2>2. rec.host \in Hosts
    BY RecordTypes
  <2>3. new = Retracted([dev EXCEPT !.expired = "no"], rec.host)
    OBVIOUS
  <2>4. device' = [device EXCEPT ![d] = new] /\ proc' = proc
    BY <1>6 DEF Retract
  <2> HIDE DEF dev, new
  <2>5. new.running /\ new.expired = "no" /\ new.ctx = dev.ctx
    BY <2>1, <2>2, <2>3, RetractedIs
  <2>6. /\ \A e \in Slots \ {d} : device'[e] = device[e]
        /\ device'[d].running /\ device'[d].expired = "no" /\ device'[d].ctx = device[d].ctx
    BY <1>3, <2>4, <2>5 DEF dev
  <2>7. device[d].running /\ device[d].ctx = "live"
    BY <1>2, <2>1 DEF dev, Contexts
  <2>8. AsLeft("search")'
    BY <1>2, <2>4 DEF AsLeft
  <2>9. device'[d].running = device[d].running
    BY <2>6, <2>7, Table' DEF Table, TypeOK, DeviceType
  <2> QED BY <1>2, <2>4, <2>6, <2>7, <2>8, <2>9, ContextsStep DEF Removing
<1>7. ASSUME NEW d \in Slots, Expire(rec, d)
      PROVE  Contexts'
  <2>1. \A u \in Threads : proc[u].at \in Removing => proc[u].slot # d
    BY <1>7 DEF Expire, BeingRemoved, Removing
  <2>2. device[d].running /\ device[d].ctx = "live"
    BY <1>2, <1>7 DEF Expire, SearchUDN, Contexts
  <2>3. \/ /\ device' = [device EXCEPT ![d].expired = "no"]
           /\ proc' = [proc EXCEPT !["search"] = [at |-> "found", slot |-> d, then |-> "records"]]
        \/ device' = [device EXCEPT ![d].expired = "recent"] /\ proc' = proc
    BY <1>7 DEF Expire
  <2>4. /\ \A e \in Slots \ {d} : device'[e] = device[e]
        /\ \A u \in Threads \ {"search"} : proc'[u] = proc[u]
        /\ device'[d].running /\ device'[d].ctx = "live"
    BY <1>3, <2>2, <2>3 DEF DeviceType
  <2>5. AsLeft("search")' /\ (proc'["search"].at \in Removing => proc'["search"].slot = d)
    BY <1>2, <1>3, <2>3, <2>4 DEF AsLeft, Removing, DeviceType
  <2> QED BY <1>2, <2>1, <2>4, <2>5, ContextsStep
<1>8. ASSUME NEW d \in Slots, Add(rec, d)
      PROVE  Contexts'
  <2>1. \A u \in Threads : proc[u].at \in Removing => proc[u].slot # d
    BY <1>8 DEF Add, BeingRemoved, Removing
  <2>2. PICK created \in BOOLEAN :
          /\ device'[d].running = created /\ device'[d].ctx = "live"
          /\ \A e \in Slots \ {d} : device'[e] = device[e]
          /\ IF created THEN proc' = proc
             ELSE proc' = [proc EXCEPT !["search"] = [at |-> "delete", slot |-> d, then |-> "records"]]
    BY <1>3, <1>8 DEF Add, Free
  <2>3. \A u \in Threads \ {"search"} : proc'[u] = proc[u]
    BY <1>3, <2>2
  <2>4. AsLeft("search")' /\ (proc'["search"].at \in Removing => proc'["search"].slot = d)
    BY <1>2, <1>3, <2>2 DEF AsLeft, Removing
  <2> QED BY <1>2, <2>1, <2>2, <2>3, <2>4, ContextsStep
<1> QED BY <1>1, <1>4, <1>5, <1>6, <1>7, <1>8

\* A thread that removes a device has its slot for itself.
LEMMA RemovalContexts ==
  ASSUME IInv, Table', NEW t \in Threads, Removal(t)
  PROVE  Contexts'
<1> DEFINE d == proc[t].slot
<1>1. device \in [Slots -> DeviceType] /\ proc \in [Threads -> ProcType] /\ Contexts /\ Table
  BY DEF IInv, Table, TypeOK
<1>2. AsLeft(t) /\ (proc[t].at \in Removing => d \in Slots)
  BY <1>1 DEF Contexts, Table, AtSlots
<1>3. ASSUME proc[t].at \in Removing
      PROVE  \A u \in Threads \ {t} : proc[u].at \in Removing => proc[u].slot # d
  BY <1>1, <1>3 DEF Contexts, Apart
<1>4. CASE RemoveDelete(t)
  <2>1. proc[t].at = "delete" /\ d \in Slots /\ ~device[d].running
    BY <1>2, <1>4 DEF RemoveDelete, AsLeft, Removing
  <2>2. /\ \A e \in Slots \ {d} : device'[e] = device[e]
        /\ ~device'[d].running
    BY <1>1, <1>4, <2>1 DEF RemoveDelete, DeviceType
  <2>3. /\ \A u \in Threads \ {t} : proc'[u] = proc[u]
        /\ proc'[t].at = "join" /\ proc'[t].slot = d
    BY <1>1, <1>4 DEF RemoveDelete, Goto, ProcType
  <2>4. AsLeft(t)'
    BY <2>2, <2>3 DEF AsLeft
  <2> QED BY <1>1, <1>3, <2>1, <2>2, <2>3, <2>4, ContextsStep DEF Removing
<1>5. CASE RemoveJoin(t)
  <2>1. proc[t].at = "join" /\ d \in Slots
    BY <1>2, <1>5 DEF RemoveJoin, Removing
  <2>2. /\ \A e \in Slots \ {d} : device'[e] = device[e]
        /\ ~device'[d].running
    BY <1>1, <1>5, <2>1, FreeIsDevice DEF RemoveJoin
  <2>3. /\ \A u \in Threads \ {t} : proc'[u] = proc[u]
        /\ proc'[t].at \in {"records", "scan"}
    BY <1>1, <1>5 DEF RemoveJoin, Return, ProcType
  <2>4. AsLeft(t)'
    BY <2>3 DEF AsLeft
  <2> QED BY <1>1, <1>3, <2>1, <2>2, <2>3, <2>4, ContextsStep DEF Removing
<1>6. CASE Ping(t)
  <2>1. /\ proc[t].at \in {"found", "ping"} /\ d \in Slots
        /\ device[d].running /\ device[d].ctx = "live"
    BY <1>1, <1>2, <1>6 DEF Ping, AsLeft, Removing, Contexts
  <2>2. CASE device[d].addr \in alive
    <3>1. /\ \A e \in Slots \ {d} : device'[e] = device[e]
          /\ device'[d].ctx = "live"
      BY <1>1, <1>6, <2>1, <2>2 DEF Ping, DeviceType
    <3>2. /\ \A u \in Threads \ {t} : proc'[u] = proc[u]
          /\ proc'[t].at \in {"records", "scan"}
      BY <1>1, <1>6, <2>2 DEF Ping, Return, ProcType
    <3>3. AsLeft(t)'
      BY <3>2 DEF AsLeft
    <3> QED BY <1>1, <1>3, <2>1, <3>1, <3>2, <3>3, ContextsStep DEF Removing
  <2>3. CASE device[d].addr \notin alive
    <3>1. /\ \A e \in Slots \ {d} : device'[e] = device[e]
          /\ device'[d].ctx = "live" /\ ~device'[d].running
      BY <1>1, <1>6, <2>1, <2>3 DEF Ping, DeviceType
    <3>2. /\ \A u \in Threads \ {t} : proc'[u] = proc[u]
          /\ proc'[t].at = "delete" /\ proc'[t].slot = d
      BY <1>1, <1>6, <2>3 DEF Ping, Goto, ProcType
    <3>3. AsLeft(t)'
      BY <3>1, <3>2 DEF AsLeft
    <3> QED BY <1>1, <1>3, <2>1, <3>1, <3>2, <3>3, ContextsStep DEF Removing
  <2> QED BY <2>2, <2>3
<1>7. CASE Lock(t) \/ Unlock(t)
  <2>1. /\ \A u \in Threads \ {t} : proc'[u] = proc[u]
        /\ proc'[t].at \in {"scan", "idle"} /\ device' = device
    BY <1>1, <1>7 DEF Lock, Unlock, ProcType
  <2>2. AsLeft(t)'
    BY <2>1 DEF AsLeft
  <2> QED BY <1>1, <2>1, <2>2, ContextsMove DEF Removing
<1>8. CASE Scan(t)
  <2>1. PICK e \in Slots : /\ proc' = [proc EXCEPT ![t].at = "ping", ![t].slot = e]
                           /\ Due(device[e])
    BY <1>8 DEF Scan, DueSlots
  <2>2. device[e].running /\ device[e].expired = "late"
    BY <2>1 DEF Due
  <2>3. /\ \A u \in Threads \ {t} : proc'[u] = proc[u]
        /\ proc'[t].at = "ping" /\ proc'[t].slot = e
    BY <1>1, <2>1 DEF ProcType
  <2>4. ASSUME NEW u \in Threads \ {t}, proc[u].at \in Removing, proc[u].slot = e
        PROVE  FALSE
    <3>1. proc[u].at = "ping"
      BY <1>1, <2>2, <2>4 DEF Contexts, AsLeft, Removing
    <3>2. Updating(u) /\ Updating(t) /\ {t, u} = {"search", "main"}
      BY <1>8, <2>4, <3>1 DEF IInv, Control, Where, Updating, Scan, Threads
    <3> QED BY <2>4, <3>2 DEF IInv, Control, Locked
  <2>5. AsLeft(t)' /\ device' = device
    BY <1>8, <2>2, <2>3 DEF AsLeft, Scan
  <2> QED BY <1>1, <2>3, <2>4, <2>5, ContextsMove
<1> QED BY <1>4, <1>5, <1>6, <1>7, <1>8 DEF Removal

LEMMA OtherContexts ==
  ASSUME IInv, Table', Stopping \/ MainLeaves \/ Round \/ Outside
  PROVE  Contexts'
<1> USE DEF Threads
<1>1. device \in [Slots -> DeviceType] /\ proc \in [Threads -> ProcType] /\ Contexts /\ Table
  BY DEF IInv, Table, TypeOK
<1>2. ASSUME device' = device,
             \A u \in Threads : \/ proc'[u] = proc[u]
                                \/ proc'[u].at \notin Removing
      PROVE  Contexts'
  <2>1. Apart'
    BY <1>1, <1>2 DEF Contexts, Apart
  <2>2. \A u \in Threads : AsLeft(u)'
    BY <1>1, <1>2 DEF Contexts, AsLeft, Removing
  <2> QED BY <1>1, <1>2, <2>1, <2>2 DEF Contexts
<1>3. CASE Round \/ MainLeaves \/ StopBegin \/ StopSearch \/ StopMain
  <2>1. /\ device' = device
        /\ \A u \in Threads : proc'[u] = proc[u] \/ proc'[u].at \notin Removing
    BY <1>1, <1>3 DEF Round, MainLeaves, StopBegin, StopSearch, StopMain, Goto, Removing, ProcType
  <2> QED BY <1>2, <2>1
<1>4. CASE Flush
  <2> DEFINE d == proc["stop"].slot
  <2>1. d \in Slots /\ proc["stop"].at = "scan"
    BY <1>4 DEF Flush
  <2>2. \A u \in Threads \ {"stop"} : proc[u].at \notin Removing
    BY <2>1 DEF IInv, Control, Stopped, Removing
  <2>3. CASE device[d].running
    <3>4. device[d].ctx = "live" /\ device[d] \in DeviceType
      BY <1>1, <2>1, <2>3 DEF Contexts
    <3>5. device' = [device EXCEPT ![d].running = FALSE]
      BY <1>4, <2>3 DEF Flush
    <3>1. /\ \A e \in Slots \ {d} : device'[e] = device[e]
          /\ ~device'[d].running /\ device'[d].ctx = "live"
      BY <1>1, <2>1, <3>4, <3>5 DEF DeviceType
    <3>2. /\ \A u \in Threads \ {"stop"} : proc'[u] = proc[u]
          /\ proc'["stop"].at = "delete" /\ proc'["stop"].slot = d
      BY <1>1, <1>4, <2>3 DEF Flush, Goto, ProcType
    <3>3. AsLeft("stop")'
      BY <3>1, <3>2 DEF AsLeft
    <3> QED BY <1>1, <2>1, <2>2, <3>1, <3>2, <3>3, ContextsStep
  <2>4. CASE ~device[d].running
    <3>1. /\ device' = device
          /\ \A u \in Threads : proc'[u] = proc[u] \/ proc'[u].at \notin Removing
      BY <1>1, <1>4, <2>1, <2>4 DEF Flush, Removing, ProcType
    <3> QED BY <1>2, <3>1
  <2> QED BY <2>3, <2>4
<1>5. ASSUME NEW d \in Slots, TimePasses(d) \/ Connects(d)
      PROVE  Contexts'
  <2>1. /\ \A e \in Slots \ {d} : device'[e] = device[e]
        /\ device'[d].running = device[d].running /\ device'[d].ctx = device[d].ctx
        /\ device[d].expired = "no" => device'[d].expired = "no"
    BY <1>1, <1>5 DEF TimePasses, Connects, DeviceType
  <2>2. proc' = proc
    BY <1>5 DEF TimePasses, Connects
  <2>3. device'[d].running => device'[d].ctx = "live"
    BY <1>1, <2>1 DEF Contexts
  <2>4. AsLeft("stop")'
    BY <1>1, <2>1, <2>2 DEF AsLeft, Contexts, Table, AtSlots, Removing
  <2>5. proc["stop"].at \in Removing =>
          \A u \in Threads \ {"stop"} : proc[u].at \in Removing => proc[u].slot # proc["stop"].slot
    BY <1>1 DEF Contexts, Apart
  <2> QED BY <1>1, <2>1, <2>2, <2>3, <2>4, <2>5, ContextsStep
<1>6. ASSUME NEW host \in Failing, HostFails(host)
      PROVE  Contexts'
  BY <1>2, <1>6 DEF HostFails
<1> QED BY <1>3, <1>4, <1>5, <1>6 DEF Stopping, Outside

\* Where the threads are: each step moves one, or stops the search.
LEMMA ControlKeeps ==
  ASSUME IInv, ~Overlaps, Next
  PROVE  Control'
<1> USE DEF Threads
<1>1. proc \in [Threads -> ProcType] /\ Control /\ mutex \in {"free", "search", "main"}
  BY DEF IInv, Table, TypeOK
<1>2. ASSUME proc' = proc, mutex' = mutex, running' = running
      PROVE  Control'
  BY <1>1, <1>2 DEF Control, Where, Locked, Updating, Stopped
<1>3. CASE Round \/ MainLeaves \/ StopBegin \/ StopSearch \/ StopMain
  <2>1. CASE Round
    BY <1>1, <2>1 DEF Round, Goto, ProcType, Control, Where, Locked, Updating, Stopped
  <2>2. CASE MainLeaves
    BY <1>1, <2>2 DEF MainLeaves, Goto, ProcType, Control, Where, Locked, Updating, Stopped
  <2>3. CASE StopBegin
    BY <1>1, <2>3 DEF StopBegin, Goto, ProcType, Control, Where, Locked, Updating, Stopped
  <2>4. CASE StopSearch
    BY <1>1, <2>4 DEF StopSearch, ProcType, Control, Where, Locked, Updating, Stopped
  <2>5. CASE StopMain
    BY <1>1, <2>5 DEF StopMain, Goto, ProcType, Control, Where, Locked, Updating, Stopped
  <2> QED BY <1>3, <2>1, <2>2, <2>3, <2>4, <2>5
<1>4. CASE Flush
  BY <1>1, <1>4 DEF Flush, Goto, ProcType, Control, Where, Locked, Updating, Stopped
<1>5. CASE HandleRecord
  <2>1. PICK rec \in Records :
          \/ Skip(rec) \/ Ignore(rec)
          \/ \E d \in Slots : Refresh(rec, d) \/ Retract(rec, d) \/ Expire(rec, d) \/ Add(rec, d)
    BY <1>5 DEF HandleRecord
  <2>2. mutex' = mutex /\ running' = running
    BY <2>1 DEF Skip, Ignore, Refresh, Retract, Expire, Add, vars
  <2>3. \/ proc' = proc
        \/ \E d \in Slots, place \in {"found", "delete"} :
             proc' = [proc EXCEPT !["search"] = [at |-> place, slot |-> d, then |-> "records"]]
    BY <2>1 DEF Skip, Ignore, Refresh, Retract, Expire, Add, vars
  <2>4. ASSUME NEW d \in Slots, NEW place \in {"found", "delete"},
               proc' = [proc EXCEPT !["search"] = [at |-> place, slot |-> d, then |-> "records"]]
        PROVE  Control'
    <3>1. proc["search"].at = "records"
      BY <1>5 DEF HandleRecord
    <3> QED BY <1>1, <2>2, <2>4, <3>1 DEF Control, Where, Locked, Updating, Stopped
  <2> QED BY <1>2, <2>2, <2>3, <2>4
<1>6. ASSUME NEW t \in Threads, Removal(t)
      PROVE  Control'
  <2>1. CASE RemoveDelete(t)
    BY <1>1, <2>1 DEF RemoveDelete, Goto, ProcType, Control, Where, Locked, Updating, Stopped
  <2>2. CASE RemoveJoin(t)
    BY <1>1, <2>2 DEF RemoveJoin, Return, ProcType, Control, Where, Locked, Updating, Stopped
  <2>3. CASE Ping(t)
    BY <1>1, <2>3 DEF Ping, Goto, Return, ProcType, Control, Where, Locked, Updating, Stopped
  <2>4. CASE Lock(t)
    BY <1>1, <2>4 DEF Lock, ProcType, Control, Where, Locked, Updating, Stopped
  <2>5. CASE Scan(t)
    BY <1>1, <2>5 DEF Scan, ProcType, Control, Where, Locked, Updating, Stopped
  <2>6. CASE Unlock(t)
    BY <1>1, <2>6 DEF Unlock, ProcType, Control, Where, Locked, Updating, Stopped
  <2> QED BY <1>6, <2>1, <2>2, <2>3, <2>4, <2>5, <2>6 DEF Removal
<1>7. CASE Outside
  BY <1>2, <1>7 DEF Outside, TimePasses, Connects, HostFails
<1> QED BY <1>3, <1>4, <1>5, <1>6, <1>7 DEF Next, Search, Stopping

LEMMA InitInv == Init => IInv
<1> SUFFICES ASSUME Init PROVE IInv
  OBVIOUS
<1>1. Control /\ Contexts
  BY FreeIsDevice DEF Init, Threads, Removing, Control, Where, Locked, Updating, Stopped,
     Contexts, Apart, AsLeft
<1> QED BY <1>1, InitTable DEF IInv

\* Where no thread uses a slot that another removes, a device in glMRDevices
\* that runs has its Cast context, and RemoveCastDevice is never given one that
\* was deleted: glUpdateMutex, the order of Stop and the state the slot is left
\* in are enough for that.
THEOREM ContextsAreLive ==
  ASSUME ~Overlaps
  PROVE  Spec => []RunningHasContext
<1>1. IInv /\ [Next]_vars => IInv'
  <2>1. ASSUME IInv, UNCHANGED vars
        PROVE  IInv'
    BY <2>1 DEF vars, IInv, Table, TypeOK, AtSlots, OneEntryPerDevice, ClaimantsListed,
       Control, Where, Locked, Updating, Stopped, Contexts, Apart, AsLeft
  <2>2. ASSUME IInv, Next
        PROVE  IInv'
    <3>1. Table'
      BY <2>2, RecordKeeps, RemovalKeeps, StoppingKeeps, OutsideKeeps DEF Next, Search, IInv
    <3>2. Contexts'
      BY <2>2, <3>1, RecordContexts, RemovalContexts, OtherContexts DEF Next, Search
    <3> QED BY <2>2, <3>1, <3>2, ControlKeeps DEF IInv
  <2> QED BY <2>1, <2>2
<1>2. IInv => RunningHasContext
  BY DEF IInv, Contexts, AsLeft, RunningHasContext
<1> QED BY <1>1, <1>2, InitInv, PTL DEF Spec
=============================================================================
