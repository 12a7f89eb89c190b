------------------------------ MODULE Registry ------------------------------
(***************************************************************************)
(* The table glMRDevices of squeeze2cast.c: the thread of the mDNS search, *)
(* whose callback adds, updates and removes devices without a lock; the    *)
(* main thread, which removes the expired ones under glUpdateMutex; and    *)
(* the thread that stops it all.                                           *)
(*                                                                         *)
(* A group has many candidates for its master.  It keeps a list of those   *)
(* that announced it; the head of the list is the one it talks to.         *)
(***************************************************************************)
EXTENDS Naturals, Sequences, SequencesExt

CONSTANTS Hosts,       \* addresses
          Groups,      \* UDNs of groups
          Players,     \* UDNs of single devices
          Addresses,   \* of a UDN, the addresses it may have
          Failing,     \* the hosts that may stop to answer
          Enabled,     \* the UDNs whose configuration does not disable them
          MaxDevices,  \* MAX_RENDERERS
          MaxMasters,  \* bound on the announcements a group keeps
          Overlaps     \* may a thread use a slot, or all stop, while another removes it

ASSUME RegistryAssumption ==
  /\ Groups \cap Players = {} /\ Enabled \subseteq Groups \cup Players
  /\ Addresses \in [Groups \cup Players -> SUBSET Hosts] /\ Failing \subseteq Hosts
  /\ MaxDevices \in Nat \ {0} /\ MaxMasters \in Nat \ {0}
  /\ Overlaps \in BOOLEAN

UDNs  == Groups \cup Players
Slots == 1..MaxDevices
None  == "none"
Threads == {"search", "main", "stop"}

VARIABLES
  device,   \* glMRDevices
  timeout,  \* Config.RemoveTimeout: negative, zero or positive
  proc,     \* what each thread does, and at which device
  mutex,    \* glUpdateMutex
  running,  \* glMainRunning
  alive,    \* external: the hosts that answer a ping
  claims    \* history: who announced a group since it was added, and did not retract

vars == <<device, timeout, proc, mutex, running, alive, claims>>

Free == [running |-> FALSE, udn |-> None, masters |-> <<>>, addr |-> None,
         expired |-> "no", ctx |-> "none", connected |-> FALSE]

\* Where a thread may be in the table: before the ping that decides on a
\* removal, before DeleteCastDevice, before the join of the player's thread.
\* For the search thread "records" is the loop on the records, "found" the
\* ping there; "scan" is UpdateDevices.
Places == {"idle", "records", "found", "scan", "ping", "closing", "delete", "join", "gone"}

DeviceType ==
  [running : BOOLEAN, udn : UDNs \cup {None}, masters : Seq(Hosts), addr : Hosts \cup {None},
   expired : {"no", "recent", "late"}, ctx : {"none", "live"}, connected : BOOLEAN]

ProcType == [at : Places, slot : 1..MaxDevices + 1, then : {"records", "scan"}]

\* A group that runs has a candidate for its master.
TypeOK ==
  /\ device \in [Slots -> DeviceType]
  /\ timeout \in {"never", "now", "later"}
  /\ proc \in [Threads -> ProcType]
  /\ mutex \in {"free", "search", "main"}
  /\ running \in BOOLEAN
  /\ alive \subseteq Hosts
  /\ claims \in [Groups -> SUBSET Hosts]
  /\ \A d \in Slots : device[d].running /\ device[d].udn \in Groups => device[d].masters # <<>>

\* Start.
Init ==
  /\ device = [d \in Slots |-> Free]
  /\ timeout \in {"never", "now", "later"}
  /\ proc = [t \in Threads |-> [at |-> "idle", slot |-> 1, then |-> "scan"]]
  /\ mutex = "free" /\ running = TRUE
  /\ alive = Hosts
  /\ claims = [g \in Groups |-> {}]

Goto(t, place) == proc' = [proc EXCEPT ![t].at = place]

\* A thread has dealt with a device: the next record, or the next slot.
Return(t) ==
  proc' = [proc EXCEPT ![t].at = proc[t].then, ![t].slot = IF proc[t].then = "scan" THEN @ + 1 ELSE 1]

-----------------------------------------------------------------------------
\* Lookups.

SearchUDN(udn) == {d \in Slots : device[d].running /\ device[d].udn = udn}

isMember(host) == \E d \in Slots : device[d].running /\ device[d].addr = host

\* A thread is about to remove a device, or cleans up its slot.
BeingRemoved(d) ==
  \E t \in Threads : proc[t].slot = d /\ proc[t].at \in {"found", "ping", "delete", "join"}

\* The search takes the first that does not run.
FreeSlots == {d \in Slots : ~device[d].running /\ \A e \in 1..d - 1 : device[e].running}

-----------------------------------------------------------------------------
\* What a record does to a device; UpdateCastDevice drops the connection when
\* the address is another.

Addressed(dev, addr) ==
  [dev EXCEPT !.addr = addr, !.connected = @ /\ dev.addr = addr]

WithoutHead(dev) ==
  Addressed([dev EXCEPT !.masters = Tail(@)], dev.masters[2])

\* The first entry of a host that is not the head, if it has one.
WithoutMember(dev, host) == [dev EXCEPT !.masters = RemoveFirst(@, host)]

\* A mutant: every entry of the host goes.
Retracted_All(dev, host) ==
  LET left == SelectSeq(dev.masters, LAMBDA h : h # host)
  IN IF left = <<>> THEN [dev EXCEPT !.masters = left]
     ELSE Addressed([dev EXCEPT !.masters = left], Head(left))

Retracted(dev, host) ==
  IF Head(dev.masters) = host THEN WithoutHead(dev) ELSE WithoutMember(dev, host)

\* A mutant: the new master takes the place of the old one.
Announced_Replaces(dev, host, addr) ==
  LET master == dev.udn \in Groups /\ Head(dev.masters) # addr
  IN Addressed(IF master THEN [dev EXCEPT !.masters[1] = host] ELSE dev, addr)

Announced(dev, host, addr) ==
  LET master == dev.udn \in Groups /\ Head(dev.masters) # addr
  IN Addressed(IF master THEN [dev EXCEPT !.masters = <<host>> \o @] ELSE dev, addr)

\* The claims of a group begin with its entry.
Claim(rec) ==
  claims' = IF rec.udn \notin Groups THEN claims
            ELSE [claims EXCEPT ![rec.udn] =
                    IF rec.expired THEN @ \ {rec.host}
                    ELSE IF SearchUDN(rec.udn) = {} THEN {rec.host}
                    ELSE @ \cup {rec.host}]

\* mDNSsearchCallback with records.
Round ==
  /\ proc["search"].at = "idle" /\ running
  /\ Goto("search", "records")
  /\ UNCHANGED <<device, timeout, mutex, running, alive, claims>>

\* Another device announces it on behalf of the one that has it, which is
\* known: the record is skipped.
Skipped(rec) == rec.host # rec.addr /\ isMember(rec.host)

Skip(rec) ==
  /\ Skipped(rec)
  /\ UNCHANGED vars

Refresh(rec, d) ==
  /\ ~Skipped(rec) /\ d \in SearchUDN(rec.udn) /\ ~rec.expired
  /\ Len(device[d].masters) < MaxMasters
  /\ device' = [device EXCEPT ![d] =
                  Announced([@ EXCEPT !.expired = "no"], rec.host, rec.addr)]
  /\ Claim(rec)
  /\ UNCHANGED <<timeout, proc, mutex, running, alive>>

\* There are other candidates.
Retract(rec, d) ==
  /\ ~Skipped(rec) /\ d \in SearchUDN(rec.udn) /\ rec.expired
  /\ Len(device[d].masters) > 1
  /\ device' = [device EXCEPT ![d] = Retracted([@ EXCEPT !.expired = "no"], rec.host)]
  /\ Claim(rec)
  /\ UNCHANGED <<timeout, proc, mutex, running, alive>>

\* There are none, or it is not a group: it is removed at once if it may be.
Expire(rec, d) ==
  /\ ~Skipped(rec) /\ d \in SearchUDN(rec.udn) /\ rec.expired
  /\ Len(device[d].masters) <= 1
  /\ Overlaps \/ ~BeingRemoved(d)
  /\ IF timeout = "now" /\ ~device[d].connected
     THEN /\ proc' = [proc EXCEPT !["search"] = [at |-> "found", slot |-> d, then |-> "records"]]
          /\ device' = [device EXCEPT ![d].expired = "no"]
     ELSE device' = [device EXCEPT ![d].expired = "recent"] /\ UNCHANGED proc
  /\ Claim(rec)
  /\ UNCHANGED <<timeout, mutex, running, alive>>

\* AddCastDevice, and the player of LMS, which may fail.
Add(rec, d) ==
  /\ ~Skipped(rec) /\ SearchUDN(rec.udn) = {} /\ ~rec.expired
  /\ d \in FreeSlots /\ rec.udn \in Enabled
  /\ Overlaps \/ ~BeingRemoved(d)
  /\ \E created \in BOOLEAN :
       /\ device' = [device EXCEPT ![d] =
            [Free EXCEPT !.running = created, !.udn = rec.udn, !.addr = rec.addr, !.ctx = "live",
                         !.masters = IF rec.udn \in Groups THEN <<rec.addr>> ELSE <<>>]]
       /\ IF created THEN UNCHANGED proc
          ELSE proc' = [proc EXCEPT !["search"] = [at |-> "delete", slot |-> d, then |-> "records"]]
  /\ Claim(rec)
  /\ UNCHANGED <<timeout, mutex, running, alive>>

\* Disabled, no room, or the end of something that is not known.
Ignore(rec) ==
  /\ ~Skipped(rec) /\ SearchUDN(rec.udn) = {}
  /\ rec.expired \/ rec.udn \notin Enabled \/ FreeSlots = {}
  /\ UNCHANGED vars

\* A group is announced by the host it is at; a single device may be announced
\* by another.
Records == {rec \in [udn : UDNs, host : Hosts, addr : Hosts, expired : BOOLEAN] :
              rec.addr \in Addresses[rec.udn] /\ (rec.udn \in Groups => rec.host = rec.addr)}

HandleRecord ==
  /\ proc["search"].at = "records" /\ running
  /\ \E rec \in Records :
       \/ Skip(rec) \/ Ignore(rec)
       \/ \E d \in Slots : Refresh(rec, d) \/ Retract(rec, d) \/ Expire(rec, d) \/ Add(rec, d)

-----------------------------------------------------------------------------
\* Removal: RemoveCastDevice by any of the three threads.

\* Running has been cleared before.
RemoveDelete(t) ==
  /\ proc[t].at = "delete"
  /\ device' = [device EXCEPT ![proc[t].slot].ctx = "none",
                              ![proc[t].slot].connected = FALSE]
  /\ Goto(t, "join")
  /\ UNCHANGED <<timeout, mutex, running, alive, claims>>

\* The player's thread leaves when Running is false.  What is left in the slot
\* is not looked at.
RemoveJoin(t) ==
  /\ proc[t].at = "join" /\ ~device[proc[t].slot].running
  /\ device' = [device EXCEPT ![proc[t].slot] = Free]
  /\ Return(t)
  /\ UNCHANGED <<timeout, mutex, running, alive, claims>>

\* The ping before it: 100 ms during which the others go on.
Ping(t) ==
  /\ proc[t].at \in {"found", "ping"}
  /\ LET d == proc[t].slot
     IN IF device[d].addr \in alive
        THEN /\ device' = [device EXCEPT ![d].expired = "recent"]
             /\ Return(t)
        ELSE /\ device' = [device EXCEPT ![d].running = FALSE]
             /\ Goto(t, "delete")
  /\ UNCHANGED <<timeout, mutex, running, alive, claims>>

\* A mutant: glUpdateMutex is not taken.
Lock_Never(t) ==
  /\ \/ t = "search" /\ proc[t].at = "records"
     \/ t = "main" /\ proc[t].at = "idle" /\ running
  /\ proc' = [proc EXCEPT ![t] = [at |-> "scan", slot |-> 1, then |-> "scan"]]
  /\ UNCHANGED <<device, timeout, mutex, running, alive, claims>>

\* UpdateDevices, after the records or when the main thread wakes.
Lock(t) ==
  /\ \/ t = "search" /\ proc[t].at = "records"
     \/ t = "main" /\ proc[t].at = "idle" /\ running
  /\ mutex = "free"
  /\ mutex' = t
  /\ proc' = [proc EXCEPT ![t] = [at |-> "scan", slot |-> 1, then |-> "scan"]]
  /\ UNCHANGED <<device, timeout, running, alive, claims>>

\* A mutant: a RemoveTimeout of 0 is taken for none.
Due_Positive(dev) ==
  /\ dev.running /\ timeout = "later" /\ ~dev.connected
  /\ dev.expired = "late"

Due(dev) ==
  /\ dev.running /\ timeout # "never" /\ ~dev.connected
  /\ dev.expired = "late"

\* The next that is due, or the end.
DueSlots(t) ==
  {d \in Slots : /\ d >= proc[t].slot /\ Due(device[d])
                 /\ \A e \in proc[t].slot..d - 1 : ~Due(device[e])}

Scan(t) ==
  /\ t \in {"search", "main"} /\ proc[t].at = "scan"
  /\ \E d \in DueSlots(t) : proc' = [proc EXCEPT ![t].at = "ping", ![t].slot = d]
  /\ UNCHANGED <<device, timeout, mutex, running, alive, claims>>

Unlock(t) ==
  /\ t \in {"search", "main"} /\ proc[t].at = "scan" /\ DueSlots(t) = {}
  /\ mutex' = "free"
  /\ proc' = [proc EXCEPT ![t] = [at |-> "idle", slot |-> 1, then |-> "scan"]]
  /\ UNCHANGED <<device, timeout, running, alive, claims>>

MainLeaves ==
  /\ proc["main"].at = "idle" /\ ~running
  /\ Goto("main", "gone")
  /\ UNCHANGED <<device, timeout, mutex, running, alive, claims>>

-----------------------------------------------------------------------------
\* Stop.

\* A mutant: glMainRunning is left.
StopBegin_Runs ==
  /\ running /\ proc["stop"].at = "idle"
  /\ Goto("stop", "closing")
  /\ UNCHANGED <<device, timeout, mutex, running, alive, claims>>

StopBegin ==
  /\ running /\ proc["stop"].at = "idle"
  /\ running' = FALSE /\ Goto("stop", "closing")
  /\ UNCHANGED <<device, timeout, mutex, alive, claims>>

\* The search is closed and its thread joined, and the mutex destroyed.
StopSearch ==
  /\ proc["stop"].at = "closing" /\ proc["search"].at = "idle"
  /\ Overlaps \/ proc["main"].at \in {"idle", "gone"}
  /\ proc' = [proc EXCEPT !["search"].at = "gone",
                          !["stop"] = [at |-> "scan", slot |-> 1, then |-> "scan"]]
  /\ UNCHANGED <<device, timeout, mutex, running, alive, claims>>

\* FlushCastDevices.
Flush ==
  /\ proc["stop"].at = "scan" /\ proc["stop"].slot \in Slots
  /\ LET d == proc["stop"].slot
     IN IF device[d].running
        THEN device' = [device EXCEPT ![d].running = FALSE] /\ Goto("stop", "delete")
        ELSE proc' = [proc EXCEPT !["stop"].slot = @ + 1] /\ UNCHANGED device
  /\ UNCHANGED <<timeout, mutex, running, alive, claims>>

\* The main thread is woken and joined.
StopMain ==
  /\ proc["stop"].at = "scan" /\ proc["stop"].slot \notin Slots
  /\ proc["main"].at = "gone"
  /\ Goto("stop", "gone")
  /\ UNCHANGED <<device, timeout, mutex, running, alive, claims>>

-----------------------------------------------------------------------------
\* The rest of the bridge and the network.

\* More than RemoveTimeout passes; with RemoveTimeout 0 that is a moment.
TimePasses(d) ==
  /\ device[d].expired = "recent"
  /\ device' = [device EXCEPT ![d].expired = "late"]
  /\ UNCHANGED <<timeout, proc, mutex, running, alive, claims>>

\* The player connects to its device, or drops the connection.
Connects(d) ==
  /\ device[d].running
  /\ device[d].addr \in alive \/ device[d].connected
  /\ device' = [device EXCEPT ![d].connected = ~@]
  /\ UNCHANGED <<timeout, proc, mutex, running, alive, claims>>

HostFails(host) ==
  /\ host \in alive
  /\ alive' = alive \ {host}
  /\ UNCHANGED <<device, timeout, proc, mutex, running, claims>>

Search == Round \/ HandleRecord
Removal(t) == RemoveDelete(t) \/ RemoveJoin(t) \/ Ping(t) \/ Lock(t) \/ Scan(t) \/ Unlock(t)
Stopping == StopBegin \/ StopSearch \/ Flush \/ StopMain
Outside == \/ \E d \in Slots : TimePasses(d) \/ Connects(d)
           \/ \E host \in Failing : HostFails(host)

Next == Search \/ MainLeaves \/ (\E t \in Threads : Removal(t)) \/ Stopping \/ Outside

\* The threads run; an expiry is not for ever.  Nothing says that an
\* announcement comes or that the bridge is stopped; once it is, it goes on.
Fairness ==
  /\ WF_vars(MainLeaves)
  /\ \A t \in Threads : WF_vars(RemoveDelete(t)) /\ WF_vars(RemoveJoin(t))
                        /\ WF_vars(Ping(t)) /\ SF_vars(Lock(t))
                        /\ WF_vars(Scan(t) \/ Unlock(t))
  /\ \A d \in Slots : WF_vars(TimePasses(d))
  /\ WF_vars(StopSearch) /\ WF_vars(Flush) /\ WF_vars(StopMain)

Spec == Init /\ [][Next]_vars /\ Fairness

-----------------------------------------------------------------------------
\* A device that runs has its context, and what is deleted is a context that
\* nobody deleted.
RunningHasContext ==
  /\ \A d \in Slots : device[d].running => device[d].ctx = "live"
  /\ \A t \in Threads : proc[t].at = "delete" => device[proc[t].slot].ctx = "live"

\* A device has one player, whatever is announced while it is removed.
OneEntryPerDevice ==
  \A d, e \in Slots :
    device[d].running /\ device[e].running /\ device[d].udn = device[e].udn => d = e

\* The table is well formed, and no device is in it twice.
TableOK == TypeOK /\ OneEntryPerDevice

\* No candidate is forgotten: who announced a group and did not retract is in
\* its list, and the group talks to the head of the list.
ClaimantsListed ==
  \A d \in Slots :
    LET dev == device[d]
    IN dev.running /\ dev.udn \in Groups =>
         claims[dev.udn] \subseteq Range(dev.masters) /\ dev.addr = Head(dev.masters)

\* What expired, has no connection and does not answer is removed in the end,
\* unless records about it set the time of its expiry again and again.
Silent(d) ==
  /\ device[d].running /\ device[d].expired # "no" /\ timeout # "never"
  /\ ~device[d].connected /\ device[d].addr \notin alive

Renewed(d) == device[d].expired = "late" /\ device'[d].expired = "recent"

SilentIsRemoved == \A d \in Slots : []<><<Renewed(d)>>_vars \/ []<>~Silent(d)

\* Stop ends, and leaves no device and no context behind.
StopEmpties ==
  proc["stop"].at = "closing" ~>
    [](/\ proc["stop"].at = "gone"
       /\ \A d \in Slots : ~device[d].running /\ device[d].ctx = "none")

\* What has retracted is not the master of a group that is not expiring.
MasterHasNotRetracted ==
  \A d \in Slots :
    LET dev == device[d]
    IN dev.running /\ dev.udn \in Groups /\ dev.expired = "no" /\ ~BeingRemoved(d) =>
         dev.addr \in claims[dev.udn]
=============================================================================
