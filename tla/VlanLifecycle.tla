---------------------------- MODULE VlanLifecycle ----------------------------
(***************************************************************************)
(* The virtual LAN of a room: the handlers of /rooms/:roomId/vlan, the     *)
(* WireGuard coordinator with the rows of wg_peers and the one device all  *)
(* rooms share, and the delayed clean-up the hub starts when a connection  *)
(* ends.                                                                   *)
(*                                                                         *)
(* Granularity.  A database access is a step, a change of the device is a  *)
(* step (the kernel takes it whole), and so is a look into the hub.  The   *)
(* coordinator's mutex is held by AllocateIP alone, so it orders nothing.  *)
(*                                                                         *)
(* The device is its table of allowed addresses: an address leads to the   *)
(* key of the last peer that claimed it.  Addresses are numbers, as their  *)
(* last byte is.                                                           *)
(***************************************************************************)
EXTENDS Naturals, FiniteSetsExt

CONSTANTS
    Rooms, Users,
    Visitors,       \* users with a WebSocket connection; the others only use HTTP
    Keys,           \* public keys
    HolderOf,       \* the user whose client made the key
    None,           \* nil
    Tasks,          \* goroutines: HTTP requests and woken clean-ups
    Gateway,        \* last byte of wireguard.gateway_ip
    LastAddress,    \* last address handed out (254 in the code)
    MaxRows,        \* bound: rows ever created
    MaxSleepers,    \* bound: sleeping clean-ups of one user and room
    MaxFaults       \* bound: restarts of the server and failing queries

ASSUME VlanAssumption ==
    /\ HolderOf \in [Keys -> Users]
    /\ None \notin Keys \cup (Rooms \X Users)
    /\ Gateway \in Nat
    /\ LastAddress \in Nat
    /\ Visitors \subseteq Users
    /\ {MaxRows, MaxSleepers, MaxFaults} \subseteq Nat

VARIABLES
    alive,      \* rooms
    rows,       \* wg_peers : id -> row
    nextId,     \* the next autoincrement id
    wg,         \* Coordinator.client # nil
    route,      \* the device: address -> key
    here,       \* <<room, user>>: the user's connection is in the room
    sleeping,   \* goroutines of scheduleWGPeerCleanup that sleep
    task,       \* Tasks
    faults,     \* how many restarts and failing queries there have been
    met,        \* history: whose operations ran at the same time in a room
    unsure      \* history: pairs an operation was disturbed for, or from whom
                \* another room took something on the device, since the last
                \* join that ran undisturbed

db    == <<alive, rows, nextId>>
dev   == <<wg, route>>
hub   == <<here, sleeping>>
past  == <<met, unsure>>
vars  == <<db, dev, hub, task, faults, past>>

Pairs     == Rooms \X Users
Addresses == 2..LastAddress
Ids       == 1..MaxRows
Row       == [pair : Pairs, key : Keys, ip : Addresses]
NoRow     == [pair |-> None, key |-> None, ip |-> 0]

\* What RegisterPeer and UnregisterPeer keep in local variables.
TaskPC == {"idle", "find", "update", "removeOld", "allocate", "create", "add",
           "lookup", "removePeer", "delete"}
Task   == [pc : TaskPC, pair : Pairs \cup {None}, key : Keys \cup {None}, id : 0..MaxRows,
           old : Keys \cup {None}, ip : {0} \cup Addresses, alone : BOOLEAN]
Idle   == [pc |-> "idle", pair |-> None, key |-> None, id |-> 0, old |-> None,
           ip |-> 0, alone |-> FALSE]

Active(t)  == task[t].pc # "idle"
Busy(pr)   == \E t \in Tasks : Active(t) /\ task[t].pair = pr
RowsOf(pr) == {i \in Ids : rows[i].pair = pr}

\* FindByRoomAndUser: First orders by the primary key.
First(pr)  == Min(RowsOf(pr))

-----------------------------------------------------------------------------
Init ==
    /\ alive    = Rooms
    /\ rows     = [i \in Ids |-> NoRow]
    /\ nextId   = 1
    /\ wg       \in BOOLEAN
    /\ route    = [a \in Addresses |-> None]
    /\ here     = {}
    /\ sleeping = [pr \in Pairs |-> 0]
    /\ task     = [t \in Tasks |-> Idle]
    /\ faults   = 0
    /\ met      = {}
    /\ unsure   = {}

-----------------------------------------------------------------------------
(* Operations begin, go on and end. *)

\* The others in progress in the room are noted, and a second operation of
\* the same user in the same room disturbs the first.
Begin(t, pr, pc, k) ==
    LET others == {s \in Tasks : Active(s) /\ task[s].pair[1] = pr[1]} IN
    /\ ~Active(t)
    /\ task' = [s \in Tasks |->
                  IF s = t THEN [Idle EXCEPT !.pc = pc, !.pair = pr, !.key = k,
                                             !.alone = ~Busy(pr)]
                  ELSE IF Active(s) /\ task[s].pair = pr THEN [task[s] EXCEPT !.alone = FALSE]
                  ELSE task[s]]
    /\ met' = met \cup UNION {{<<pr, task[s].pair>>, <<task[s].pair, pr>>} : s \in others}
    /\ unsure' = IF Busy(pr) THEN unsure \cup {pr} ELSE unsure

Goto(t, pc) == task' = [task EXCEPT ![t].pc = pc]
End(t)      == task' = [task EXCEPT ![t] = Idle]

\* A database access of t fails.
Fail(t) ==
    /\ faults < MaxFaults
    /\ faults' = faults + 1
    /\ met' = met \cup {<<task[t].pair, task[t].pair>>}
    /\ unsure' = unsure \cup {task[t].pair}

Succeed == UNCHANGED <<faults, past>>

-----------------------------------------------------------------------------
(* The device.  Without a client nothing happens. *)

\* removePeerFromDevice
WithoutKey(k) == [a \in Addresses |-> IF route[a] = k THEN None ELSE route[a]]
RemovePeer(k) == route' = IF wg THEN WithoutKey(k) ELSE route

\* Variant of AddPeer: the peers of the device are replaced (ReplacePeers).
AddPeerAlone(k, ip) == route' = IF wg THEN [a \in Addresses |-> IF a = ip THEN k ELSE None] ELSE route

\* addPeerToDevice: the peer has this address and no other, and the address
\* leads to no other peer.
AddPeer(k, ip) == route' = IF wg THEN [WithoutKey(k) EXCEPT ![ip] = k] ELSE route

\* The peers of other rooms with this key or address: every room uses the one
\* device.
Elsewhere(r, k, ip) ==
    {pr \in Pairs : pr[1] # r /\ \E i \in RowsOf(pr) : rows[i].key = k \/ rows[i].ip = ip}

-----------------------------------------------------------------------------
(* VLANHandler.Join and RegisterPeer *)

\* Only a member may join: who is one is up to the others, and the VLAN is not
\* told when it ends.  A deleted room has none.
Join(t, pr, k) ==
    /\ pr[1] \in alive
    /\ HolderOf[k] = pr[2]
    /\ Begin(t, pr, "find", k)
    /\ UNCHANGED <<db, dev, hub, faults>>

\* A failing query counts as no row.
Find(t) ==
    /\ task[t].pc = "find"
    /\ \/ /\ RowsOf(task[t].pair) # {}
          /\ LET i == First(task[t].pair) IN
             task' = [task EXCEPT ![t].pc = IF rows[i].key # task[t].key THEN "update" ELSE "add",
                                  ![t].id = i, ![t].old = rows[i].key, ![t].ip = rows[i].ip]
          /\ Succeed
       \/ /\ RowsOf(task[t].pair) = {}
          /\ Goto(t, "allocate")
          /\ Succeed
       \/ /\ task' = [task EXCEPT ![t].pc = "allocate", ![t].alone = FALSE]
          /\ Fail(t)
    /\ UNCHANGED <<db, dev, hub>>

\* Update saves the whole row read before, and inserts it again when somebody
\* has deleted it meanwhile.  Like Allocate and Create it may fail, and the
\* request ends there.
Update(t) ==
    /\ task[t].pc = "update"
    /\ \/ /\ rows' = [rows EXCEPT ![task[t].id] =
                          [pair |-> task[t].pair, key |-> task[t].key, ip |-> task[t].ip]]
          /\ Goto(t, "removeOld")
       \/ End(t) /\ UNCHANGED rows
    /\ UNCHANGED <<alive, nextId, dev, hub, faults, past>>

RemoveOld(t) ==
    /\ task[t].pc = "removeOld"
    /\ RemovePeer(task[t].old)
    /\ Goto(t, "add")
    /\ unsure' = unsure \cup Elsewhere(task[t].pair[1], task[t].old, 0)
    /\ UNCHANGED <<db, wg, hub, faults, met>>

\* Variant of Used: addresses are compared with the mask they are stored with.
UsedWithMask(r) == {}

\* Variant of Free: counting starts one address too early.
FreeFromOne(r) == (1..LastAddress) \ ({rows[i].ip : i \in Ids} \cup {Gateway})

Used(r) == {rows[i].ip : i \in {j \in Ids : rows[j] # NoRow /\ rows[j].pair[1] = r}}
Free(r) == Addresses \ (Used(r) \cup {Gateway})

\* AllocateIP: the first address free in the room; there may be none.
Allocate(t) ==
    LET free == Free(task[t].pair[1]) IN
    /\ task[t].pc = "allocate"
    /\ \/ /\ free # {}
          /\ task' = [task EXCEPT ![t].pc = "create", ![t].ip = Min(free)]
       \/ End(t)
    /\ UNCHANGED <<db, dev, hub, faults, past>>

Create(t) ==
    /\ task[t].pc = "create"
    /\ \/ /\ nextId <= MaxRows
          /\ rows' = [rows EXCEPT ![nextId] =
                          [pair |-> task[t].pair, key |-> task[t].key, ip |-> task[t].ip]]
          /\ nextId' = nextId + 1
          /\ Goto(t, "add")
       \/ End(t) /\ UNCHANGED <<rows, nextId>>
    /\ UNCHANGED <<alive, dev, hub, faults, past>>

\* The last thing RegisterPeer does.  What Join does after it, the list of the
\* others and the broadcast of vlan.peer_update, changes nothing here.
Add(t) ==
    /\ task[t].pc = "add"
    /\ AddPeer(task[t].key, task[t].ip)
    /\ End(t)
    /\ unsure' = (IF task[t].alone THEN unsure \ {task[t].pair} ELSE unsure)
                  \cup Elsewhere(task[t].pair[1], task[t].key, task[t].ip)
    /\ UNCHANGED <<db, wg, hub, faults, met>>

-----------------------------------------------------------------------------
(* VLANHandler.Leave and UnregisterPeer *)

\* Any user may call it for any room: membership is not asked for.
Leave(t, pr) ==
    /\ Begin(t, pr, "lookup", None)
    /\ UNCHANGED <<db, dev, hub, faults>>

\* Variant of Lookup: the device is forgotten.
LookupForgets(t) ==
    /\ task[t].pc = "lookup"
    /\ Goto(t, "delete")
    /\ UNCHANGED <<db, dev, hub, faults, past>>

Lookup(t) ==
    /\ task[t].pc = "lookup"
    /\ \/ /\ RowsOf(task[t].pair) # {}
          /\ task' = [task EXCEPT ![t].pc = "removePeer",
                                  ![t].old = rows[First(task[t].pair)].key]
          /\ Succeed
       \/ RowsOf(task[t].pair) = {} /\ Goto(t, "delete") /\ Succeed
       \/ Goto(t, "delete") /\ Fail(t)
    /\ UNCHANGED <<db, dev, hub>>

RemoveFromDevice(t) ==
    /\ task[t].pc = "removePeer"
    /\ RemovePeer(task[t].old)
    /\ Goto(t, "delete")
    /\ unsure' = unsure \cup Elsewhere(task[t].pair[1], task[t].old, 0)
    /\ UNCHANGED <<db, wg, hub, faults, met>>

\* Variant of DeleteRows: the row found by FindByRoomAndUser is deleted.
DeleteFirst(t) ==
    /\ task[t].pc = "delete"
    /\ End(t)
    /\ rows' = IF RowsOf(task[t].pair) = {} THEN rows
               ELSE [rows EXCEPT ![First(task[t].pair)] = NoRow]
    /\ UNCHANGED <<alive, nextId, dev, hub, faults, past>>

\* Every row of the user in the room goes.
DeleteRows(t) ==
    /\ task[t].pc = "delete"
    /\ End(t)
    /\ \/ /\ rows' = [i \in Ids |-> IF rows[i].pair = task[t].pair THEN NoRow ELSE rows[i]]
          /\ Succeed
       \/ Fail(t) /\ UNCHANGED rows
    /\ UNCHANGED <<alive, nextId, dev, hub>>

-----------------------------------------------------------------------------
(* What the hub does. *)

\* room.join
Enter(pr) ==
    /\ pr[2] \in Visitors /\ pr[1] \in alive /\ pr \notin here
    /\ here' = here \cup {pr}
    /\ UNCHANGED <<db, dev, sleeping, task, faults, past>>

\* room.leave, a kick, or a new connection of the user that has not yet joined
\* the room again: no clean-up is scheduled.
Exit(pr) ==
    /\ pr \in here
    /\ here' = here \ {pr}
    /\ UNCHANGED <<db, dev, sleeping, task, faults, past>>

\* The user's current connection ends: Unregister schedules a clean-up for each
\* of its rooms.
Disconnect(u) ==
    LET mine == {pr \in here : pr[2] = u} IN
    /\ mine # {}
    /\ \A pr \in mine : sleeping[pr] < MaxSleepers
    /\ here' = here \ mine
    /\ sleeping' = [pr \in Pairs |-> IF pr \in mine THEN sleeping[pr] + 1 ELSE sleeping[pr]]
    /\ UNCHANGED <<db, dev, task, faults, past>>

\* The delay is over.  A user who is back keeps the peer.
Wake(t, pr) ==
    /\ sleeping[pr] > 0
    /\ sleeping' = [sleeping EXCEPT ![pr] = @ - 1]
    /\ \/ pr \notin here /\ Begin(t, pr, "lookup", None)
       \/ pr \in here /\ ~Active(t) /\ UNCHANGED <<task, past>>
    /\ UNCHANGED <<db, dev, here, faults>>

-----------------------------------------------------------------------------
(* The room, and the process. *)

\* The transaction deletes the rows of the room; the device is not told.
DeleteRoom(r) ==
    /\ r \in alive
    /\ alive' = alive \ {r}
    /\ rows' = [i \in Ids |-> IF rows[i] # NoRow /\ rows[i].pair[1] = r THEN NoRow ELSE rows[i]]
    /\ UNCHANGED <<nextId, dev, hub, task, faults, past>>

\* A crash or a stop, and a start.  InitInterface makes a new device, which is
\* empty and stays so (reloadPeers), or fails, and what a device left behind
\* routes is out of reach.
Restart ==
    /\ faults < MaxFaults
    /\ faults' = faults + 1
    /\ wg' \in BOOLEAN
    /\ \/ route' = [a \in Addresses |-> None]
       \/ ~wg' /\ UNCHANGED route
    /\ here' = {}
    /\ sleeping' = [pr \in Pairs |-> 0]
    /\ task' = [t \in Tasks |-> Idle]
    /\ unsure' = Pairs
    /\ UNCHANGED <<db, met>>

-----------------------------------------------------------------------------
Step(t) ==
    \/ Find(t) \/ Update(t) \/ RemoveOld(t) \/ Allocate(t) \/ Create(t) \/ Add(t)
    \/ Lookup(t) \/ RemoveFromDevice(t) \/ DeleteRows(t)

WakeUp(pr) == \E t \in Tasks : Wake(t, pr)

Next ==
    \/ \E t \in Tasks, pr \in Pairs, k \in Keys : Join(t, pr, k)
    \/ \E t \in Tasks, pr \in Pairs : Leave(t, pr)
    \/ \E t \in Tasks : Step(t)
    \/ \E pr \in Pairs : Enter(pr) \/ Exit(pr) \/ WakeUp(pr)
    \/ \E u \in Users : Disconnect(u)
    \/ \E r \in Rooms : DeleteRoom(r)
    \/ Restart

Spec == Init /\ [][Next]_vars

\* A goroutine that runs goes on.  A sleeper finds a goroutine to run on: the
\* code starts one per clean-up, the model lends it one of Tasks.
Fairness ==
    /\ \A t \in Tasks : WF_vars(Step(t))
    /\ \A pr \in Pairs : SF_vars(WakeUp(pr))

FairSpec == Spec /\ Fairness

-----------------------------------------------------------------------------
(* Properties *)

TypeOK ==
    /\ alive \subseteq Rooms
    /\ rows \in [Ids -> Row \cup {NoRow}]
    /\ nextId \in 1..MaxRows + 1
    /\ wg \in BOOLEAN
    /\ route \in [Addresses -> Keys \cup {None}]
    /\ here \subseteq Pairs
    /\ sleeping \in [Pairs -> 0..MaxSleepers]
    /\ task \in [Tasks -> Task]
    /\ faults \in 0..MaxFaults
    /\ met \subseteq Pairs \X Pairs
    /\ unsure \subseteq Pairs

\* Two members of a room have the same address only if operations of theirs
\* have run at the same time (coordinator.go:328-340 create the row after the
\* lock of AllocateIP is released, and :315 may bring a deleted row back after
\* its address has been given away).
AddressesDiffer ==
    \A i, j \in Ids :
        /\ rows[i] # NoRow /\ rows[j] # NoRow
        /\ rows[i].pair[1] = rows[j].pair[1]
        /\ rows[i].pair[2] # rows[j].pair[2]
        /\ rows[i].ip = rows[j].ip
        => <<rows[i].pair, rows[j].pair>> \in met

\* A peer the database has is on the device, unless an operation of its user is
\* in progress, the last ones disturbed each other, a peer of another room has
\* taken its key or address, or another member whose operations met its own has
\* its address: a join that runs undisturbed repairs whatever a key change, a
\* failure, a restart or another room has left (coordinator.go:255 and :322-323).
RegisteredIsRouted ==
    \A pr \in Pairs :
        wg /\ RowsOf(pr) # {} /\ ~Busy(pr) /\ pr \notin unsure
        => \/ route[rows[First(pr)].ip] = rows[First(pr)].key
           \/ \E other \in Pairs \ {pr} : other[1] = pr[1] /\ <<other, pr>> \in met

\* Where nothing has failed and no operations have met, every peer can be reached
\* at the address it was given, in whatever room it is.
EveryPeerIsReachable ==
    wg /\ faults = 0 /\ met = {}
    => \A i \in Ids :
          rows[i] # NoRow /\ ~Busy(rows[i].pair) => route[rows[i].ip] = rows[i].key

\* A key on the device is the key of a peer of the database, except while its
\* user's operations run, after two of them have met, and for the peers of a
\* deleted room: nobody who has left keeps a way into the network.
NoStrayPeer ==
    \A a \in Addresses :
        wg /\ route[a] # None
        => \/ \E i \in Ids : rows[i].key = route[a] /\ rows[i].ip = a
           \/ \E pr \in Pairs :
                /\ pr[2] = HolderOf[route[a]]
                /\ Busy(pr) \/ <<pr, pr>> \in met \/ pr[1] \notin alive

\* Once a clean-up is scheduled, the user comes back to the room or is no peer
\* of it any more, however many rows a race has left; unless the server stops
\* or a query fails (hub.go:147-180).
AbsentIsCleaned ==
    \A pr \in Pairs, n \in 0..MaxFaults :
        (sleeping[pr] > 0 /\ faults = n)
        ~> (RowsOf(pr) = {} \/ pr \in here \/ faults # n)
=============================================================================
