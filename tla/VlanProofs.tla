----------------------------- MODULE VlanProofs -----------------------------
(***************************************************************************)
(* That nobody who has left the VLAN keeps a way into it, that the members *)
(* of a room have addresses of their own, and that the address of a member *)
(* leads to its key, for any rooms, users, keys and number of requests at  *)
(* once.                                                                   *)
(***************************************************************************)
EXTENDS VlanLifecycle, WellFoundedInduction, TLAPS

\* No operations of the user in the room have met, none has failed, and the
\* room is there: only then does anything have to be right.
Clean(pr) == <<pr, pr>> \notin met /\ pr[1] \in alive

\* Two operations that run for a user in a room have met.
OneTask ==
    \A pr \in Pairs, s \in Tasks, t \in Tasks :
        Clean(pr) /\ s # t /\ Active(s) /\ Active(t) /\ task[s].pair = pr => task[t].pair # pr

\* A row has a key of its user, and an undisturbed user has one row.
RowOK(i) == rows[i] # NoRow => i < nextId /\ HolderOf[rows[i].key] = rows[i].pair[2]
OneRow   == \A pr \in Pairs : Clean(pr) => \A i, j \in RowsOf(pr) : i = j

\* What an operation has in hand.
Joining    == {"find", "update", "removeOld", "allocate", "create", "add"}
HandsOK(t) ==
    Active(t) =>
    /\ task[t].pair \in Pairs
    /\ task[t].pc \in Joining => task[t].key \in Keys /\ HolderOf[task[t].key] = task[t].pair[2]
    /\ task[t].pc \in {"update", "removeOld", "create", "add"} => task[t].ip \in Addresses
    /\ task[t].pc \in {"update", "removeOld", "removePeer"} => task[t].old \in Keys

\* The id that Update saves its row under has always been of its user's rows.
SavesOwn ==
    /\ \A t \in Tasks :
          task[t].pc = "update" =>
          /\ task[t].id \in Ids /\ task[t].id < nextId
          /\ rows[task[t].id] = NoRow \/ rows[task[t].id].pair = task[t].pair
    /\ \A s, t \in Tasks :
          task[s].pc = "update" /\ task[t].pc = "update" /\ task[s].id = task[t].id
          => task[s].pair = task[t].pair

\* What an undisturbed operation finds in the database.
FindsOK(t) ==
    Active(t) /\ Clean(task[t].pair) =>
    /\ task[t].pc = "update" =>
          rows[task[t].id] = [pair |-> task[t].pair, key |-> task[t].old, ip |-> task[t].ip]
    /\ task[t].pc \in {"removeOld", "add"} =>
          \E i \in Ids : rows[i] = [pair |-> task[t].pair, key |-> task[t].key, ip |-> task[t].ip]
    /\ task[t].pc \in {"allocate", "create"} => RowsOf(task[t].pair) = {}
    /\ task[t].pc = "removePeer" => \A i \in RowsOf(task[t].pair) : rows[i].key = task[t].old

\* Why key k may be on the device at address a: for a user and room in which
\* nothing has to be right, for a row that is not about to go, or for a join
\* that is about to take the old key off.
Accounts(pr, a, k) ==
    /\ pr[2] = HolderOf[k]
    /\ \/ ~Clean(pr)
       \/ /\ \E i \in Ids : rows[i] = [pair |-> pr, key |-> k, ip |-> a]
          /\ \A t \in Tasks : ~(task[t].pc = "delete" /\ task[t].pair = pr)
       \/ \E t \in Tasks : task[t].pc = "removeOld" /\ task[t].pair = pr /\ task[t].old = k

DeviceOK ==
    wg => \A a \in Addresses :
             route[a] # None => \E pr \in Pairs : Accounts(pr, a, route[a])

IInv ==
    /\ TypeOK
    /\ OneTask
    /\ OneRow
    /\ \A i \in Ids : RowOK(i)
    /\ \A t \in Tasks : HandsOK(t)
    /\ SavesOwn
    /\ \A t \in Tasks : FindsOK(t)
    /\ DeviceOK

-----------------------------------------------------------------------------
(* The least of some numbers. *)

LEMMA MinIsIn ==
    ASSUME NEW S \in SUBSET Nat, S # {}
    PROVE  Min(S) \in S /\ \A x \in S : Min(S) <= x
<1> DEFINE R == OpToRel(<, Nat)
<1>1. IsWellFoundedOn(R, Nat)
    BY NatLessThanWellFounded
<1>2. \A x, y \in Nat : <<x, y>> \in R <=> x < y
    BY DEF OpToRel
<1> HIDE DEF R
<1>3. PICK x \in S : \A y \in S : ~(<<y, x>> \in R)
    BY <1>1, WFMin
<1>4. ASSUME NEW y \in S PROVE x <= y
    <2>1. x \in Nat /\ y \in Nat
        OBVIOUS
    <2>2. ~(<<y, x>> \in R)
        BY <1>3
    <2>3. ~(y < x)
        BY <1>2, <2>1, <2>2
    <2> QED BY <2>1, <2>3
<1> QED BY <1>4 DEF Min

-----------------------------------------------------------------------------
(* Frames. *)

LEMMA NoRowIsNoRow ==
    /\ NoRow.pair \notin Pairs /\ NoRow.key = None
    /\ NoRow \notin Row
    /\ \A x \in Row : x.pair \in Pairs /\ x.key \in Keys /\ x.ip \in Addresses
BY VlanAssumption DEF NoRow, Row, Pairs

LEMMA RowsOfType ==
    ASSUME NEW pr
    PROVE  RowsOf(pr) \subseteq Ids /\ \A i \in Ids : i \in RowsOf(pr) <=> rows[i].pair = pr
BY DEF RowsOf

LEMMA FirstIsRow ==
    ASSUME NEW pr, RowsOf(pr) # {}
    PROVE  First(pr) \in RowsOf(pr)
<1>1. RowsOf(pr) \in SUBSET Nat
    BY RowsOfType DEF Ids
<1> QED BY <1>1, MinIsIn DEF First

\* Nobody becomes undisturbed again.
LEMMA CleanShrinks ==
    ASSUME met \subseteq met', alive' \subseteq alive, NEW pr, Clean(pr)'
    PROVE  Clean(pr)
BY DEF Clean

\* A step that changes only the rows of its own user in its own room leaves
\* the other operations what they had and found.
LEMMA OthersKept ==
    ASSUME IInv, NEW t \in Tasks, Active(t), NEW r \in Task, task' = [task EXCEPT ![t] = r],
           r.pc = "idle" \/ r.pair = task[t].pair,
           alive' = alive, met \subseteq met',
           \A i \in Ids : rows'[i] # rows[i] => rows[i].pair \in {None, task[t].pair}
                                            /\ rows'[i].pair \in {None, task[t].pair}
    PROVE  /\ task' \in [Tasks -> Task] /\ task'[t] = r
           /\ \A s \in Tasks \ {t} : task'[s] = task[s]
           /\ OneTask'
           /\ r.pc = "idle" => HandsOK(t)' /\ FindsOK(t)'
           /\ \A s \in Tasks \ {t} : HandsOK(s)' /\ FindsOK(s)'
           /\ \A pr \in Pairs \ {task[t].pair} : RowsOf(pr)' = RowsOf(pr)
           /\ \A pr \in Pairs \ {task[t].pair} : \A a, k : Accounts(pr, a, k) => Accounts(pr, a, k)'
<1> USE DEF IInv
<1>1. task[t].pair \in Pairs /\ None \notin Pairs
    BY VlanAssumption DEF HandsOK, Pairs
<1>2. task' \in [Tasks -> Task] /\ task'[t] = r /\ \A s \in Tasks \ {t} : task'[s] = task[s]
    BY DEF TypeOK
<1>3. \A pr : Clean(pr)' => Clean(pr)
    BY CleanShrinks
<1>4. OneTask'
    BY <1>2, <1>3 DEF OneTask, Active
<1>5. r.pc = "idle" => HandsOK(t)' /\ FindsOK(t)'
    BY <1>2 DEF HandsOK, FindsOK, Active
<1>6. ASSUME NEW pr \in Pairs \ {task[t].pair}, NEW i \in Ids
      PROVE  (rows'[i].pair = pr \/ rows[i].pair = pr) => rows'[i] = rows[i]
    BY <1>1
<1>7. \A pr \in Pairs \ {task[t].pair} : RowsOf(pr)' = RowsOf(pr)
    BY <1>6 DEF RowsOf
<1>8. ASSUME NEW s \in Tasks \ {t} PROVE HandsOK(s)' /\ FindsOK(s)'
    <2>1. HandsOK(s)'
        BY <1>2 DEF HandsOK, Active
    <2>2. CASE task[s].pair = task[t].pair \/ ~Active(s) \/ ~Clean(task[s].pair)'
        <3>1. ~(Active(s) /\ Clean(task[s].pair))'
            BY <1>1, <1>2, <1>3, <2>2 DEF OneTask, Active
        <3> QED BY <2>1, <3>1 DEF FindsOK
    <2>3. CASE task[s].pair # task[t].pair /\ Active(s) /\ Clean(task[s].pair)'
        <3> DEFINE pr == task[s].pair
        <3>1. pr \in Pairs \ {task[t].pair} /\ Clean(pr) /\ task'[s] = task[s]
            BY <1>2, <1>3, <2>3 DEF HandsOK
        <3>2. RowsOf(pr)' = RowsOf(pr) /\ \A i \in Ids : rows[i].pair = pr => rows'[i] = rows[i]
            BY <1>6, <1>7, <3>1
        <3>3. FindsOK(s)
            OBVIOUS
        <3>4. task[s].pc = "update" => task[s].id \in Ids
            BY DEF SavesOwn
        <3>5. task[s].pc = "update" =>
                  rows'[task[s].id] = [pair |-> pr, key |-> task[s].old, ip |-> task[s].ip]
            BY <2>3, <3>1, <3>2, <3>3, <3>4 DEF FindsOK
        <3>6. task[s].pc \in {"removeOld", "add"} =>
                  \E i \in Ids : rows'[i] = [pair |-> pr, key |-> task[s].key, ip |-> task[s].ip]
            BY <2>3, <3>1, <3>2, <3>3 DEF FindsOK
        <3>7. task[s].pc \in {"allocate", "create"} => RowsOf(pr)' = {}
            BY <2>3, <3>1, <3>2, <3>3 DEF FindsOK
        <3>8. task[s].pc = "removePeer" => \A i \in RowsOf(pr)' : rows'[i].key = task[s].old
            BY <2>3, <3>1, <3>2, <3>3, RowsOfType DEF FindsOK
        <3> QED BY ONLY <2>1, <3>1, <3>5, <3>6, <3>7, <3>8 DEF FindsOK, RowsOf
    <2> QED BY <2>1, <2>2, <2>3
<1>9. ASSUME NEW pr \in Pairs \ {task[t].pair}, NEW a, NEW k, Accounts(pr, a, k)
      PROVE  Accounts(pr, a, k)'
    <2>1. CASE ~Clean(pr)'
        BY <2>1, <1>9 DEF Accounts
    <2>2. CASE \E i \in Ids : rows[i] = [pair |-> pr, key |-> k, ip |-> a]
        /\ \A s \in Tasks : ~(task[s].pc = "delete" /\ task[s].pair = pr)
        <3>1. \E i \in Ids : rows'[i] = [pair |-> pr, key |-> k, ip |-> a]
            BY <1>6, <2>2
        <3>2. \A s \in Tasks : ~(task'[s].pc = "delete" /\ task'[s].pair = pr)
            BY <1>2, <2>2
        <3> QED BY <1>9, <3>1, <3>2 DEF Accounts
    <2>3. CASE \E s \in Tasks : task[s].pc = "removeOld" /\ task[s].pair = pr /\ task[s].old = k
        <3>1. \E s \in Tasks : task'[s].pc = "removeOld" /\ task'[s].pair = pr /\ task'[s].old = k
            BY <1>2, <2>3
        <3> QED BY <1>9, <3>1 DEF Accounts
    <2> QED BY <1>3, <1>9, <2>1, <2>2, <2>3 DEF Accounts
<1> QED BY <1>2, <1>4, <1>5, <1>7, <1>8, <1>9

\* What concerns neither the rows, the device nor the operations.
LEMMA QuietKeeps ==
    ASSUME IInv, UNCHANGED <<db, dev, task, met>>,
           here' \subseteq Pairs, sleeping' \in [Pairs -> 0..MaxSleepers],
           faults' \in 0..MaxFaults, unsure' \subseteq Pairs
    PROVE  IInv'
<1> USE DEF IInv, db, dev
<1>1. TypeOK'
    BY DEF TypeOK
<1>2. OneTask' /\ OneRow' /\ SavesOwn' /\ \A i \in Ids : RowOK(i)'
    BY DEF OneTask, OneRow, SavesOwn, RowOK, RowsOf, Active, Clean
<1>3. \A t \in Tasks : HandsOK(t)' /\ FindsOK(t)'
    BY DEF HandsOK, FindsOK, RowsOf, Active, Clean
<1>4. DeviceOK'
    <2>1. \A pr, a, k : Accounts(pr, a, k)' <=> Accounts(pr, a, k)
        BY DEF Accounts, Clean
    <2> QED BY <2>1 DEF DeviceOK
<1> QED BY <1>1, <1>2, <1>3, <1>4

-----------------------------------------------------------------------------
(* Operations begin. *)

LEMMA IdleIsTask == Idle \in Task /\ Idle.pc = "idle"
BY VlanAssumption DEF Idle, Task, TaskPC

LEMMA BeginKeeps ==
    ASSUME IInv, NEW t \in Tasks, NEW pr \in Pairs, NEW pc \in {"find", "lookup"},
           NEW k \in Keys \cup {None}, pc = "find" => k \in Keys /\ HolderOf[k] = pr[2],
           Begin(t, pr, pc, k), UNCHANGED <<db, dev, faults>>,
           here' \subseteq Pairs, sleeping' \in [Pairs -> 0..MaxSleepers]
    PROVE  IInv'
<1> DEFINE r == [Idle EXCEPT !.pc = pc, !.pair = pr, !.key = k, !.alone = ~Busy(pr)]
<1>1. r \in Task /\ r.pc = pc /\ r.pair = pr /\ r.key = k
    <2>1. (~Busy(pr)) \in BOOLEAN
        BY ONLY Zenon
    <2> QED BY <2>1, IdleIsTask DEF Task, TaskPC
<1>2. task'[t] = r /\ ~Active(t)
    BY DEF Begin
<1> HIDE DEF r
<1>3. ASSUME NEW s \in Tasks \ {t}
      PROVE  task'[s] = task[s] \/ task'[s] = [task[s] EXCEPT !.alone = FALSE]
    BY DEF Begin
<1>4. TypeOK
    BY DEF IInv
<1>5. ASSUME NEW s \in Tasks \ {t}
      PROVE  /\ task'[s] \in Task
             /\ task'[s].pc = task[s].pc /\ task'[s].pair = task[s].pair
             /\ task'[s].key = task[s].key /\ task'[s].id = task[s].id
             /\ task'[s].old = task[s].old /\ task'[s].ip = task[s].ip
    <2>1. task[s] \in Task
        BY <1>4 DEF TypeOK
    <2> QED BY <1>3, <2>1 DEF Task
<1>6. task' \in [Tasks -> Task]
    <2>1. task' = [s \in Tasks |-> task'[s]]
        BY DEF Begin
    <2> QED BY <1>1, <1>2, <1>5, <2>1
<1>7. \A s \in Tasks : Active(s) => task[s].pair \in Pairs
    BY DEF IInv, HandsOK
<1>8. met \subseteq met' /\ met' \subseteq Pairs \X Pairs
    BY <1>4, <1>7 DEF Begin, TypeOK
<1>9. \A s \in Tasks : Active(s) /\ task[s].pair = pr => <<pr, pr>> \in met'
    BY DEF Begin
<1>10. unsure' \subseteq Pairs
    BY <1>4 DEF Begin, TypeOK
<1>11. TypeOK'
    BY <1>4, <1>6, <1>8, <1>10 DEF TypeOK, db, dev
<1>12. UNCHANGED <<alive, rows, nextId, wg, route>>
    BY DEF db, dev
<1>13. \A q : Clean(q)' => Clean(q)
    BY <1>8, <1>12, CleanShrinks
<1>14. OneTask'
    BY <1>1, <1>2, <1>5, <1>9, <1>13 DEF IInv, OneTask, Active, Clean
<1>15. OneRow' /\ \A i \in Ids : RowOK(i)'
    BY <1>12, <1>13 DEF IInv, OneRow, RowOK, RowsOf
<1>16. SavesOwn'
    BY <1>1, <1>2, <1>5, <1>12 DEF IInv, SavesOwn
<1>17. ASSUME NEW s \in Tasks PROVE HandsOK(s)' /\ FindsOK(s)'
    <2>1. CASE s = t
        BY <1>1, <1>2, <2>1 DEF HandsOK, FindsOK, Active, Joining
    <2>2. CASE s # t
        <3>1. HandsOK(s) /\ FindsOK(s)
            BY DEF IInv
        <3>2. HandsOK(s)'
            BY <1>5, <2>2, <3>1 DEF HandsOK, Active, Joining
        <3>3. FindsOK(s)'
            BY <1>5, <1>12, <1>13, <2>2, <3>1 DEF FindsOK, Active, RowsOf
        <3> QED BY <3>2, <3>3
    <2> QED BY <2>1, <2>2
<1>18. DeviceOK'
    <2>1. ASSUME NEW q \in Pairs, NEW a, NEW h, Accounts(q, a, h)
          PROVE  Accounts(q, a, h)'
        <3>1. \A s \in Tasks : task'[s].pc \in {"delete", "removeOld"} =>
                  task[s].pc = task'[s].pc /\ task[s].pair = task'[s].pair
            BY <1>1, <1>2, <1>5
        <3>2. \A s \in Tasks : task[s].pc = "removeOld" =>
                  /\ task'[s].pc = task[s].pc /\ task'[s].pair = task[s].pair
                  /\ task'[s].old = task[s].old
            BY <1>2, <1>5 DEF Active
        <3> QED BY <1>12, <1>13, <2>1, <3>1, <3>2 DEF Accounts
    <2> QED BY <1>12, <2>1 DEF IInv, DeviceOK
<1> QED BY <1>11, <1>14, <1>15, <1>16, <1>17, <1>18 DEF IInv

-----------------------------------------------------------------------------
(* Operations go on. *)

\* A failing query disturbs its own operation.
LEMMA FailType ==
    ASSUME IInv, NEW t \in Tasks, Active(t), Fail(t), NEW pr, task[t].pair = pr
    PROVE  /\ met \subseteq met' /\ met' \subseteq Pairs \X Pairs
           /\ unsure' \subseteq Pairs /\ faults' \in 0..MaxFaults
           /\ ~Clean(pr)'
<1>1. task[t].pair \in Pairs /\ MaxFaults \in Nat
    BY VlanAssumption DEF IInv, HandsOK
<1>2. met \subseteq Pairs \X Pairs /\ unsure \subseteq Pairs /\ faults \in 0..MaxFaults
    BY DEF IInv, TypeOK
<1>3. faults' \in 0..MaxFaults
    BY <1>1, <1>2 DEF Fail
<1> QED BY <1>1, <1>2, <1>3 DEF Fail, Clean

LEMMA SucceedType ==
    ASSUME IInv, Succeed
    PROVE  /\ met \subseteq met' /\ met' \subseteq Pairs \X Pairs
           /\ unsure' \subseteq Pairs /\ faults' \in 0..MaxFaults
BY DEF Succeed, past, IInv, TypeOK

\* A step that only looks, or ends.
LEMMA LookKeeps ==
    ASSUME IInv, NEW t \in Tasks, Active(t), NEW r \in Task, task' = [task EXCEPT ![t] = r],
           NEW pr, task[t].pair = pr, r.pc = "idle" \/ r.pair = pr,
           UNCHANGED <<db, dev, hub>>,
           met \subseteq met', met' \subseteq Pairs \X Pairs,
           unsure' \subseteq Pairs, faults' \in 0..MaxFaults,
           task[t].pc # "removeOld",
           r.pc = "delete" => RowsOf(pr) = {} \/ ~Clean(pr)',
           r.pc = "update" => r.id \in Ids /\ rows[r.id].pair = r.pair,
           HandsOK(t)', FindsOK(t)'
    PROVE  IInv'
<1>0. TypeOK /\ pr \in Pairs /\ None \notin Pairs
    BY VlanAssumption DEF IInv, HandsOK, Pairs
<1>1. UNCHANGED <<alive, rows, nextId, wg, route, here, sleeping>>
    BY DEF db, dev, hub
<1>2. /\ task' \in [Tasks -> Task] /\ task'[t] = r
      /\ \A s \in Tasks \ {t} : task'[s] = task[s]
      /\ OneTask'
      /\ \A s \in Tasks \ {t} : HandsOK(s)' /\ FindsOK(s)'
      /\ \A q \in Pairs \ {pr} : \A a, k : Accounts(q, a, k) => Accounts(q, a, k)'
    BY <1>1, OthersKept
<1>3. TypeOK'
    BY <1>0, <1>1, <1>2 DEF TypeOK
<1>4. \A q : Clean(q)' => Clean(q)
    BY <1>1, CleanShrinks
<1>5. OneRow' /\ \A i \in Ids : RowOK(i)'
    BY <1>1, <1>4 DEF IInv, OneRow, RowOK, RowsOf
<1>6. SavesOwn'
    <2>1. SavesOwn /\ \A i \in Ids : RowOK(i)
        BY DEF IInv
    <2>2. r.pc = "update" => r.pair = pr /\ r.id \in Ids /\ r.id < nextId /\ rows[r.id].pair = pr
        BY <1>0, <2>1, NoRowIsNoRow DEF RowOK
    <2>3. \A s \in Tasks : task[s].pc = "update" /\ r.pc = "update" /\ task[s].id = r.id
              => task[s].pair = pr
        BY <1>0, <2>1, <2>2, NoRowIsNoRow DEF SavesOwn
    <2> QED BY <1>1, <1>2, <2>1, <2>2, <2>3 DEF SavesOwn
<1>7. DeviceOK'
    <2>1. ASSUME NEW a, NEW k, Accounts(pr, a, k)
          PROVE  Accounts(pr, a, k)'
        <3>1. CASE ~Clean(pr)'
            BY <2>1, <3>1 DEF Accounts
        <3>2. CASE Clean(pr)' /\ \E s \in Tasks : task[s].pc = "removeOld" /\ task[s].pair = pr /\ task[s].old = k
            BY <1>2, <2>1, <3>2 DEF Accounts
        <3>3. CASE /\ Clean(pr)' /\ \E i \in Ids : rows[i] = [pair |-> pr, key |-> k, ip |-> a]
                   /\ \A s \in Tasks : ~(task[s].pc = "delete" /\ task[s].pair = pr)
            <4>1. RowsOf(pr) # {}
                BY <3>3 DEF RowsOf
            <4>2. \A s \in Tasks : ~(task'[s].pc = "delete" /\ task'[s].pair = pr)
                BY <1>2, <3>3, <4>1
            <4> QED BY <1>1, <2>1, <3>3, <4>2 DEF Accounts
        <3> QED BY <1>4, <2>1, <3>1, <3>2, <3>3 DEF Accounts
    <2> QED BY <1>1, <1>2, <2>1 DEF IInv, DeviceOK
<1>8. \A s \in Tasks : HandsOK(s)' /\ FindsOK(s)'
    BY <1>2
<1> QED BY <1>2, <1>3, <1>5, <1>6, <1>7, <1>8 DEF IInv

\* An operation that ends without having done anything.
LEMMA EndKeeps ==
    ASSUME IInv, NEW t \in Tasks, Active(t), End(t), task[t].pc # "removeOld",
           UNCHANGED <<db, dev, hub>>,
           met \subseteq met', met' \subseteq Pairs \X Pairs,
           unsure' \subseteq Pairs, faults' \in 0..MaxFaults
    PROVE  IInv'
<1>1. task'[t] = Idle /\ Idle.pc = "idle"
    BY IdleIsTask DEF IInv, TypeOK, End
<1>2. HandsOK(t)' /\ FindsOK(t)'
    BY <1>1 DEF HandsOK, FindsOK, Active
<1> QED BY <1>1, <1>2, IdleIsTask, LookKeeps DEF End

LEMMA FindKeeps ==
    ASSUME IInv, NEW t \in Tasks, Find(t)
    PROVE  IInv'
<1>1. PICK pr : pr = task[t].pair
    OBVIOUS
<1>2. /\ task[t] \in Task /\ task[t].pc = "find" /\ Active(t)
      /\ pr \in Pairs /\ task[t].key \in Keys /\ HolderOf[task[t].key] = pr[2]
    BY <1>1 DEF Find, IInv, TypeOK, HandsOK, Active, Joining
<1>3. TypeOK /\ UNCHANGED <<db, dev, hub>> /\ UNCHANGED <<alive, rows>>
    BY DEF Find, IInv, db
<1>4. CASE RowsOf(pr) # {} /\ Succeed
           /\ task' = [task EXCEPT ![t].pc = IF rows[First(pr)].key # task[t].key THEN "update" ELSE "add",
                                   ![t].id = First(pr), ![t].old = rows[First(pr)].key,
                                   ![t].ip = rows[First(pr)].ip]
    <2>1. PICK i \in RowsOf(pr) : i = First(pr)
        BY <1>4, FirstIsRow
    <2>2. i \in Ids /\ rows[i] \in Row /\ rows[i].pair = pr
        BY <1>2, <1>3, RowsOfType, NoRowIsNoRow DEF TypeOK
    <2>3. i \in 0..MaxRows
        BY <2>2, VlanAssumption DEF Ids
    <2> DEFINE r == [task[t] EXCEPT !.pc = IF rows[i].key # task[t].key THEN "update" ELSE "add",
                                    !.id = i, !.old = rows[i].key, !.ip = rows[i].ip]
    <2>4. /\ r \in Task /\ r.pair = pr /\ r.id = i /\ r.old = rows[i].key /\ r.ip = rows[i].ip
          /\ r.key = task[t].key /\ r.pc = IF rows[i].key # task[t].key THEN "update" ELSE "add"
        BY <1>1, <1>2, <2>2, <2>3, NoRowIsNoRow DEF Task, TaskPC
    <2>5. task' = [task EXCEPT ![t] = r] /\ task'[t] = r
        BY <1>3, <1>4, <2>1 DEF TypeOK
    <2> HIDE DEF r
    <2>6. HandsOK(t)'
        BY <1>2, <2>2, <2>4, <2>5, NoRowIsNoRow DEF HandsOK, Joining
    <2>7. rows[i] = [pair |-> pr, key |-> rows[i].key, ip |-> rows[i].ip]
        BY <2>2 DEF Row
    <2>8. FindsOK(t)'
        BY <1>3, <2>2, <2>4, <2>5, <2>7 DEF FindsOK
    <2>9. r.pc # "delete" /\ r.id \in Ids /\ rows[r.id].pair = r.pair
        BY <2>2, <2>4
    <2>10. /\ met \subseteq met' /\ met' \subseteq Pairs \X Pairs
           /\ unsure' \subseteq Pairs /\ faults' \in 0..MaxFaults
        BY <1>4, SucceedType
    <2>11. r \in Task /\ r.pair = pr /\ task[t].pc # "removeOld" /\ task' = [task EXCEPT ![t] = r]
        BY <1>2, <2>4, <2>5
    <2> QED BY <1>1, <1>2, <1>3, <2>6, <2>8, <2>9, <2>10, <2>11, LookKeeps
<1>5. CASE RowsOf(pr) = {} /\ Goto(t, "allocate") /\ Succeed
    <2> DEFINE r == [task[t] EXCEPT !.pc = "allocate"]
    <2>1. r \in Task /\ r.pair = pr /\ r.key = task[t].key /\ r.pc = "allocate"
        BY <1>1, <1>2 DEF Task, TaskPC
    <2>2. task' = [task EXCEPT ![t] = r] /\ task'[t] = r
        BY <1>3, <1>5 DEF TypeOK, Goto
    <2> HIDE DEF r
    <2>3. HandsOK(t)' /\ FindsOK(t)'
        BY <1>2, <1>3, <1>5, <2>1, <2>2 DEF HandsOK, FindsOK, Joining, RowsOf
    <2> QED BY <1>1, <1>2, <1>3, <1>5, <2>1, <2>2, <2>3, SucceedType, LookKeeps
<1>6. CASE task' = [task EXCEPT ![t].pc = "allocate", ![t].alone = FALSE] /\ Fail(t)
    <2> DEFINE r == [task[t] EXCEPT !.pc = "allocate", !.alone = FALSE]
    <2>1. r \in Task /\ r.pair = pr /\ r.key = task[t].key /\ r.pc = "allocate"
        BY <1>1, <1>2 DEF Task, TaskPC
    <2>2. task' = [task EXCEPT ![t] = r] /\ task'[t] = r
        BY <1>3, <1>6 DEF TypeOK
    <2> HIDE DEF r
    <2>3. ~Clean(pr)'
        BY <1>1, <1>2, <1>6, FailType
    <2>4. HandsOK(t)' /\ FindsOK(t)'
        BY <1>2, <2>1, <2>2, <2>3 DEF HandsOK, FindsOK, Joining
    <2> QED BY <1>1, <1>2, <1>3, <1>6, <2>1, <2>2, <2>4, FailType, LookKeeps
<1> QED BY <1>1, <1>4, <1>5, <1>6 DEF Find

LEMMA LookupKeeps ==
    ASSUME IInv, NEW t \in Tasks, Lookup(t)
    PROVE  IInv'
<1>1. PICK pr : pr = task[t].pair
    OBVIOUS
<1>2. task[t] \in Task /\ task[t].pc = "lookup" /\ Active(t) /\ pr \in Pairs
    BY <1>1 DEF Lookup, IInv, TypeOK, HandsOK, Active
<1>3. TypeOK /\ UNCHANGED <<db, dev, hub>> /\ UNCHANGED <<alive, rows>>
    BY DEF Lookup, IInv, db
<1>4. CASE RowsOf(pr) # {} /\ Succeed
           /\ task' = [task EXCEPT ![t].pc = "removePeer", ![t].old = rows[First(pr)].key]
    <2>1. PICK i \in RowsOf(pr) : i = First(pr)
        BY <1>4, FirstIsRow
    <2>2. i \in Ids /\ rows[i] \in Row /\ rows[i].pair = pr
        BY <1>2, <1>3, RowsOfType, NoRowIsNoRow DEF TypeOK
    <2> DEFINE r == [task[t] EXCEPT !.pc = "removePeer", !.old = rows[i].key]
    <2>3. r \in Task /\ r.pair = pr /\ r.old = rows[i].key /\ r.pc = "removePeer"
        BY <1>1, <1>2, <2>2, NoRowIsNoRow DEF Task, TaskPC
    <2>4. task' = [task EXCEPT ![t] = r] /\ task'[t] = r
        BY <1>3, <1>4, <2>1 DEF TypeOK
    <2> HIDE DEF r
    <2>5. HandsOK(t)'
        BY <1>2, <2>2, <2>3, <2>4, NoRowIsNoRow DEF HandsOK, Joining
    <2>6. Clean(pr)' => \A j \in RowsOf(pr) : rows[j].key = rows[i].key
        BY <1>2, <1>3, <1>4, SucceedType, CleanShrinks DEF IInv, OneRow
    <2>7. FindsOK(t)'
        BY <1>3, <2>3, <2>4, <2>6 DEF FindsOK, RowsOf
    <2> QED BY <1>1, <1>2, <1>3, <1>4, <2>3, <2>4, <2>5, <2>7, SucceedType, LookKeeps
<1>5. CASE Goto(t, "delete") /\ ((RowsOf(pr) = {} /\ Succeed) \/ Fail(t))
    <2> DEFINE r == [task[t] EXCEPT !.pc = "delete"]
    <2>1. r \in Task /\ r.pair = pr /\ r.pc = "delete"
        BY <1>1, <1>2 DEF Task, TaskPC
    <2>2. task' = [task EXCEPT ![t] = r] /\ task'[t] = r
        BY <1>3, <1>5 DEF TypeOK, Goto
    <2> HIDE DEF r
    <2>3. HandsOK(t)' /\ FindsOK(t)'
        BY <1>2, <2>1, <2>2 DEF HandsOK, FindsOK, Joining
    <2>4. CASE RowsOf(pr) = {} /\ Succeed
        BY <1>1, <1>2, <1>3, <2>1, <2>2, <2>3, <2>4, SucceedType, LookKeeps
    <2>5. CASE Fail(t)
        BY <1>1, <1>2, <1>3, <2>1, <2>2, <2>3, <2>5, FailType, LookKeeps
    <2> QED BY <1>5, <2>4, <2>5
<1> QED BY <1>1, <1>4, <1>5 DEF Lookup

LEMMA AllocateKeeps ==
    ASSUME IInv, NEW t \in Tasks, Allocate(t)
    PROVE  IInv'
<1>1. PICK pr : pr = task[t].pair
    OBVIOUS
<1>2. /\ task[t] \in Task /\ task[t].pc = "allocate" /\ Active(t)
      /\ pr \in Pairs /\ task[t].key \in Keys /\ HolderOf[task[t].key] = pr[2]
    BY <1>1 DEF Allocate, IInv, TypeOK, HandsOK, Active, Joining
<1>3. TypeOK /\ UNCHANGED <<db, dev, hub>> /\ UNCHANGED <<alive, rows>> /\ Succeed
    BY DEF Allocate, IInv, db, Succeed
<1>4. CASE End(t)
    BY <1>2, <1>3, <1>4, SucceedType, EndKeeps
<1>5. CASE Free(pr[1]) # {} /\ task' = [task EXCEPT ![t].pc = "create", ![t].ip = Min(Free(pr[1]))]
    <2>1. PICK ip \in Addresses : ip = Min(Free(pr[1]))
        <3>1. Free(pr[1]) \subseteq Addresses /\ Addresses \subseteq Nat
            BY VlanAssumption DEF Free, Addresses
        <3> QED BY <1>5, <3>1, MinIsIn
    <2> DEFINE r == [task[t] EXCEPT !.pc = "create", !.ip = ip]
    <2>2. r \in Task /\ r.pair = pr /\ r.ip = ip /\ r.key = task[t].key /\ r.pc = "create"
        BY <1>1, <1>2 DEF Task, TaskPC
    <2>3. task' = [task EXCEPT ![t] = r] /\ task'[t] = r
        BY <1>3, <1>5, <2>1 DEF TypeOK
    <2> HIDE DEF r
    <2>4. HandsOK(t)'
        BY <1>2, <2>2, <2>3 DEF HandsOK, Joining
    <2>5. Clean(pr)' => RowsOf(pr) = {}
        BY <1>1, <1>2, <1>3, SucceedType, CleanShrinks DEF IInv, FindsOK
    <2>6. FindsOK(t)'
        BY <1>3, <2>2, <2>3, <2>5 DEF FindsOK, RowsOf
    <2> QED BY <1>1, <1>2, <1>3, <2>2, <2>3, <2>4, <2>6, SucceedType, LookKeeps
<1> QED BY <1>1, <1>4, <1>5 DEF Allocate

-----------------------------------------------------------------------------
(* Operations change the device. *)

\* What accounts for a key goes on doing so, unless it is the key a join had to
\* take off, or the row is about to go.
LEMMA AccountsStay ==
    ASSUME IInv, NEW t \in Tasks, Active(t), NEW r \in Task, task' = [task EXCEPT ![t] = r],
           NEW pr, task[t].pair = pr, r.pc = "idle" \/ r.pair = pr,
           UNCHANGED <<db, met>>,
           NEW q \in Pairs, NEW a, NEW k, Accounts(q, a, k),
           task[t].pc = "removeOld" => task[t].old # k,
           r.pc = "delete" /\ Clean(pr) => \A i \in RowsOf(pr) : rows[i].key # k
    PROVE  Accounts(q, a, k)'
<1>1. UNCHANGED <<alive, rows, met>>
    BY DEF db
<1>2. /\ task'[t] = r /\ \A s \in Tasks \ {t} : task'[s] = task[s]
      /\ q # pr => Accounts(q, a, k)'
    BY <1>1, OthersKept
<1>3. SUFFICES ASSUME q = pr, Clean(pr) PROVE Accounts(q, a, k)'
    BY <1>1, <1>2 DEF Accounts, Clean
<1>4. CASE \E s \in Tasks : task[s].pc = "removeOld" /\ task[s].pair = q /\ task[s].old = k
    <2>1. \E s \in Tasks : task'[s].pc = "removeOld" /\ task'[s].pair = q /\ task'[s].old = k
        BY <1>2, <1>4
    <2> QED BY <2>1 DEF Accounts
<1>5. CASE /\ \E i \in Ids : rows[i] = [pair |-> q, key |-> k, ip |-> a]
           /\ \A s \in Tasks : ~(task[s].pc = "delete" /\ task[s].pair = q)
    <2>1. r.pc # "delete"
        BY <1>3, <1>5 DEF RowsOf
    <2>2. \A s \in Tasks : ~(task'[s].pc = "delete" /\ task'[s].pair = q)
        BY <1>2, <1>5, <2>1
    <2> QED BY <1>1, <1>5, <2>2 DEF Accounts
<1> QED BY <1>3, <1>4, <1>5 DEF Accounts

LEMMA DeviceStepKeeps ==
    ASSUME IInv, NEW t \in Tasks, Active(t), NEW r \in Task, task' = [task EXCEPT ![t] = r],
           NEW pr, task[t].pair = pr, r.pc = "idle" \/ r.pair = pr, r.pc # "update",
           UNCHANGED <<db, wg, hub, faults, met>>, unsure' \subseteq Pairs,
           route' \in [Addresses -> Keys \cup {None}],
           HandsOK(t)', FindsOK(t)', DeviceOK'
    PROVE  IInv'
<1>1. TypeOK /\ UNCHANGED <<alive, rows, nextId, here, sleeping>>
    BY DEF IInv, db, hub
<1>2. /\ task' \in [Tasks -> Task] /\ task'[t] = r
      /\ \A s \in Tasks \ {t} : task'[s] = task[s]
      /\ OneTask'
      /\ \A s \in Tasks \ {t} : HandsOK(s)' /\ FindsOK(s)'
    BY <1>1, OthersKept
<1>3. TypeOK'
    BY <1>1, <1>2 DEF TypeOK
<1>4. OneRow' /\ \A i \in Ids : RowOK(i)'
    BY <1>1 DEF IInv, OneRow, RowOK, RowsOf, Clean
<1>5. SavesOwn'
    BY <1>1, <1>2 DEF IInv, SavesOwn
<1>6. \A s \in Tasks : HandsOK(s)' /\ FindsOK(s)'
    BY <1>2
<1> QED BY <1>2, <1>3, <1>4, <1>5, <1>6 DEF IInv

\* RemovePeer takes its key off and no other.
LEMMA RemovePeerType ==
    ASSUME TypeOK, NEW k, RemovePeer(k)
    PROVE  /\ route' \in [Addresses -> Keys \cup {None}]
           /\ wg => \A a \in Addresses : route'[a] # None => route'[a] = route[a] /\ route[a] # k
<1>1. CASE wg
    BY <1>1 DEF RemovePeer, WithoutKey, TypeOK
<1>2. CASE ~wg
    BY <1>2 DEF RemovePeer, TypeOK
<1> QED BY <1>1, <1>2

LEMMA RemoveOldKeeps ==
    ASSUME IInv, NEW t \in Tasks, RemoveOld(t)
    PROVE  IInv'
<1>1. PICK pr : pr = task[t].pair
    OBVIOUS
<1>2. TypeOK /\ UNCHANGED <<db, wg, hub, faults, met>> /\ unsure' \subseteq Pairs
      /\ UNCHANGED <<alive, rows>>
    BY DEF RemoveOld, Elsewhere, IInv, TypeOK, db
<1>3. /\ task[t] \in Task /\ task[t].pc = "removeOld" /\ Active(t) /\ pr \in Pairs
      /\ task[t].key \in Keys /\ HolderOf[task[t].key] = pr[2] /\ task[t].ip \in Addresses
    BY <1>1, <1>2 DEF RemoveOld, IInv, TypeOK, HandsOK, Active, Joining
<1> DEFINE r == [task[t] EXCEPT !.pc = "add"]
<1>4. r \in Task /\ r.pair = pr /\ r.pc = "add" /\ r.key = task[t].key /\ r.ip = task[t].ip
    BY <1>1, <1>3 DEF Task, TaskPC
<1>5. task' = [task EXCEPT ![t] = r] /\ task'[t] = r
    BY <1>2 DEF RemoveOld, Goto, TypeOK
<1> HIDE DEF r
<1>6. HandsOK(t)'
    BY <1>3, <1>4, <1>5 DEF HandsOK, Joining
<1>7. Clean(pr) => \E i \in Ids : rows[i] = [pair |-> pr, key |-> task[t].key, ip |-> task[t].ip]
    BY <1>1, <1>3 DEF IInv, FindsOK
<1>8. FindsOK(t)'
    BY <1>2, <1>4, <1>5, <1>7 DEF FindsOK, Clean
<1>9. /\ route' \in [Addresses -> Keys \cup {None}]
      /\ wg => \A a \in Addresses : route'[a] # None => route'[a] = route[a] /\ route[a] # task[t].old
    BY <1>2, RemovePeerType DEF RemoveOld
<1>10. DeviceOK'
    <2> SUFFICES ASSUME wg, NEW a \in Addresses, route'[a] # None
                 PROVE  \E q \in Pairs : Accounts(q, a, route[a])' /\ route'[a] = route[a]
        BY <1>2, <1>9 DEF DeviceOK
    <2>1. PICK k : k = route[a] /\ route'[a] = k /\ k # None /\ k # task[t].old
        BY <1>9
    <2>2. PICK q \in Pairs : Accounts(q, a, k)
        BY <2>1 DEF IInv, DeviceOK
    <2>3. Accounts(q, a, k)'
        BY <1>1, <1>2, <1>3, <1>4, <1>5, <2>1, <2>2, AccountsStay
    <2> QED BY <2>1, <2>3
<1> QED BY <1>1, <1>2, <1>3, <1>4, <1>5, <1>6, <1>8, <1>9, <1>10, DeviceStepKeeps

LEMMA RemoveFromDeviceKeeps ==
    ASSUME IInv, NEW t \in Tasks, RemoveFromDevice(t)
    PROVE  IInv'
<1>1. PICK pr : pr = task[t].pair
    OBVIOUS
<1>2. TypeOK /\ UNCHANGED <<db, wg, hub, faults, met>> /\ unsure' \subseteq Pairs
      /\ UNCHANGED <<alive, rows>>
    BY DEF RemoveFromDevice, Elsewhere, IInv, TypeOK, db
<1>3. task[t] \in Task /\ task[t].pc = "removePeer" /\ Active(t) /\ pr \in Pairs
    BY <1>1, <1>2 DEF RemoveFromDevice, IInv, TypeOK, HandsOK, Active
<1> DEFINE r == [task[t] EXCEPT !.pc = "delete"]
<1>4. r \in Task /\ r.pair = pr /\ r.pc = "delete"
    BY <1>1, <1>3 DEF Task, TaskPC
<1>5. task' = [task EXCEPT ![t] = r] /\ task'[t] = r
    BY <1>2 DEF RemoveFromDevice, Goto, TypeOK
<1> HIDE DEF r
<1>6. HandsOK(t)' /\ FindsOK(t)'
    BY <1>3, <1>4, <1>5 DEF HandsOK, FindsOK, Joining
<1>7. Clean(pr) => \A i \in RowsOf(pr) : rows[i].key = task[t].old
    BY <1>1, <1>3 DEF IInv, FindsOK
<1>8. /\ route' \in [Addresses -> Keys \cup {None}]
      /\ wg => \A a \in Addresses : route'[a] # None => route'[a] = route[a] /\ route[a] # task[t].old
    BY <1>2, RemovePeerType DEF RemoveFromDevice
<1>9. DeviceOK'
    <2> SUFFICES ASSUME wg, NEW a \in Addresses, route'[a] # None
                 PROVE  \E q \in Pairs : Accounts(q, a, route[a])' /\ route'[a] = route[a]
        BY <1>2, <1>8 DEF DeviceOK
    <2>1. PICK k : k = route[a] /\ route'[a] = k /\ k # None /\ k # task[t].old
        BY <1>8
    <2>2. PICK q \in Pairs : Accounts(q, a, k)
        BY <2>1 DEF IInv, DeviceOK
    <2>3. Clean(pr) => \A i \in RowsOf(pr) : rows[i].key # k
        BY <1>7, <2>1
    <2>4. Accounts(q, a, k)'
        BY <1>1, <1>2, <1>3, <1>4, <1>5, <2>2, <2>3, AccountsStay
    <2> QED BY <2>1, <2>4
<1> QED BY <1>1, <1>2, <1>3, <1>4, <1>5, <1>6, <1>8, <1>9, DeviceStepKeeps

LEMMA AddKeeps ==
    ASSUME IInv, NEW t \in Tasks, Add(t)
    PROVE  IInv'
<1>1. PICK pr : pr = task[t].pair
    OBVIOUS
<1>2. TypeOK /\ UNCHANGED <<db, wg, hub, faults, met>> /\ unsure' \subseteq Pairs
      /\ UNCHANGED <<alive, rows>>
    BY DEF Add, Elsewhere, IInv, TypeOK, db
<1>3. /\ task[t] \in Task /\ task[t].pc = "add" /\ Active(t) /\ pr \in Pairs
      /\ task[t].key \in Keys /\ HolderOf[task[t].key] = pr[2] /\ task[t].ip \in Addresses
    BY <1>1, <1>2 DEF Add, IInv, TypeOK, HandsOK, Active, Joining
<1>4. task' = [task EXCEPT ![t] = Idle] /\ task'[t] = Idle
    BY <1>2 DEF Add, End, TypeOK
<1>5. HandsOK(t)' /\ FindsOK(t)'
    BY <1>4, IdleIsTask DEF HandsOK, FindsOK, Active
<1>6. /\ route' \in [Addresses -> Keys \cup {None}]
      /\ wg => \A a \in Addresses :
                  route'[a] # None => \/ a = task[t].ip /\ route'[a] = task[t].key
                                      \/ route'[a] = route[a]
    <2>1. CASE wg
        <3>1. WithoutKey(task[t].key) \in [Addresses -> Keys \cup {None}]
            BY <1>2 DEF WithoutKey, TypeOK
        <3>2. route' = [WithoutKey(task[t].key) EXCEPT ![task[t].ip] = task[t].key]
            BY <2>1 DEF Add, AddPeer
        <3>3. \A a \in Addresses : WithoutKey(task[t].key)[a] \in {None, route[a]}
            BY DEF WithoutKey
        <3> QED BY <1>3, <3>1, <3>2, <3>3
    <2>2. CASE ~wg
        BY <1>2, <2>2 DEF Add, AddPeer, TypeOK
    <2> QED BY <2>1, <2>2
<1>7. Accounts(pr, task[t].ip, task[t].key) \/ ~wg
    <2>1. CASE Clean(pr)
        <3>1. \E i \in Ids : rows[i] = [pair |-> pr, key |-> task[t].key, ip |-> task[t].ip]
            BY <1>1, <1>3, <2>1 DEF IInv, FindsOK
        <3>2. \A s \in Tasks : ~(task[s].pc = "delete" /\ task[s].pair = pr)
            BY <1>1, <1>3, <2>1 DEF IInv, OneTask, Active
        <3> QED BY <1>3, <3>1, <3>2 DEF Accounts
    <2>2. CASE ~Clean(pr)
        BY <1>3, <2>2 DEF Accounts
    <2> QED BY <2>1, <2>2
<1>8. DeviceOK'
    <2> SUFFICES ASSUME wg, NEW a \in Addresses, route'[a] # None
                 PROVE  \E q \in Pairs : Accounts(q, a, route[a])'
        BY <1>2 DEF DeviceOK
    <2>1. PICK k : k = route'[a] /\ (k = route[a] \/ (a = task[t].ip /\ k = task[t].key))
        BY <1>6
    <2>2. PICK q \in Pairs : Accounts(q, a, k)
        BY <1>3, <1>7, <2>1 DEF IInv, DeviceOK
    <2>3. Accounts(q, a, k)'
        BY <1>1, <1>2, <1>3, <1>4, <2>2, IdleIsTask, AccountsStay
    <2> QED BY <2>1, <2>3
<1> QED BY <1>1, <1>2, <1>3, <1>4, <1>5, <1>6, <1>8, IdleIsTask, DeviceStepKeeps

-----------------------------------------------------------------------------
(* Operations change rows. *)

LEMMA UpdateKeeps ==
    ASSUME IInv, NEW t \in Tasks, Update(t)
    PROVE  IInv'
<1>1. PICK pr : pr = task[t].pair
    OBVIOUS
<1>2. TypeOK /\ UNCHANGED <<alive, nextId, dev, hub, faults, past>>
      /\ UNCHANGED <<wg, route, here, sleeping, met, unsure>>
    BY DEF Update, IInv, dev, hub, past
<1>3. /\ task[t] \in Task /\ task[t].pc = "update" /\ Active(t) /\ pr \in Pairs
      /\ task[t].key \in Keys /\ HolderOf[task[t].key] = pr[2]
      /\ task[t].ip \in Addresses /\ task[t].old \in Keys
    BY <1>1, <1>2 DEF Update, IInv, TypeOK, HandsOK, Active, Joining
<1>4. CASE End(t) /\ UNCHANGED rows
    BY <1>2, <1>3, <1>4, EndKeeps DEF db, TypeOK
<1>5. CASE /\ rows' = [rows EXCEPT ![task[t].id] =
                           [pair |-> task[t].pair, key |-> task[t].key, ip |-> task[t].ip]]
           /\ Goto(t, "removeOld")
    <2>1. PICK i \in Ids : i = task[t].id /\ i < nextId /\ (rows[i] = NoRow \/ rows[i].pair = pr)
        BY <1>1, <1>3 DEF IInv, SavesOwn
    <2>2. PICK row \in Row : row = [pair |-> pr, key |-> task[t].key, ip |-> task[t].ip]
        BY <1>3 DEF Row
    <2>3. rows' = [rows EXCEPT ![i] = row] /\ row.pair = pr /\ row.key = task[t].key /\ row # NoRow
        BY <1>1, <1>5, <2>1, <2>2, NoRowIsNoRow
    <2>4. rows' \in [Ids -> Row \cup {NoRow}] /\ rows'[i] = row /\ \A j \in Ids \ {i} : rows'[j] = rows[j]
        BY <1>2, <2>3 DEF TypeOK
    <2> DEFINE r == [task[t] EXCEPT !.pc = "removeOld"]
    <2>5. /\ r \in Task /\ r.pair = pr /\ r.pc = "removeOld" /\ r.old = task[t].old
          /\ r.key = task[t].key /\ r.ip = task[t].ip
        BY <1>1, <1>3 DEF Task, TaskPC
    <2>6. task' = [task EXCEPT ![t] = r]
        BY <1>2, <1>5 DEF Goto, TypeOK
    <2> HIDE DEF r
    <2>7. /\ task' \in [Tasks -> Task] /\ task'[t] = r
          /\ \A s \in Tasks \ {t} : task'[s] = task[s]
          /\ OneTask'
          /\ \A s \in Tasks \ {t} : HandsOK(s)' /\ FindsOK(s)'
          /\ \A q \in Pairs \ {pr} : RowsOf(q)' = RowsOf(q)
          /\ \A q \in Pairs \ {pr} : \A a, k : Accounts(q, a, k) => Accounts(q, a, k)'
        <3>1. \A j \in Ids : rows'[j] # rows[j] => rows[j].pair \in {None, pr} /\ rows'[j].pair \in {None, pr}
            BY <2>1, <2>3, <2>4 DEF NoRow
        <3> QED BY <1>1, <1>2, <1>3, <2>5, <2>6, <3>1, OthersKept
    <2>8. TypeOK'
        BY <1>2, <2>4, <2>7 DEF TypeOK
    <2>9. Clean(pr) => \A j \in RowsOf(pr) : j = i /\ rows[i].key = task[t].old
        <3>1. Clean(pr) => rows[i] = [pair |-> pr, key |-> task[t].old, ip |-> task[t].ip]
            BY <1>1, <1>3, <2>1 DEF IInv, FindsOK
        <3> QED BY <1>3, <3>1 DEF IInv, OneRow, RowsOf
    <2>10. OneRow'
        <3> SUFFICES ASSUME NEW q \in Pairs, Clean(q)'
                     PROVE  \A j, l \in RowsOf(q)' : j = l
            BY DEF OneRow
        <3>1. Clean(q)
            BY <1>2 DEF Clean
        <3>2. CASE q # pr
            BY <2>7, <3>1, <3>2 DEF IInv, OneRow
        <3>3. CASE q = pr
            BY <2>4, <2>9, <3>1, <3>3 DEF RowsOf
        <3> QED BY <3>2, <3>3
    <2>11. \A j \in Ids : RowOK(j)'
        BY <1>2, <1>3, <2>1, <2>2, <2>4 DEF IInv, RowOK
    <2>12. SavesOwn'
        BY <1>1, <1>2, <1>3, <2>1, <2>3, <2>4, <2>5, <2>7 DEF IInv, SavesOwn
    <2>13. HandsOK(t)' /\ FindsOK(t)'
        BY <1>3, <2>2, <2>4, <2>5, <2>7 DEF HandsOK, FindsOK, Joining
    <2>14. DeviceOK'
        <3>1. ASSUME NEW a, NEW k, Accounts(pr, a, k)
              PROVE  Accounts(pr, a, k)'
            <4>1. CASE ~Clean(pr)
                BY <1>2, <3>1, <4>1 DEF Accounts, Clean
            <4>2. CASE Clean(pr) /\ \E j \in Ids : rows[j] = [pair |-> pr, key |-> k, ip |-> a]
                <5>1. k = task[t].old
                    BY <2>9, <4>2 DEF RowsOf
                <5> QED BY <2>5, <2>7, <3>1, <5>1 DEF Accounts
            <4>3. CASE \E s \in Tasks : task[s].pc = "removeOld" /\ task[s].pair = pr /\ task[s].old = k
                <5>1. \E s \in Tasks : task'[s].pc = "removeOld" /\ task'[s].pair = pr /\ task'[s].old = k
                    BY <1>3, <2>7, <4>3
                <5> QED BY <3>1, <5>1 DEF Accounts
            <4> QED BY <3>1, <4>1, <4>2, <4>3 DEF Accounts
        <3> QED BY <1>2, <2>7, <3>1 DEF IInv, DeviceOK
    <2> QED BY <2>7, <2>8, <2>10, <2>11, <2>12, <2>13, <2>14 DEF IInv
<1> QED BY <1>4, <1>5 DEF Update

LEMMA CreateKeeps ==
    ASSUME IInv, NEW t \in Tasks, Create(t)
    PROVE  IInv'
<1>1. PICK pr : pr = task[t].pair
    OBVIOUS
<1>2. TypeOK /\ UNCHANGED <<alive, dev, hub, faults, past>>
      /\ UNCHANGED <<wg, route, here, sleeping, met, unsure>>
    BY DEF Create, IInv, dev, hub, past
<1>3. /\ task[t] \in Task /\ task[t].pc = "create" /\ Active(t) /\ pr \in Pairs
      /\ task[t].key \in Keys /\ HolderOf[task[t].key] = pr[2] /\ task[t].ip \in Addresses
    BY <1>1, <1>2 DEF Create, IInv, TypeOK, HandsOK, Active, Joining
<1>4. CASE End(t) /\ UNCHANGED <<rows, nextId>>
    BY <1>2, <1>3, <1>4, EndKeeps DEF db, TypeOK
<1>5. CASE /\ nextId <= MaxRows
           /\ rows' = [rows EXCEPT ![nextId] =
                           [pair |-> task[t].pair, key |-> task[t].key, ip |-> task[t].ip]]
           /\ nextId' = nextId + 1
           /\ Goto(t, "add")
    <2>1. PICK i \in Ids : i = nextId /\ rows[i] = NoRow
        <3>1. nextId \in Ids /\ ~(nextId < nextId)
            BY <1>2, <1>5, VlanAssumption DEF TypeOK, Ids
        <3> QED BY <3>1 DEF IInv, RowOK
    <2>2. PICK row \in Row : row = [pair |-> pr, key |-> task[t].key, ip |-> task[t].ip]
        BY <1>3 DEF Row
    <2>3. rows' = [rows EXCEPT ![i] = row] /\ row.pair = pr /\ row.key = task[t].key /\ row # NoRow
        BY <1>1, <1>5, <2>1, <2>2, NoRowIsNoRow
    <2>4. rows' \in [Ids -> Row \cup {NoRow}] /\ rows'[i] = row /\ \A j \in Ids \ {i} : rows'[j] = rows[j]
        BY <1>2, <2>3 DEF TypeOK
    <2> DEFINE r == [task[t] EXCEPT !.pc = "add"]
    <2>5. r \in Task /\ r.pair = pr /\ r.pc = "add" /\ r.key = task[t].key /\ r.ip = task[t].ip
        BY <1>1, <1>3 DEF Task, TaskPC
    <2>6. task' = [task EXCEPT ![t] = r]
        BY <1>2, <1>5 DEF Goto, TypeOK
    <2> HIDE DEF r
    <2>7. /\ task' \in [Tasks -> Task] /\ task'[t] = r
          /\ \A s \in Tasks \ {t} : task'[s] = task[s]
          /\ OneTask'
          /\ \A s \in Tasks \ {t} : HandsOK(s)' /\ FindsOK(s)'
          /\ \A q \in Pairs \ {pr} : RowsOf(q)' = RowsOf(q)
          /\ \A q \in Pairs \ {pr} : \A a, k : Accounts(q, a, k) => Accounts(q, a, k)'
        <3>1. \A j \in Ids : rows'[j] # rows[j] => rows[j].pair \in {None, pr} /\ rows'[j].pair \in {None, pr}
            BY <2>1, <2>3, <2>4 DEF NoRow
        <3> QED BY <1>1, <1>2, <1>3, <2>5, <2>6, <3>1, OthersKept
    <2>8. nextId \in Nat /\ nextId' \in 1..MaxRows + 1
        BY <1>2, <1>5, VlanAssumption DEF TypeOK
    <2>9. TypeOK'
        BY <1>2, <2>4, <2>7, <2>8 DEF TypeOK
    <2>10. Clean(pr) => RowsOf(pr) = {}
        BY <1>1, <1>3 DEF IInv, FindsOK
    <2>11. OneRow'
        <3> SUFFICES ASSUME NEW q \in Pairs, Clean(q)'
                     PROVE  \A j, l \in RowsOf(q)' : j = l
            BY DEF OneRow
        <3>1. Clean(q)
            BY <1>2 DEF Clean
        <3>2. CASE q # pr
            BY <2>7, <3>1, <3>2 DEF IInv, OneRow
        <3>3. CASE q = pr
            BY <2>4, <2>10, <3>1, <3>3 DEF RowsOf
        <3> QED BY <3>2, <3>3
    <2>12. \A j \in Ids : RowOK(j)'
        <3>1. \A j \in Ids : RowOK(j) /\ j \in Nat
            BY VlanAssumption DEF IInv, Ids
        <3> QED BY <1>3, <1>5, <2>1, <2>3, <2>4, <2>8, <3>1 DEF RowOK
    <2>13. SavesOwn'
        <3>1. SavesOwn /\ \A j \in Ids : j \in Nat
            BY VlanAssumption DEF IInv, Ids
        <3>2. \A s \in Tasks : task'[s].pc = "update" =>
                  /\ task'[s] = task[s] /\ task[s].id \in Ids \ {i} /\ task[s].id < nextId'
            BY <1>5, <2>1, <2>5, <2>7, <2>8, <3>1 DEF SavesOwn
        <3> QED BY <2>4, <3>1, <3>2 DEF SavesOwn
    <2>14. HandsOK(t)' /\ FindsOK(t)'
        BY <1>3, <2>2, <2>4, <2>5, <2>7 DEF HandsOK, FindsOK, Joining
    <2>15. DeviceOK'
        <3>1. ASSUME NEW a, NEW k, Accounts(pr, a, k)
              PROVE  Accounts(pr, a, k)'
            <4>1. CASE ~Clean(pr)
                BY <1>2, <3>1, <4>1 DEF Accounts, Clean
            <4>2. CASE Clean(pr)
                <5>1. PICK s \in Tasks : task[s].pc = "removeOld" /\ task[s].pair = pr /\ task[s].old = k
                    BY <2>10, <3>1, <4>2 DEF Accounts, RowsOf
                <5>2. task'[s] = task[s]
                    BY <1>3, <2>7, <5>1
                <5> QED BY <3>1, <5>1, <5>2 DEF Accounts
            <4> QED BY <4>1, <4>2
        <3> QED BY <1>2, <2>7, <3>1 DEF IInv, DeviceOK
    <2> QED BY <2>7, <2>9, <2>11, <2>12, <2>13, <2>14, <2>15 DEF IInv
<1> QED BY <1>4, <1>5 DEF Create

LEMMA DeleteRowsKeeps ==
    ASSUME IInv, NEW t \in Tasks, DeleteRows(t)
    PROVE  IInv'
<1>1. PICK pr : pr = task[t].pair
    OBVIOUS
<1>2. TypeOK /\ UNCHANGED <<alive, nextId, dev, hub>> /\ UNCHANGED <<wg, route, here, sleeping>>
    BY DEF DeleteRows, IInv, dev, hub
<1>3. task[t] \in Task /\ task[t].pc = "delete" /\ Active(t) /\ pr \in Pairs /\ None \notin Pairs
    BY <1>1, <1>2, NoRowIsNoRow DEF DeleteRows, IInv, TypeOK, HandsOK, Active, NoRow
<1>4. End(t) /\ task' = [task EXCEPT ![t] = Idle]
    BY DEF DeleteRows, End
<1>5. CASE Fail(t) /\ UNCHANGED rows
    BY <1>2, <1>3, <1>4, <1>5, FailType, EndKeeps DEF db
<1>6. CASE /\ rows' = [i \in Ids |-> IF rows[i].pair = task[t].pair THEN NoRow ELSE rows[i]]
           /\ Succeed
    <2>1. UNCHANGED <<met, unsure, faults>>
        BY <1>6 DEF Succeed, past
    <2>2. \A i \in Ids : rows'[i] = IF rows[i].pair = pr THEN NoRow ELSE rows[i]
        BY <1>1, <1>6
    <2>3. /\ task' \in [Tasks -> Task] /\ task'[t] = Idle
          /\ \A s \in Tasks \ {t} : task'[s] = task[s]
          /\ OneTask'
          /\ \A s \in Tasks : HandsOK(s)' /\ FindsOK(s)'
          /\ \A q \in Pairs \ {pr} : RowsOf(q)' = RowsOf(q)
          /\ \A q \in Pairs \ {pr} : \A a, k : Accounts(q, a, k) => Accounts(q, a, k)'
        <3>1. \A i \in Ids : rows'[i] # rows[i] => rows[i].pair \in {None, pr} /\ rows'[i].pair \in {None, pr}
            BY <2>2 DEF NoRow
        <3> QED BY <1>1, <1>2, <1>3, <1>4, <2>1, <3>1, IdleIsTask, OthersKept
    <2>4. TypeOK'
        BY <1>2, <1>6, <2>1, <2>3 DEF TypeOK
    <2>5. RowsOf(pr)' = {}
        BY <1>3, <2>2, NoRowIsNoRow DEF RowsOf
    <2>6. OneRow'
        BY <1>2, <2>1, <2>3, <2>5 DEF IInv, OneRow, Clean
    <2>7. \A i \in Ids : RowOK(i)'
        BY <1>2, <2>2 DEF IInv, RowOK
    <2>8. SavesOwn'
        BY <1>2, <2>2, <2>3, IdleIsTask DEF IInv, SavesOwn
    <2>9. DeviceOK'
        <3>1. ASSUME NEW a, NEW k, Accounts(pr, a, k)
              PROVE  Accounts(pr, a, k)'
            <4>1. CASE ~Clean(pr)
                BY <1>2, <2>1, <3>1, <4>1 DEF Accounts, Clean
            <4>2. CASE Clean(pr)
                <5>1. PICK s \in Tasks : task[s].pc = "removeOld" /\ task[s].pair = pr /\ task[s].old = k
                    BY <1>1, <1>3, <3>1, <4>2 DEF Accounts
                <5>2. task'[s] = task[s]
                    BY <1>3, <2>3, <5>1
                <5> QED BY <3>1, <5>1, <5>2 DEF Accounts
            <4> QED BY <4>1, <4>2
        <3> QED BY <1>2, <2>3, <3>1 DEF IInv, DeviceOK
    <2> QED BY <2>3, <2>4, <2>6, <2>7, <2>8, <2>9 DEF IInv
<1> QED BY <1>5, <1>6 DEF DeleteRows

-----------------------------------------------------------------------------
(* The room goes, the server starts again. *)

LEMMA DeleteRoomKeeps ==
    ASSUME IInv, NEW rm \in Rooms, DeleteRoom(rm)
    PROVE  IInv'
<1>1. TypeOK /\ UNCHANGED <<nextId, wg, route, here, sleeping, task, faults, met, unsure>>
    BY DEF DeleteRoom, IInv, dev, hub, past
<1>2. alive' = alive \ {rm}
    BY DEF DeleteRoom
<1>3. \A i \in Ids : \/ rows'[i] = rows[i]
                     \/ rows'[i] = NoRow /\ rows[i].pair[1] = rm
    BY DEF DeleteRoom
<1>4. \A q : Clean(q)' => Clean(q) /\ q[1] # rm
    BY <1>1, <1>2 DEF Clean
<1>5. ASSUME NEW q \in Pairs, Clean(q)'
      PROVE  /\ RowsOf(q)' = RowsOf(q)
             /\ \A i \in Ids : rows[i].pair = q => rows'[i] = rows[i]
    <2>1. \A i \in Ids : rows'[i].pair = q \/ rows[i].pair = q => rows'[i] = rows[i]
        BY <1>3, <1>4, <1>5, NoRowIsNoRow
    <2> QED BY <2>1 DEF RowsOf
<1>6. TypeOK'
    BY <1>1, <1>2 DEF TypeOK, DeleteRoom
<1>7. OneTask' /\ OneRow'
    BY <1>1, <1>4, <1>5 DEF IInv, OneTask, OneRow, Active
<1>8. \A i \in Ids : RowOK(i)'
    BY <1>1, <1>3 DEF IInv, RowOK
<1>9. SavesOwn'
    BY <1>1, <1>3 DEF IInv, SavesOwn
<1>10. ASSUME NEW t \in Tasks PROVE HandsOK(t)' /\ FindsOK(t)'
    <2>1. HandsOK(t)'
        BY <1>1 DEF IInv, HandsOK, Active
    <2>2. CASE ~(Active(t) /\ Clean(task[t].pair)')
        BY <1>1, <2>1, <2>2 DEF FindsOK, Active
    <2>3. CASE Active(t) /\ Clean(task[t].pair)'
        <3>1. PICK q \in Pairs : q = task[t].pair /\ Clean(q) /\ Clean(q)'
            BY <1>1, <1>4, <2>3 DEF IInv, HandsOK
        <3>2. FindsOK(t) /\ (task[t].pc = "update" => task[t].id \in Ids)
            BY DEF IInv, SavesOwn
        <3>3. /\ RowsOf(q)' = RowsOf(q)
              /\ \A i \in Ids : rows[i].pair = q => rows'[i] = rows[i]
            BY <1>5, <3>1
        <3>4. \A i \in RowsOf(q) : rows'[i] = rows[i]
            BY <3>3 DEF RowsOf
        <3>5. task[t].pc = "update" =>
                  rows'[task[t].id] = [pair |-> q, key |-> task[t].old, ip |-> task[t].ip]
            BY <2>3, <3>1, <3>2, <3>3 DEF FindsOK
        <3>6. task[t].pc \in {"removeOld", "add"} =>
                  \E i \in Ids : rows'[i] = [pair |-> q, key |-> task[t].key, ip |-> task[t].ip]
            BY <2>3, <3>1, <3>2, <3>3 DEF FindsOK
        <3>7. task[t].pc \in {"allocate", "create"} => RowsOf(q)' = {}
            BY <2>3, <3>1, <3>2, <3>3 DEF FindsOK
        <3>8. task[t].pc = "removePeer" => \A i \in RowsOf(q)' : rows'[i].key = task[t].old
            BY <2>3, <3>1, <3>2, <3>3, <3>4 DEF FindsOK
        <3>9. FindsOK(t)'
            BY ONLY <1>1, <3>1, <3>5, <3>6, <3>7, <3>8 DEF FindsOK, RowsOf
        <3> QED BY <2>1, <3>9
    <2> QED BY <2>2, <2>3
<1>11. DeviceOK'
    <2>1. ASSUME NEW q \in Pairs, NEW a, NEW k, Accounts(q, a, k)
          PROVE  Accounts(q, a, k)'
        <3>1. CASE ~Clean(q)'
            BY <2>1, <3>1 DEF Accounts
        <3>2. CASE Clean(q)'
            BY <1>1, <1>4, <1>5, <2>1, <3>2 DEF Accounts
        <3> QED BY <3>1, <3>2
    <2> QED BY <1>1, <2>1 DEF IInv, DeviceOK
<1> QED BY <1>6, <1>7, <1>8, <1>9, <1>10, <1>11 DEF IInv

LEMMA RestartKeeps == ASSUME IInv, Restart PROVE IInv'
<1>1. TypeOK /\ UNCHANGED <<alive, rows, nextId, met>>
    BY DEF Restart, IInv, db
<1>2. \A t \in Tasks : task'[t] = Idle
    BY DEF Restart
<1>3. route' \in [Addresses -> Keys \cup {None}] /\ (wg' => \A a \in Addresses : route'[a] = None)
    BY <1>1 DEF Restart, TypeOK
<1>4. TypeOK'
    <2>1. faults' \in 0..MaxFaults /\ sleeping' \in [Pairs -> 0..MaxSleepers]
        BY <1>1, VlanAssumption DEF Restart, TypeOK
    <2>2. task' \in [Tasks -> Task] /\ wg' \in BOOLEAN /\ here' \subseteq Pairs /\ unsure' \subseteq Pairs
        BY IdleIsTask DEF Restart
    <2> QED BY <1>1, <1>3, <2>1, <2>2 DEF TypeOK
<1>5. OneTask' /\ \A t \in Tasks : HandsOK(t)' /\ FindsOK(t)'
    BY <1>2, IdleIsTask DEF OneTask, HandsOK, FindsOK, Active
<1>6. SavesOwn'
    BY <1>2, IdleIsTask DEF SavesOwn
<1>7. OneRow' /\ \A i \in Ids : RowOK(i)'
    BY <1>1 DEF IInv, OneRow, RowOK, RowsOf, Clean
<1>8. DeviceOK'
    BY <1>3 DEF DeviceOK
<1> QED BY <1>4, <1>5, <1>6, <1>7, <1>8 DEF IInv

-----------------------------------------------------------------------------
LEMMA InitOK == Init => IInv
<1> SUFFICES ASSUME Init PROVE IInv
    OBVIOUS
<1>1. TypeOK
    <2>1. MaxRows \in Nat /\ MaxSleepers \in Nat /\ MaxFaults \in Nat
        BY VlanAssumption
    <2>2. nextId \in 1..MaxRows + 1 /\ sleeping \in [Pairs -> 0..MaxSleepers] /\ faults \in 0..MaxFaults
        BY <2>1 DEF Init
    <2> QED BY <2>2, IdleIsTask DEF Init, TypeOK
<1>2. \A t \in Tasks : task[t] = Idle
    BY DEF Init
<1>3. OneTask /\ SavesOwn /\ \A t \in Tasks : HandsOK(t) /\ FindsOK(t)
    BY <1>2, IdleIsTask DEF OneTask, SavesOwn, HandsOK, FindsOK, Active
<1>4. OneRow /\ \A i \in Ids : RowOK(i)
    BY NoRowIsNoRow DEF Init, OneRow, RowOK, RowsOf
<1>5. DeviceOK
    BY DEF Init, DeviceOK
<1> QED BY <1>1, <1>3, <1>4, <1>5 DEF IInv

LEMMA NextOK == IInv /\ [Next]_vars => IInv'
<1> SUFFICES ASSUME IInv, [Next]_vars PROVE IInv'
    OBVIOUS
<1>1. TypeOK /\ here \subseteq Pairs /\ sleeping \in [Pairs -> 0..MaxSleepers]
      /\ faults \in 0..MaxFaults /\ unsure \subseteq Pairs
    BY DEF IInv, TypeOK
<1>2. ASSUME NEW t \in Tasks, NEW pr \in Pairs, NEW k \in Keys, Join(t, pr, k) PROVE IInv'
    BY <1>1, <1>2, BeginKeeps DEF Join, hub
<1>3. ASSUME NEW t \in Tasks, NEW pr \in Pairs, Leave(t, pr) PROVE IInv'
    BY <1>1, <1>3, BeginKeeps DEF Leave, hub
<1>4. CASE \E t \in Tasks : Step(t)
    BY <1>4, FindKeeps, UpdateKeeps, RemoveOldKeeps, AllocateKeeps, CreateKeeps, AddKeeps,
       LookupKeeps, RemoveFromDeviceKeeps, DeleteRowsKeeps DEF Step
<1>5. ASSUME NEW pr \in Pairs, Enter(pr) \/ Exit(pr) PROVE IInv'
    BY <1>1, <1>5, QuietKeeps DEF Enter, Exit, past
<1>6. ASSUME NEW t \in Tasks, NEW pr \in Pairs, Wake(t, pr) PROVE IInv'
    <2>1. sleeping' \in [Pairs -> 0..MaxSleepers] /\ here' = here
        BY <1>1, <1>6, VlanAssumption DEF Wake
    <2>2. CASE Begin(t, pr, "lookup", None)
        BY <1>1, <1>6, <2>1, <2>2, BeginKeeps DEF Wake
    <2>3. CASE UNCHANGED <<task, past>>
        BY <1>1, <1>6, <2>1, <2>3, QuietKeeps DEF Wake, past
    <2> QED BY <1>6, <2>2, <2>3 DEF Wake
<1>7. ASSUME NEW u \in Users, Disconnect(u) PROVE IInv'
    <2> DEFINE mine == {pr \in here : pr[2] = u}
    <2>1. sleeping' = [pr \in Pairs |-> IF pr \in mine THEN sleeping[pr] + 1 ELSE sleeping[pr]]
          /\ (\A pr \in mine : sleeping[pr] < MaxSleepers)
        BY <1>7 DEF Disconnect
    <2> HIDE DEF mine
    <2>2. sleeping' \in [Pairs -> 0..MaxSleepers]
        BY <1>1, <2>1, VlanAssumption
    <2> QED BY <1>1, <1>7, <2>2, QuietKeeps DEF Disconnect, past
<1>8. CASE \E r \in Rooms : DeleteRoom(r)
    BY <1>8, DeleteRoomKeeps
<1>9. CASE Restart
    BY <1>9, RestartKeeps
<1>10. CASE UNCHANGED vars
    BY <1>1, <1>10, QuietKeeps DEF vars, db, dev, hub, past
<1> QED BY <1>2, <1>3, <1>4, <1>5, <1>6, <1>7, <1>8, <1>9, <1>10 DEF Next, WakeUp

\* The variables keep their types.  That an address is one there is rests on
\* AllocateIP taking the least of the free ones (coordinator.go:328-340).
THEOREM TypeCorrect == Spec => []TypeOK
<1>1. IInv => TypeOK
    BY DEF IInv
<1> QED BY InitOK, NextOK, <1>1, PTL DEF Spec

\* Nobody who has left keeps a way into the network, in whatever order joins, key
\* changes, leaves and clean-ups run (coordinator.go:306-348, 350-359).
THEOREM LeaversAreOff == Spec => []NoStrayPeer
<1>1. IInv => NoStrayPeer
    <2> SUFFICES ASSUME IInv, NEW a \in Addresses, wg, route[a] # None
                 PROVE  \/ \E i \in Ids : rows[i].key = route[a] /\ rows[i].ip = a
                        \/ \E pr \in Pairs :
                             /\ pr[2] = HolderOf[route[a]]
                             /\ Busy(pr) \/ <<pr, pr>> \in met \/ pr[1] \notin alive
        BY DEF NoStrayPeer
    <2>1. PICK pr \in Pairs : Accounts(pr, a, route[a])
        BY DEF IInv, DeviceOK
    <2>2. pr[2] = HolderOf[route[a]]
        BY <2>1 DEF Accounts
    <2>3. CASE ~Clean(pr)
        BY <2>2, <2>3 DEF Clean
    <2>4. CASE \E i \in Ids : rows[i] = [pair |-> pr, key |-> route[a], ip |-> a]
        BY <2>4
    <2>5. CASE \E t \in Tasks : task[t].pc = "removeOld" /\ task[t].pair = pr
        <3>1. Busy(pr)
            BY <2>5 DEF Busy, Active
        <3> QED BY <2>2, <3>1
    <2> QED BY <2>1, <2>3, <2>4, <2>5 DEF Accounts
<1> QED BY InitOK, NextOK, <1>1, PTL DEF Spec

-----------------------------------------------------------------------------
(* Addresses. *)

\* Operations that run at the same time in a room have met.
ActiveMet ==
    \A s, t \in Tasks :
        s # t /\ Active(s) /\ Active(t) /\ task[s].pair[1] = task[t].pair[1]
        => <<task[s].pair, task[t].pair>> \in met

\* An address belongs to the user of a row that has it, and to the user of an
\* operation that may yet write such a row or put it on the device.
Claiming     == {"update", "removeOld", "create", "add"}
Claims(pr, a) ==
    \/ \E i \in Ids : rows[i].pair = pr /\ rows[i].ip = a
    \/ \E t \in Tasks : task[t].pair = pr /\ task[t].ip = a /\ task[t].pc \in Claiming

ClaimsDiffer ==
    \A p, q \in Pairs, a \in Addresses :
        p # q /\ p[1] = q[1] /\ Claims(p, a) /\ Claims(q, a) => <<p, q>> \in met

AddressInv == IInv /\ ActiveMet /\ ClaimsDiffer

\* A step of an operation is one of its own and of no other.
LEMMA StepFrame ==
    ASSUME IInv, NEW t \in Tasks, Step(t)
    PROVE  /\ Active(t) /\ task[t].pair \in Pairs
           /\ \A s \in Tasks \ {t} : task'[s] = task[s]
           /\ task'[t].pc = "idle" \/ task'[t].pair = task[t].pair
           /\ met \subseteq met' /\ wg' = wg /\ alive' = alive
<1>1. TypeOK
    BY DEF IInv
<1>2. Active(t)
    BY DEF Step, Find, Update, RemoveOld, Allocate, Create, Add, Lookup, RemoveFromDevice,
           DeleteRows, Active
<1>3. task[t].pair \in Pairs /\ task[t] \in Task
    BY <1>1, <1>2 DEF IInv, HandsOK, TypeOK
<1>4. CASE Find(t) \/ Update(t) \/ RemoveOld(t)
    BY <1>1, <1>2, <1>3, <1>4
       DEF Find, Update, RemoveOld, End, Goto, Idle, TypeOK, Task, Succeed, Fail, past, db, dev
<1>5. CASE Allocate(t) \/ Create(t) \/ Add(t)
    BY <1>1, <1>2, <1>3, <1>5
       DEF Allocate, Create, Add, End, Goto, Idle, TypeOK, Task, past, db, dev
<1>6. CASE Lookup(t) \/ RemoveFromDevice(t) \/ DeleteRows(t)
    BY <1>1, <1>2, <1>3, <1>6
       DEF Lookup, RemoveFromDevice, DeleteRows, End, Goto, Idle, TypeOK, Task, Succeed, Fail,
           past, db, dev
<1> QED BY <1>4, <1>5, <1>6 DEF Step

\* The steps that are none of an operation in progress.
LEMMA OtherSteps ==
    ASSUME IInv, [Next]_vars, \A t \in Tasks : ~Step(t)
    PROVE  \/ \E t \in Tasks, pr \in Pairs, pc \in {"find", "lookup"}, k \in Keys \cup {None} :
                 Begin(t, pr, pc, k) /\ UNCHANGED <<alive, rows, wg, route>>
           \/ \E r \in Rooms : DeleteRoom(r)
           \/ Restart
           \/ UNCHANGED <<alive, rows, wg, route, task, met, unsure>>
<1>1. CASE \E t \in Tasks, pr \in Pairs, k \in Keys : Join(t, pr, k)
    BY <1>1 DEF Join, db, dev
<1>2. CASE \E t \in Tasks, pr \in Pairs : Leave(t, pr)
    BY <1>2 DEF Leave, db, dev
<1>3. CASE \E pr \in Pairs, t \in Tasks : Wake(t, pr)
    BY <1>3 DEF Wake, db, dev, past
<1>4. CASE \E pr \in Pairs : Enter(pr) \/ Exit(pr)
    BY <1>4 DEF Enter, Exit, db, dev, past
<1>5. CASE \E u \in Users : Disconnect(u)
    BY <1>5 DEF Disconnect, db, dev, past
<1>6. CASE UNCHANGED vars
    BY <1>6 DEF vars, db, dev, past
<1> QED BY <1>1, <1>2, <1>3, <1>4, <1>5, <1>6 DEF Next, WakeUp

\* What a step does to the rows.
LEMMA StepRows ==
    ASSUME IInv, NEW t \in Tasks, Step(t), NEW i \in Ids
    PROVE  \/ rows'[i] = rows[i]
           \/ rows'[i] = NoRow /\ rows[i].pair = task[t].pair
           \/ /\ task[t].pc \in {"update", "create"} /\ rows[i].pair \in {task[t].pair, None}
              /\ rows'[i] = [pair |-> task[t].pair, key |-> task[t].key, ip |-> task[t].ip]
<1>1. TypeOK /\ SavesOwn /\ \A j \in Ids : RowOK(j)
    BY DEF IInv
<1>2. CASE Find(t) \/ RemoveOld(t) \/ Allocate(t) \/ Add(t) \/ Lookup(t) \/ RemoveFromDevice(t)
    BY <1>2 DEF Find, RemoveOld, Allocate, Add, Lookup, RemoveFromDevice, db
<1>3. CASE Update(t)
    BY <1>1, <1>3 DEF Update, SavesOwn, TypeOK, NoRow
<1>4. CASE Create(t)
    <2>1. CASE UNCHANGED rows
        BY <2>1
    <2>2. CASE rows' = [rows EXCEPT ![nextId] =
                          [pair |-> task[t].pair, key |-> task[t].key, ip |-> task[t].ip]]
        <3>1. i = nextId => rows[i] = NoRow
            BY <1>1 DEF RowOK, Ids
        <3> QED BY <1>1, <1>4, <2>2, <3>1 DEF Create, TypeOK, NoRow
    <2> QED BY <1>4, <2>1, <2>2 DEF Create
<1>5. CASE DeleteRows(t)
    BY <1>5 DEF DeleteRows
<1> QED BY <1>2, <1>3, <1>4, <1>5 DEF Step

\* A new claim is AllocateIP's.
LEMMA StepClaims ==
    ASSUME IInv, NEW t \in Tasks, Step(t), NEW pr \in Pairs, NEW a \in Addresses, Claims(pr, a)'
    PROVE  \/ Claims(pr, a)
           \/ task[t].pair = pr /\ a \in Free(pr[1])
<1>1. PICK p : p = task[t].pair /\ p \in Pairs
    BY StepFrame
<1>2. /\ task \in [Tasks -> Task] /\ task[t] \in Task /\ None \notin Pairs
    BY NoRowIsNoRow DEF IInv, NoRow, TypeOK
<1>3. CASE \E i \in Ids : rows'[i].pair = pr /\ rows'[i].ip = a
    <2>1. PICK i \in Ids : rows'[i].pair = pr /\ rows'[i].ip = a
        BY <1>3
    <2>2. CASE rows'[i] = rows[i]
        BY <2>1, <2>2 DEF Claims
    <2>3. CASE /\ task[t].pc \in {"update", "create"}
               /\ rows'[i] = [pair |-> p, key |-> task[t].key, ip |-> task[t].ip]
        BY <1>1, <2>1, <2>3 DEF Claims, Claiming
    <2> QED BY <1>1, <2>1, <2>2, <2>3, StepRows, NoRowIsNoRow
<1>4. CASE \E s \in Tasks : task'[s].pair = pr /\ task'[s].ip = a /\ task'[s].pc \in Claiming
    <2>1. PICK s \in Tasks : task'[s].pair = pr /\ task'[s].ip = a /\ task'[s].pc \in Claiming
        BY <1>4
    <2>2. CASE s # t
        BY <2>1, <2>2, StepFrame DEF Claims
    <2>3. CASE s = t
        <3>1. p = pr
            BY <1>1, <2>1, <2>3, StepFrame DEF Claiming
        <3>2. CASE Find(t)
            <4>1. RowsOf(p) # {} /\ task'[t].ip = rows[First(p)].ip
                BY <1>1, <1>2, <2>1, <2>3, <3>2 DEF Find, Claiming, Task, Goto
            <4>2. First(p) \in Ids /\ rows[First(p)].pair = p
                BY <4>1, FirstIsRow, RowsOfType
            <4> QED BY <2>1, <2>3, <3>1, <4>1, <4>2 DEF Claims
        <3>3. CASE Allocate(t)
            <4>1. Free(p[1]) \in SUBSET Nat
                BY VlanAssumption DEF Free, Addresses
            <4>2. task'[t] = Idle \/ (Free(p[1]) # {} /\ task'[t].ip = Min(Free(p[1])))
                BY <1>1, <1>2, <3>3 DEF Allocate, End, Task
            <4> QED BY <2>1, <2>3, <3>1, <1>1, <4>1, <4>2, MinIsIn, IdleIsTask DEF Claiming
        <3>4. CASE Update(t) \/ RemoveOld(t) \/ Create(t)
            <4>1. task[t].pc \in Claiming /\ (task'[t].pc = "idle" \/ task'[t].ip = task[t].ip)
                BY <1>2, <3>4, IdleIsTask DEF Update, RemoveOld, Create, Claiming, Goto, End, Task
            <4> QED BY <1>1, <2>1, <2>3, <3>1, <4>1 DEF Claims, Claiming
        <3>5. CASE Add(t) \/ Lookup(t) \/ RemoveFromDevice(t) \/ DeleteRows(t)
            <4>1. task'[t].pc \notin Claiming
                BY <1>2, <3>5, IdleIsTask
                   DEF Add, Lookup, RemoveFromDevice, DeleteRows, Claiming, Goto, End, Task
            <4> QED BY <2>1, <2>3, <4>1
        <3> QED BY <3>2, <3>3, <3>4, <3>5 DEF Step
    <2> QED BY <2>2, <2>3
<1> QED BY <1>3, <1>4 DEF Claims

LEMMA StepAddresses ==
    ASSUME AddressInv, NEW t \in Tasks, Step(t)
    PROVE  ActiveMet' /\ ClaimsDiffer'
<1>1. IInv
    BY DEF AddressInv
<1>2. PICK o : o = task[t].pair /\ o \in Pairs /\ Active(t)
    BY <1>1, StepFrame
<1>3. \A s \in Tasks : Active(s)' => Active(s) /\ task'[s].pair = task[s].pair
    BY <1>1, StepFrame DEF Active
<1>4. ActiveMet'
    <2>1. met \subseteq met'
        BY <1>1, StepFrame
    <2>2. SUFFICES ASSUME NEW s \in Tasks, NEW u \in Tasks, s # u, Active(s)', Active(u)',
                          task'[s].pair[1] = task'[u].pair[1]
                   PROVE  <<task'[s].pair, task'[u].pair>> \in met'
        BY DEF ActiveMet
    <2>3. /\ Active(s) /\ task'[s].pair = task[s].pair
          /\ Active(u) /\ task'[u].pair = task[u].pair
        BY <1>3, <2>2
    <2>4. <<task[s].pair, task[u].pair>> \in met
        BY <2>2, <2>3 DEF AddressInv, ActiveMet
    <2> QED BY <2>1, <2>3, <2>4
<1>5. ASSUME NEW p \in Pairs, NEW a \in Addresses, p # o, p[1] = o[1], Claims(p, a), a \in Free(o[1])
      PROVE  <<p, o>> \in met /\ <<o, p>> \in met
    <2>1. CASE \E i \in Ids : rows[i].pair = p /\ rows[i].ip = a
        <3>1. PICK i \in Ids : rows[i].pair = p /\ rows[i].ip = a
            BY <2>1
        <3>2. rows[i] # NoRow
            BY <3>1, NoRowIsNoRow
        <3>3. a \in Used(o[1])
            BY <1>5, <3>1, <3>2 DEF Used
        <3> QED BY <1>5, <3>3 DEF Free
    <2>2. CASE \E s \in Tasks : task[s].pair = p /\ task[s].ip = a /\ task[s].pc \in Claiming
        <3>1. PICK s \in Tasks : task[s].pair = p /\ task[s].pc \in Claiming
            BY <2>2
        <3>2. Active(s) /\ s # t
            BY <1>2, <1>5, <3>1 DEF Active, Claiming
        <3> QED BY <1>2, <1>5, <3>1, <3>2 DEF AddressInv, ActiveMet
    <2> QED BY <1>5, <2>1, <2>2 DEF Claims
<1>6. ASSUME NEW p \in Pairs, NEW q \in Pairs, NEW a \in Addresses,
             p # q, p[1] = q[1], Claims(p, a)', Claims(q, a)'
      PROVE  <<p, q>> \in met'
    <2>1. CASE Claims(p, a) /\ Claims(q, a)
        BY <1>1, <1>6, <2>1, StepFrame DEF AddressInv, ClaimsDiffer
    <2>2. Claims(p, a) \/ (p = o /\ a \in Free(o[1]))
        BY <1>1, <1>2, <1>6, StepClaims
    <2>3. Claims(q, a) \/ (q = o /\ a \in Free(o[1]))
        BY <1>1, <1>2, <1>6, StepClaims
    <2> QED BY <1>1, <1>5, <1>6, <2>1, <2>2, <2>3, StepFrame
<1>7. ClaimsDiffer'
    BY <1>6 DEF ClaimsDiffer
<1> QED BY <1>4, <1>7

LEMMA BeginAddresses ==
    ASSUME AddressInv, NEW t \in Tasks, NEW pr \in Pairs, NEW pc \in {"find", "lookup"}, NEW k,
           Begin(t, pr, pc, k), UNCHANGED rows
    PROVE  ActiveMet' /\ ClaimsDiffer'
<1>1. task'[t].pc = pc /\ task'[t].pair = pr /\ ~Active(t)
    BY DEF Begin, Idle
<1>2. task \in [Tasks -> Task]
    BY DEF AddressInv, IInv, TypeOK
<1>3. ASSUME NEW s \in Tasks \ {t}
      PROVE  task'[s].pc = task[s].pc /\ task'[s].pair = task[s].pair /\ task'[s].ip = task[s].ip
    BY <1>2 DEF Begin, Task
<1>4. met \subseteq met'
    BY DEF Begin
<1>5. \A s \in Tasks : Active(s) /\ task[s].pair[1] = pr[1] =>
          <<pr, task[s].pair>> \in met' /\ <<task[s].pair, pr>> \in met'
    BY DEF Begin
<1>6. ActiveMet'
    <2>1. SUFFICES ASSUME NEW s \in Tasks, NEW u \in Tasks, s # u, Active(s)', Active(u)',
                          task'[s].pair[1] = task'[u].pair[1]
                   PROVE  <<task'[s].pair, task'[u].pair>> \in met'
        BY DEF ActiveMet
    <2>2. CASE s = t
        BY <1>1, <1>3, <1>5, <2>1, <2>2 DEF Active
    <2>3. CASE u = t
        BY <1>1, <1>3, <1>5, <2>1, <2>3 DEF Active
    <2>4. CASE s # t /\ u # t
        BY <1>3, <1>4, <2>1, <2>4 DEF AddressInv, ActiveMet, Active
    <2> QED BY <2>2, <2>3, <2>4
<1>7. \A q, a : Claims(q, a)' => Claims(q, a)
    BY <1>1, <1>3 DEF Claims, Claiming
<1>8. ClaimsDiffer'
    BY <1>4, <1>7 DEF AddressInv, ClaimsDiffer
<1> QED BY <1>6, <1>8

LEMMA AddressNext == AddressInv /\ [Next]_vars => AddressInv'
<1> SUFFICES ASSUME AddressInv, [Next]_vars PROVE ActiveMet' /\ ClaimsDiffer'
    BY NextOK DEF AddressInv
<1>1. IInv
    BY DEF AddressInv
<1>2. CASE \E t \in Tasks : Step(t)
    BY <1>2, StepAddresses
<1>3. CASE \E t \in Tasks, pr \in Pairs, pc \in {"find", "lookup"}, k \in Keys \cup {None} :
               Begin(t, pr, pc, k) /\ UNCHANGED <<alive, rows, wg, route>>
    BY <1>3, BeginAddresses
<1>4. CASE \E r \in Rooms : DeleteRoom(r)
    <2>1. UNCHANGED <<task, met>> /\ \A i \in Ids : rows'[i] \in {rows[i], NoRow}
        BY <1>4 DEF DeleteRoom, past
    <2>2. \A q \in Pairs : \A a : Claims(q, a)' => Claims(q, a)
        BY <2>1, NoRowIsNoRow DEF Claims
    <2> QED BY <2>1, <2>2 DEF AddressInv, ActiveMet, ClaimsDiffer, Active
<1>5. CASE Restart
    <2>1. UNCHANGED <<rows, met>> /\ \A t \in Tasks : task'[t].pc = "idle"
        BY <1>5, IdleIsTask DEF Restart, db
    <2>2. \A q \in Pairs : \A a : Claims(q, a)' => Claims(q, a)
        BY <2>1 DEF Claims, Claiming
    <2> QED BY <2>1, <2>2 DEF AddressInv, ActiveMet, ClaimsDiffer, Active
<1>6. CASE UNCHANGED <<alive, rows, wg, route, task, met, unsure>>
    BY <1>6 DEF AddressInv, ActiveMet, ClaimsDiffer, Claims, Active
<1> QED BY <1>1, <1>2, <1>3, <1>4, <1>5, <1>6, OtherSteps

LEMMA AddressInit == Init => AddressInv
<1> SUFFICES ASSUME Init PROVE ActiveMet /\ ClaimsDiffer
    BY InitOK DEF AddressInv
<1>1. (\A t \in Tasks : task[t].pc = "idle") /\ \A i \in Ids : rows[i] = NoRow
    BY IdleIsTask DEF Init
<1>2. \A q \in Pairs : \A a : ~Claims(q, a)
    BY <1>1, NoRowIsNoRow DEF Claims, Claiming
<1> QED BY <1>1, <1>2 DEF ActiveMet, ClaimsDiffer, Active

\* Only members whose operations have met share an address: AllocateIP counts
\* every row of the room, and what it cannot see is an operation that has yet to
\* write its own (coordinator.go:260-304, 328-340).
THEOREM AddressesApart == Spec => []AddressesDiffer
<1>1. AddressInv => AddressesDiffer
    <2> SUFFICES ASSUME AddressInv, NEW i \in Ids, NEW j \in Ids,
                        rows[i] # NoRow, rows[j] # NoRow,
                        rows[i].pair[1] = rows[j].pair[1], rows[i].pair[2] # rows[j].pair[2],
                        rows[i].ip = rows[j].ip
                 PROVE  <<rows[i].pair, rows[j].pair>> \in met
        BY DEF AddressesDiffer
    <2>1. rows[i] \in Row /\ rows[j] \in Row
        BY DEF AddressInv, IInv, TypeOK
    <2>2. PICK p \in Pairs, q \in Pairs, a \in Addresses :
              p = rows[i].pair /\ q = rows[j].pair /\ a = rows[i].ip /\ p # q
        BY <2>1, NoRowIsNoRow
    <2>3. Claims(p, a) /\ Claims(q, a)
        BY <2>2 DEF Claims
    <2> QED BY <2>2, <2>3 DEF AddressInv, ClaimsDiffer
<1> QED BY AddressInit, AddressNext, <1>1, PTL DEF Spec
-----------------------------------------------------------------------------
(* Routes. *)

\* An operation is alone while no other has run for its user in its room.
Alone(t) ==
    Active(t) =>
    IF task[t].alone THEN \A s \in Tasks \ {t} : Active(s) => task[s].pair # task[t].pair
    ELSE task[t].pair \in unsure

\* The key an operation takes off the device is its user's.
OldOwn(t) ==
    task[t].pc \in {"update", "removeOld", "removePeer"} => HolderOf[task[t].old] = task[t].pair[2]

\* Unless the room is deleted meanwhile, the first row is the one that an
\* operation that is alone has found or written.
AloneFinds(t) ==
    Active(t) /\ task[t].alone /\ RowsOf(task[t].pair) # {} =>
    /\ task[t].pc = "update" => First(task[t].pair) = task[t].id
    /\ task[t].pc \in {"removeOld", "add"} =>
          /\ rows[First(task[t].pair)].key = task[t].key
          /\ rows[First(task[t].pair)].ip = task[t].ip
    /\ task[t].pc \notin {"allocate", "create"}

\* What RegisteredIsRouted says of a user while no operation of the user has
\* changed only one of the database and the device.
ChangingPC   == {"removeOld", "add", "delete"}
Changing(pr) == \E t \in Tasks : task[t].pair = pr /\ task[t].pc \in ChangingPC
Reached(pr)  ==
    \/ route[rows[First(pr)].ip] = rows[First(pr)].key
    \/ \E other \in Pairs \ {pr} : other[1] = pr[1] /\ <<other, pr>> \in met
Routed(pr)   == wg /\ RowsOf(pr) # {} /\ pr \notin unsure /\ ~Changing(pr) => Reached(pr)

RouteInv ==
    /\ AddressInv
    /\ \A t \in Tasks : Alone(t) /\ OldOwn(t) /\ AloneFinds(t)
    /\ \A pr \in Pairs : Routed(pr)

LEMMA FirstOfOne ==
    ASSUME NEW pr, NEW i \in Nat, RowsOf(pr) = {i}
    PROVE  First(pr) = i
BY FirstIsRow

\* Only an undisturbed join makes a user sure again.
LEMMA StepUnsure ==
    ASSUME IInv, NEW t \in Tasks, Step(t), NEW q \in unsure, q \notin unsure'
    PROVE  Add(t) /\ task[t].alone /\ q = task[t].pair
<1>1. CASE Add(t)
    BY <1>1 DEF Add
<1>2. CASE Find(t) \/ Update(t) \/ RemoveOld(t) \/ Allocate(t)
    BY <1>2 DEF Find, Update, RemoveOld, Allocate, Succeed, Fail, past
<1>3. CASE Create(t) \/ Lookup(t) \/ RemoveFromDevice(t) \/ DeleteRows(t)
    BY <1>3 DEF Create, Lookup, RemoveFromDevice, DeleteRows, Succeed, Fail, past
<1> QED BY <1>1, <1>2, <1>3 DEF Step

\* The rows of the others stay.
LEMMA StepOtherRows ==
    ASSUME IInv, NEW t \in Tasks, Step(t), NEW pr \in Pairs, pr # task[t].pair
    PROVE  /\ RowsOf(pr)' = RowsOf(pr)
           /\ \A i \in RowsOf(pr) : rows'[i] = rows[i]
           /\ RowsOf(pr) # {} => First(pr)' = First(pr) /\ rows'[First(pr)] = rows[First(pr)]
<1>1. ASSUME NEW i \in Ids, rows'[i].pair = pr \/ rows[i].pair = pr
      PROVE  rows'[i] = rows[i]
    <2>1. pr # None /\ NoRow.pair = None
        BY NoRowIsNoRow DEF NoRow
    <2>2. CASE rows'[i] = NoRow /\ rows[i].pair = task[t].pair
        BY <1>1, <2>1, <2>2
    <2>3. CASE /\ rows[i].pair \in {task[t].pair, None}
               /\ rows'[i] = [pair |-> task[t].pair, key |-> task[t].key, ip |-> task[t].ip]
        BY <1>1, <2>1, <2>3
    <2> QED BY <2>2, <2>3, StepRows
<1>2. RowsOf(pr)' = RowsOf(pr) /\ \A i \in RowsOf(pr) : rows'[i] = rows[i]
    BY <1>1 DEF RowsOf
<1>3. First(pr)' = First(pr)
    BY <1>2 DEF First
<1> QED BY <1>2, <1>3, FirstIsRow

\* The other operations stay as alone as they were.
LEMMA StepOthersAlone ==
    ASSUME RouteInv, NEW t \in Tasks, Step(t), NEW s \in Tasks \ {t}
    PROVE  Alone(s)' /\ OldOwn(s)' /\ AloneFinds(s)'
<1>1. IInv /\ Alone(s) /\ Alone(t) /\ OldOwn(s) /\ AloneFinds(s)
    BY DEF RouteInv, AddressInv
<1>2. /\ task'[s] = task[s] /\ Active(t)
      /\ \A u \in Tasks : Active(u)' => Active(u) /\ task'[u].pair = task[u].pair
    BY <1>1, StepFrame DEF Active
<1>3. Alone(s)'
    <2>1. CASE task[s].alone
        BY <1>1, <1>2, <2>1 DEF Alone, Active
    <2>2. CASE ~task[s].alone /\ Active(s)
        <3>1. task[s].pair \in unsure
            BY <1>1, <2>2 DEF Alone
        <3>2. ~(task[t].alone /\ task[s].pair = task[t].pair)
            BY <1>1, <1>2, <2>2 DEF Alone
        <3>3. task[s].pair \in unsure'
            BY <1>1, <3>1, <3>2, StepUnsure
        <3> QED BY <1>2, <2>2, <3>3 DEF Alone
    <2> QED BY <1>2, <2>1, <2>2 DEF Alone, Active
<1>4. OldOwn(s)'
    BY <1>1, <1>2 DEF OldOwn
<1>5. AloneFinds(s)'
    <2>1. CASE ~(Active(s) /\ task[s].alone)
        BY <1>2, <2>1 DEF AloneFinds, Active
    <2>2. CASE Active(s) /\ task[s].alone
        <3>1. PICK q \in Pairs : q = task[s].pair /\ q # task[t].pair
            BY <1>1, <1>2, <2>2 DEF Alone, IInv, HandsOK
        <3>2. RowsOf(q)' = RowsOf(q)
              /\ (RowsOf(q) # {} => First(q)' = First(q) /\ rows'[First(q)] = rows[First(q)])
            BY <1>1, <3>1, StepOtherRows
        <3>3. RowsOf(task[s].pair)' = RowsOf(q)' /\ First(task[s].pair)' = First(q)'
            BY <1>2, <3>1 DEF First, RowsOf
        <3> QED BY <1>1, <1>2, <3>1, <3>2, <3>3 DEF AloneFinds, Active
    <2> QED BY <2>1, <2>2
<1> QED BY <1>3, <1>4, <1>5

\* What a join that goes on has found.
LEMMA StepFind ==
    ASSUME RouteInv, NEW t \in Tasks, Find(t), NEW o \in Pairs, o = task[t].pair
    PROVE  /\ task'[t].pair = o /\ task'[t].key = task[t].key
           /\ \/ /\ RowsOf(o) # {} /\ Succeed /\ task'[t].alone = task[t].alone
                 /\ task'[t].pc = IF rows[First(o)].key # task[t].key THEN "update" ELSE "add"
                 /\ task'[t].id = First(o) /\ task'[t].old = rows[First(o)].key
                 /\ task'[t].ip = rows[First(o)].ip
              \/ /\ RowsOf(o) = {} /\ Succeed /\ task'[t].pc = "allocate"
                 /\ task'[t].alone = task[t].alone
              \/ Fail(t) /\ task'[t].pc = "allocate" /\ task'[t].alone = FALSE
<1>1. task \in [Tasks -> Task] /\ task[t] \in Task
    BY DEF RouteInv, AddressInv, IInv, TypeOK
<1> QED BY <1>1 DEF Find, Goto, Task

\* The row a join has written is its user's first.
LEMMA StepWrites ==
    ASSUME RouteInv, NEW t \in Tasks, task[t].alone, NEW i \in Ids, NEW o \in Pairs, o = task[t].pair,
           rows' = [rows EXCEPT ![i] = [pair |-> o, key |-> task[t].key, ip |-> task[t].ip]],
           RowsOf(o) # {} => First(o) = i
    PROVE  First(o)' = i /\ rows'[First(o)'].key = task[t].key /\ rows'[First(o)'].ip = task[t].ip
<1>1. rows'[i] = [pair |-> o, key |-> task[t].key, ip |-> task[t].ip]
      /\ \A j \in Ids \ {i} : rows'[j] = rows[j]
    BY DEF RouteInv, AddressInv, IInv, TypeOK
<1>2. RowsOf(o)' = RowsOf(o) \cup {i}
    BY <1>1 DEF RowsOf
<1>3. CASE RowsOf(o) = {}
    <2>1. RowsOf(o)' = {i} /\ i \in Nat
        BY <1>2, <1>3 DEF Ids
    <2>2. Min({i}) = i
        BY <2>1, MinIsIn
    <2> QED BY <1>1, <2>1, <2>2 DEF First
<1>4. CASE RowsOf(o) # {}
    <2>1. RowsOf(o)' = RowsOf(o)
        BY <1>2, <1>4, FirstIsRow
    <2> QED BY <1>1, <1>4, <2>1 DEF First
<1> QED BY <1>3, <1>4

LEMMA StepOwnAlone ==
    ASSUME RouteInv, NEW t \in Tasks, Step(t)
    PROVE  Alone(t)' /\ OldOwn(t)' /\ AloneFinds(t)'
<1>1. /\ IInv /\ Alone(t) /\ OldOwn(t) /\ AloneFinds(t)
      /\ task \in [Tasks -> Task] /\ task[t] \in Task
      /\ \A i \in Ids : RowOK(i)
    BY DEF RouteInv, AddressInv, IInv, TypeOK
<1>2. PICK o \in Pairs : o = task[t].pair
    BY <1>1, StepFrame
<1>3. RowsOf(o) # {} => /\ First(o) \in Ids /\ rows[First(o)].pair = o
                        /\ HolderOf[rows[First(o)].key] = o[2]
    BY <1>1, FirstIsRow, RowsOfType, NoRowIsNoRow DEF RowOK
<1>4. Active(t) /\ \A s \in Tasks \ {t} : task'[s] = task[s]
    BY <1>1, StepFrame
<1>5. SUFFICES ASSUME Active(t)', task'[t].pair = o PROVE Alone(t)' /\ OldOwn(t)' /\ AloneFinds(t)'
    BY <1>1, <1>2, StepFrame DEF Active, Alone, OldOwn, AloneFinds
<1>6. ASSUME task'[t].alone = task[t].alone, ~Add(t)
      PROVE  Alone(t)'
    BY <1>1, <1>2, <1>4, <1>5, <1>6, StepUnsure DEF Alone, Active
<1>7. ASSUME rows' = rows
      PROVE  RowsOf(o)' = RowsOf(o) /\ First(o)' = First(o)
             /\ RowsOf(task[t].pair)' = RowsOf(o) /\ First(task[t].pair)' = First(o)
    BY <1>2, <1>5, <1>7 DEF RowsOf, First
<1>8. CASE Find(t)
    <2>1. rows' = rows /\ ~Add(t)
        BY <1>8 DEF Find, Add, db
    <2>2. CASE /\ RowsOf(o) # {} /\ task'[t].alone = task[t].alone
               /\ task'[t].pc = IF rows[First(o)].key # task[t].key THEN "update" ELSE "add"
               /\ task'[t].id = First(o) /\ task'[t].old = rows[First(o)].key
               /\ task'[t].ip = rows[First(o)].ip /\ task'[t].key = task[t].key
        <3>1. OldOwn(t)'
            BY <1>3, <1>5, <2>2 DEF OldOwn
        <3>2. AloneFinds(t)'
            BY <1>5, <1>7, <2>1, <2>2 DEF AloneFinds
        <3> QED BY <1>6, <2>1, <2>2, <3>1, <3>2
    <2>3. CASE RowsOf(o) = {} /\ task'[t].pc = "allocate" /\ task'[t].alone = task[t].alone
        <3>1. OldOwn(t)' /\ AloneFinds(t)'
            BY <1>5, <1>7, <2>1, <2>3 DEF OldOwn, AloneFinds
        <3> QED BY <1>6, <2>1, <2>3, <3>1
    <2>4. CASE Fail(t) /\ task'[t].pc = "allocate" /\ task'[t].alone = FALSE
        <3>1. o \in unsure'
            BY <1>2, <2>4 DEF Fail
        <3> QED BY <1>5, <2>4, <3>1 DEF Alone, OldOwn, AloneFinds
    <2> QED BY <1>2, <1>8, <2>2, <2>3, <2>4, StepFind
<1>9. CASE Update(t)
    <2>1. /\ rows' = [rows EXCEPT ![task[t].id] = [pair |-> o, key |-> task[t].key, ip |-> task[t].ip]]
          /\ task' = [task EXCEPT ![t].pc = "removeOld"]
          /\ task[t].pc = "update" /\ task[t].id \in Ids /\ ~Add(t)
        BY <1>1, <1>2, <1>5, <1>9, IdleIsTask
           DEF Update, Add, Goto, End, Active, IInv, SavesOwn
    <2>2. /\ task'[t].pc = "removeOld" /\ task'[t].alone = task[t].alone /\ task'[t].old = task[t].old
          /\ task'[t].key = task[t].key /\ task'[t].ip = task[t].ip
        BY <1>1, <2>1 DEF Task
    <2>3. OldOwn(t)'
        BY <1>1, <1>2, <1>5, <2>1, <2>2 DEF OldOwn
    <2>4. task[t].alone => rows'[First(o)'].key = task[t].key /\ rows'[First(o)'].ip = task[t].ip
        <3>1. task[t].alone /\ RowsOf(o) # {} => First(o) = task[t].id
            BY <1>1, <1>2, <1>4, <2>1 DEF AloneFinds
        <3> QED BY <1>2, <2>1, <3>1, StepWrites
    <2>5. First(task[t].pair)' = First(o)'
        BY <1>5 DEF First, RowsOf
    <2>6. AloneFinds(t)'
        BY <1>5, <2>2, <2>4, <2>5 DEF AloneFinds
    <2> QED BY <1>6, <2>1, <2>2, <2>3, <2>6
<1>10. CASE RemoveOld(t)
    <2>1. /\ rows' = rows /\ task[t].pc = "removeOld" /\ ~Add(t)
          /\ task'[t].pc = "add" /\ task'[t].alone = task[t].alone
          /\ task'[t].key = task[t].key /\ task'[t].ip = task[t].ip
        BY <1>1, <1>10 DEF RemoveOld, Add, Goto, Task, db
    <2>2. AloneFinds(t)'
        BY <1>1, <1>2, <1>4, <1>5, <1>7, <2>1 DEF AloneFinds
    <2>3. OldOwn(t)'
        BY <2>1 DEF OldOwn
    <2> QED BY <1>6, <2>1, <2>2, <2>3
<1>11. CASE Allocate(t)
    <2>1. /\ rows' = rows /\ task[t].pc = "allocate" /\ ~Add(t)
          /\ task'[t].pc = "create" /\ task'[t].alone = task[t].alone
        BY <1>1, <1>5, <1>11, IdleIsTask DEF Allocate, Add, End, Active, Task, db
    <2>2. AloneFinds(t)'
        BY <1>1, <1>2, <1>4, <1>5, <1>7, <2>1 DEF AloneFinds
    <2>3. OldOwn(t)'
        BY <2>1 DEF OldOwn
    <2> QED BY <1>6, <2>1, <2>2, <2>3
<1>12. CASE Create(t)
    <2>1. /\ rows' = [rows EXCEPT ![nextId] = [pair |-> o, key |-> task[t].key, ip |-> task[t].ip]]
          /\ task' = [task EXCEPT ![t].pc = "add"]
          /\ task[t].pc = "create" /\ nextId <= MaxRows /\ ~Add(t)
        BY <1>1, <1>2, <1>5, <1>12, IdleIsTask DEF Create, Add, Goto, End, Active
    <2>2. nextId \in Ids
        BY <2>1, VlanAssumption DEF Ids, RouteInv, AddressInv, IInv, TypeOK
    <2>3. /\ task'[t].pc = "add" /\ task'[t].alone = task[t].alone
          /\ task'[t].key = task[t].key /\ task'[t].ip = task[t].ip
        BY <1>1, <2>1 DEF Task
    <2>4. task[t].alone => rows'[First(o)'].key = task[t].key /\ rows'[First(o)'].ip = task[t].ip
        <3>1. task[t].alone => RowsOf(o) = {}
            BY <1>1, <1>2, <1>4, <2>1 DEF AloneFinds
        <3> QED BY <1>2, <2>1, <2>2, <3>1, StepWrites
    <2>5. First(task[t].pair)' = First(o)'
        BY <1>5 DEF First, RowsOf
    <2>6. AloneFinds(t)'
        BY <1>5, <2>3, <2>4, <2>5 DEF AloneFinds
    <2>7. OldOwn(t)'
        BY <2>3 DEF OldOwn
    <2> QED BY <1>6, <2>1, <2>3, <2>6, <2>7
<1>13. CASE Add(t) \/ DeleteRows(t)
    BY <1>1, <1>5, <1>13, IdleIsTask DEF Add, DeleteRows, End, Active
<1>14. CASE Lookup(t)
    <2>1. ~Add(t) /\ task'[t].alone = task[t].alone
          /\ \/ task'[t].pc = "removePeer" /\ RowsOf(o) # {} /\ task'[t].old = rows[First(o)].key
             \/ task'[t].pc = "delete"
        BY <1>1, <1>2, <1>14 DEF Lookup, Add, Goto, Task
    <2>2. OldOwn(t)'
        BY <1>3, <1>5, <2>1 DEF OldOwn
    <2>3. AloneFinds(t)'
        BY <2>1 DEF AloneFinds
    <2> QED BY <1>6, <2>1, <2>2, <2>3
<1>15. CASE RemoveFromDevice(t)
    <2>1. ~Add(t) /\ task'[t].alone = task[t].alone /\ task'[t].pc = "delete"
        BY <1>1, <1>15 DEF RemoveFromDevice, Add, Goto, Task
    <2>2. OldOwn(t)' /\ AloneFinds(t)'
        BY <2>1 DEF OldOwn, AloneFinds
    <2> QED BY <1>6, <2>1, <2>2
<1> QED BY <1>8, <1>9, <1>10, <1>11, <1>12, <1>13, <1>14, <1>15 DEF Step

\* A peer on the device stays there while others' operations go on, or loses its
\* address to a member it has met.
LEMMA StepOthersReached ==
    ASSUME RouteInv, NEW t \in Tasks, Step(t), wg,
           NEW pr \in Pairs, pr # task[t].pair, pr \notin unsure', RowsOf(pr) # {}, Reached(pr)
    PROVE  Reached(pr)'
<1>1. /\ IInv /\ OldOwn(t) /\ HandsOK(t) /\ ClaimsDiffer /\ TypeOK
      /\ \A i \in Ids : RowOK(i)
    BY DEF RouteInv, AddressInv, IInv
<1>2. PICK o \in Pairs : o = task[t].pair /\ o # pr
    BY <1>1, StepFrame
<1>3. PICK i \in Ids : i = First(pr) /\ rows[i].pair = pr
    BY FirstIsRow, RowsOfType
<1>4. PICK k, a : k = rows[i].key /\ a = rows[i].ip
    OBVIOUS
<1>5. k \in Keys /\ a \in Addresses /\ HolderOf[k] = pr[2] /\ a # 0
    BY <1>1, <1>3, <1>4, NoRowIsNoRow DEF TypeOK, RowOK, Addresses
<1>6. First(pr)' = i /\ rows'[i] = rows[i] /\ met \subseteq met'
    BY <1>1, <1>3, StepOtherRows, StepFrame
<1>7. CASE \E other \in Pairs \ {pr} : other[1] = pr[1] /\ <<other, pr>> \in met
    BY <1>6, <1>7 DEF Reached
<1>8. CASE route[a] = k
    <2>1. SUFFICES ASSUME route'[a] # k
                   PROVE  o[1] = pr[1] /\ <<o, pr>> \in met
        BY <1>2, <1>4, <1>6 DEF Reached
    <2>2. o[1] = pr[1] => o[2] # pr[2]
        BY <1>2 DEF Pairs
    <2>3. CASE RemoveOld(t) \/ RemoveFromDevice(t)
        <3>1. route' = WithoutKey(task[t].old) /\ unsure' = unsure \cup Elsewhere(o[1], task[t].old, 0)
            BY <1>2, <2>3 DEF RemoveOld, RemoveFromDevice, RemovePeer
        <3>2. task[t].old = k
            BY <1>5, <1>8, <2>1, <3>1 DEF WithoutKey
        <3>3. HolderOf[k] = o[2]
            BY <1>1, <1>2, <2>3, <3>2 DEF OldOwn, RemoveOld, RemoveFromDevice
        <3>4. o[1] # pr[1]
            BY <1>5, <2>2, <3>3
        <3>5. pr \in Elsewhere(o[1], task[t].old, 0)
            BY <1>3, <1>4, <3>2, <3>4 DEF Elsewhere, RowsOf
        <3> QED BY <3>1, <3>5
    <2>4. CASE Add(t)
        <3>1. /\ route' = [WithoutKey(task[t].key) EXCEPT ![task[t].ip] = task[t].key]
              /\ Elsewhere(o[1], task[t].key, task[t].ip) \subseteq unsure'
              /\ task[t].pc = "add"
            BY <1>2, <2>4 DEF Add, AddPeer
        <3>2. HolderOf[task[t].key] = o[2]
            BY <1>1, <1>2, <3>1 DEF HandsOK, Active, Joining
        <3>3. task[t].key = k \/ task[t].ip = a
            BY <1>5, <1>8, <2>1, <3>1 DEF WithoutKey
        <3>4. o[1] = pr[1]
            <4>1. o[1] # pr[1] => pr \in Elsewhere(o[1], task[t].key, task[t].ip)
                BY <1>3, <1>4, <3>3 DEF Elsewhere, RowsOf
            <4> QED BY <3>1, <4>1
        <3>5. task[t].ip = a
            BY <1>5, <2>2, <3>2, <3>3, <3>4
        <3>6. Claims(o, a) /\ Claims(pr, a)
            BY <1>2, <1>3, <1>4, <3>1, <3>5 DEF Claims, Claiming
        <3> QED BY <1>1, <1>2, <1>5, <3>4, <3>6 DEF ClaimsDiffer
    <2>5. CASE Find(t) \/ Update(t) \/ Allocate(t) \/ Create(t) \/ Lookup(t) \/ DeleteRows(t)
        BY <1>8, <2>1, <2>5 DEF Find, Update, Allocate, Create, Lookup, DeleteRows, dev
    <2> QED BY <2>3, <2>4, <2>5 DEF Step
<1> QED BY <1>3, <1>4, <1>7, <1>8 DEF Reached

\* An undisturbed operation ends with its user's peer on the device, or gone.
LEMMA StepOwnRouted ==
    ASSUME RouteInv, NEW t \in Tasks, Step(t), NEW o \in Pairs, o = task[t].pair
    PROVE  Routed(o)'
<1>1. /\ IInv /\ Alone(t) /\ HandsOK(t) /\ AloneFinds(t) /\ Routed(o)
      /\ task \in [Tasks -> Task] /\ task[t] \in Task
    BY DEF RouteInv, AddressInv, IInv, TypeOK
<1>2. Active(t) /\ wg' = wg /\ met \subseteq met'
    BY <1>1, StepFrame
<1> SUFFICES ASSUME wg, RowsOf(o)' # {}, o \notin unsure', ~Changing(o)'
             PROVE  Reached(o)'
    BY <1>2 DEF Routed
<1>3. task[t].alone
    BY <1>1, <1>2, StepUnsure DEF Alone
<1>4. task[t].pc \notin ChangingPC => ~Changing(o)
    BY <1>1, <1>2, <1>3 DEF Changing, ChangingPC, Alone, Active
<1>5. ASSUME UNCHANGED <<rows, route>>, task[t].pc \notin ChangingPC, o \notin unsure
      PROVE  Reached(o)'
    <2>1. RowsOf(o)' = RowsOf(o) /\ First(o)' = First(o)
        BY <1>5 DEF RowsOf, First
    <2>2. Reached(o)
        BY <1>1, <1>4, <1>5, <2>1 DEF Routed
    <2> QED BY <1>2, <1>5, <2>1, <2>2 DEF Reached
<1>6. ~(task'[t].pair = o /\ task'[t].pc \in ChangingPC)
    BY DEF Changing
<1>7. task'[t].pc = "idle" \/ task'[t].pair = o
    BY <1>1, StepFrame
<1>8. task'[t].pc \notin ChangingPC
    BY <1>6, <1>7 DEF ChangingPC
<1>9. ~Add(t) => o \notin unsure
    BY <1>1, StepUnsure
<1>10. CASE Find(t)
    BY <1>5, <1>9, <1>10 DEF Find, Add, ChangingPC, db, dev
<1>11. CASE Update(t)
    <2>1. task[t].pc = "update" /\ task'[t].pc # "removeOld"
        BY <1>8, <1>11 DEF Update, ChangingPC
    <2>2. UNCHANGED <<rows, route>>
        BY <1>1, <1>11, <2>1 DEF Update, Goto, Task, dev
    <2> QED BY <1>5, <1>9, <2>1, <2>2 DEF Add, ChangingPC
<1>12. CASE RemoveOld(t)
    <2>1. task'[t].pc = "add"
        BY <1>1, <1>12 DEF RemoveOld, Goto, Task
    <2> QED BY <1>8, <2>1 DEF ChangingPC
<1>13. CASE Allocate(t)
    BY <1>5, <1>9, <1>13 DEF Allocate, Add, ChangingPC, db, dev
<1>14. CASE Create(t)
    <2>1. task[t].pc = "create" /\ task'[t].pc # "add"
        BY <1>8, <1>14 DEF Create, ChangingPC
    <2>2. UNCHANGED <<rows, route>>
        BY <1>1, <1>14, <2>1 DEF Create, Goto, Task, dev
    <2> QED BY <1>5, <1>9, <2>1, <2>2 DEF Add, ChangingPC
<1>15. CASE Add(t)
    <2>1. /\ task[t].pc = "add" /\ rows' = rows
          /\ route' = [WithoutKey(task[t].key) EXCEPT ![task[t].ip] = task[t].key]
        BY <1>15 DEF Add, AddPeer, db
    <2>2. RowsOf(o)' = RowsOf(o) /\ First(o)' = First(o)
        BY <2>1 DEF RowsOf, First
    <2>3. rows[First(o)].key = task[t].key /\ rows[First(o)].ip = task[t].ip
        BY <1>1, <1>2, <1>3, <2>1, <2>2 DEF AloneFinds
    <2>4. task[t].ip \in Addresses
        BY <1>1, <1>2, <2>1 DEF HandsOK
    <2>5. route'[task[t].ip] = task[t].key
        BY <2>1, <2>4 DEF WithoutKey
    <2> QED BY <2>1, <2>2, <2>3, <2>5 DEF Reached
<1>16. CASE Lookup(t)
    BY <1>5, <1>9, <1>16 DEF Lookup, Add, ChangingPC, db, dev
<1>17. CASE RemoveFromDevice(t)
    <2>1. task'[t].pc = "delete"
        BY <1>1, <1>17 DEF RemoveFromDevice, Goto, Task
    <2> QED BY <1>8, <2>1 DEF ChangingPC
<1>18. CASE DeleteRows(t)
    <2>1. ~Fail(t)
        BY DEF Fail
    <2>2. rows' = [i \in Ids |-> IF rows[i].pair = o THEN NoRow ELSE rows[i]]
        BY <1>18, <2>1 DEF DeleteRows
    <2>3. RowsOf(o)' = {}
        BY <2>2, NoRowIsNoRow DEF RowsOf
    <2> QED BY <2>3
<1> QED BY <1>10, <1>11, <1>12, <1>13, <1>14, <1>15, <1>16, <1>17, <1>18 DEF Step

LEMMA StepRoute ==
    ASSUME RouteInv, NEW t \in Tasks, Step(t)
    PROVE  /\ \A s \in Tasks : Alone(s)' /\ OldOwn(s)' /\ AloneFinds(s)'
           /\ \A pr \in Pairs : Routed(pr)'
<1>1. IInv
    BY DEF RouteInv, AddressInv
<1>2. ASSUME NEW pr \in Pairs, pr # task[t].pair PROVE Routed(pr)'
    <2> SUFFICES ASSUME wg', RowsOf(pr)' # {}, pr \notin unsure', ~Changing(pr)'
                 PROVE  Reached(pr)'
        BY DEF Routed
    <2>1. wg /\ RowsOf(pr) # {}
        BY <1>1, <1>2, StepFrame, StepOtherRows
    <2>2. pr \notin unsure
        BY <1>1, <1>2, StepUnsure
    <2>3. ~Changing(pr)
        BY <1>1, <1>2, StepFrame DEF Changing
    <2> QED BY <1>2, <2>1, <2>2, <2>3, StepOthersReached DEF RouteInv, Routed
<1>3. task[t].pair \in Pairs
    BY <1>1, StepFrame
<1> QED BY <1>2, <1>3, StepOwnRouted, StepOthersAlone, StepOwnAlone

LEMMA BeginRoute ==
    ASSUME RouteInv, NEW t \in Tasks, NEW pr \in Pairs, NEW pc \in {"find", "lookup"}, NEW k,
           Begin(t, pr, pc, k), UNCHANGED <<rows, wg, route>>
    PROVE  /\ \A s \in Tasks : Alone(s)' /\ OldOwn(s)' /\ AloneFinds(s)'
           /\ \A q \in Pairs : Routed(q)'
<1>1. /\ task'[t].pc = pc /\ task'[t].pair = pr /\ ~Active(t)
      /\ Busy(pr) => ~task'[t].alone
      /\ ~Busy(pr) => task'[t].alone
    BY DEF Begin, Idle
<1>2. task \in [Tasks -> Task] /\ \A s \in Tasks : task[s] \in Task
    BY DEF RouteInv, AddressInv, IInv, TypeOK
<1>3. ASSUME NEW s \in Tasks \ {t}
      PROVE  /\ task'[s].pc = task[s].pc /\ task'[s].pair = task[s].pair /\ task'[s].ip = task[s].ip
             /\ task'[s].key = task[s].key /\ task'[s].id = task[s].id /\ task'[s].old = task[s].old
             /\ task'[s].alone => task[s].alone /\ (Active(s) => task[s].pair # pr)
             /\ task[s].alone => task'[s].alone \/ (Active(s) /\ task[s].pair = pr)
    <2>1. CASE Active(s) /\ task[s].pair = pr
        <3>1. task'[s] = [task[s] EXCEPT !.alone = FALSE]
            BY <2>1 DEF Begin
        <3> QED BY <1>2, <2>1, <3>1 DEF Task
    <2>2. CASE ~(Active(s) /\ task[s].pair = pr)
        BY <2>2 DEF Begin
    <2> QED BY <2>1, <2>2
<1>4. met \subseteq met' /\ unsure \subseteq unsure' /\ (Busy(pr) => pr \in unsure')
    BY DEF Begin
<1>5. \A q : RowsOf(q)' = RowsOf(q) /\ First(q)' = First(q)
    BY DEF RowsOf, First
<1>6. ASSUME NEW s \in Tasks PROVE Alone(s)' /\ OldOwn(s)' /\ AloneFinds(s)'
    <2>1. CASE s = t
        <3>1. Alone(t)'
            <4>1. CASE Busy(pr)
                BY <1>1, <1>4, <4>1 DEF Alone
            <4>2. CASE ~Busy(pr)
                BY <1>1, <1>3, <4>2 DEF Alone, Busy, Active
            <4> QED BY <4>1, <4>2
        <3>2. OldOwn(t)' /\ AloneFinds(t)'
            BY <1>1 DEF OldOwn, AloneFinds
        <3> QED BY <2>1, <3>1, <3>2
    <2>2. CASE s # t
        <3>1. Alone(s) /\ OldOwn(s) /\ AloneFinds(s)
            BY DEF RouteInv
        <3>2. Alone(s)'
            <4>1. CASE Active(s) /\ task'[s].alone
                BY <1>1, <1>3, <2>2, <3>1, <4>1 DEF Alone, Active
            <4>2. CASE Active(s) /\ ~task'[s].alone
                BY <1>3, <1>4, <2>2, <3>1, <4>2 DEF Alone, Active, Busy
            <4>3. CASE ~Active(s)
                BY <1>3, <2>2, <4>3 DEF Alone, Active
            <4> QED BY <4>1, <4>2, <4>3
        <3>3. OldOwn(s)'
            BY <1>3, <2>2, <3>1 DEF OldOwn
        <3>4. RowsOf(task[s].pair)' = RowsOf(task[s].pair) /\ First(task[s].pair)' = First(task[s].pair)
            BY <1>3, <2>2 DEF RowsOf, First
        <3>5. AloneFinds(s)'
            BY <1>3, <2>2, <3>1, <3>4 DEF AloneFinds, Active
        <3> QED BY <2>2, <3>2, <3>3, <3>5
    <2> QED BY <2>1, <2>2
<1>7. ASSUME NEW q \in Pairs PROVE Routed(q)'
    <2>1. Changing(q) => Changing(q)'
        BY <1>1, <1>3 DEF Changing, ChangingPC, Active
    <2>2. Reached(q) => Reached(q)'
        BY <1>4, <1>5 DEF Reached
    <2> QED BY <1>4, <1>5, <2>1, <2>2 DEF RouteInv, Routed
<1> QED BY <1>6, <1>7

LEMMA DeleteRoomRoute ==
    ASSUME RouteInv, NEW rm \in Rooms, DeleteRoom(rm)
    PROVE  /\ \A s \in Tasks : Alone(s)' /\ OldOwn(s)' /\ AloneFinds(s)'
           /\ \A q \in Pairs : Routed(q)'
<1>1. UNCHANGED <<wg, route, task, met, unsure>>
    BY DEF DeleteRoom, dev, past
<1>2. ASSUME NEW q \in Pairs, RowsOf(q)' # {}
      PROVE  RowsOf(q)' = RowsOf(q) /\ First(q)' = First(q) /\ rows'[First(q)] = rows[First(q)]
    <2>1. \A i \in Ids : rows[i].pair = q => rows[i] # NoRow
        BY NoRowIsNoRow
    <2>2. q[1] # rm
        BY <1>2, <2>1, NoRowIsNoRow DEF DeleteRoom, RowsOf
    <2>3. \A i \in Ids : rows'[i].pair = q \/ rows[i].pair = q => rows'[i] = rows[i]
        BY <2>2, NoRowIsNoRow DEF DeleteRoom
    <2>4. RowsOf(q)' = RowsOf(q)
        BY <2>3 DEF RowsOf
    <2>5. First(q) \in RowsOf(q)
        BY <1>2, <2>4, FirstIsRow
    <2>6. rows'[First(q)] = rows[First(q)]
        BY <2>3, <2>5, RowsOfType
    <2> QED BY <2>4, <2>6 DEF First
<1>3. ASSUME NEW s \in Tasks PROVE Alone(s)' /\ OldOwn(s)' /\ AloneFinds(s)'
    <2>1. Alone(s)' /\ OldOwn(s)'
        BY <1>1 DEF RouteInv, Alone, OldOwn, Active
    <2>2. CASE ~Active(s)
        BY <1>1, <2>1, <2>2 DEF AloneFinds, Active
    <2>3. CASE Active(s)
        <3>1. PICK q \in Pairs : q = task[s].pair
            BY <2>3 DEF RouteInv, AddressInv, IInv, HandsOK
        <3>2. AloneFinds(s)
            BY DEF RouteInv
        <3>3. RowsOf(task[s].pair)' = RowsOf(q)' /\ First(task[s].pair)' = First(q)'
            BY <1>1, <3>1 DEF RowsOf, First
        <3>4. AloneFinds(s)'
            BY <1>1, <1>2, <3>1, <3>2, <3>3 DEF AloneFinds, Active
        <3> QED BY <2>1, <3>4
    <2> QED BY <2>2, <2>3
<1>4. ASSUME NEW q \in Pairs PROVE Routed(q)'
    <2>1. Routed(q)
        BY DEF RouteInv
    <2>2. Changing(q)' <=> Changing(q)
        BY <1>1 DEF Changing
    <2>3. RowsOf(q)' # {} /\ Reached(q) => Reached(q)'
        BY <1>1, <1>2 DEF Reached
    <2> QED BY <1>1, <1>2, <2>1, <2>2, <2>3 DEF Routed
<1> QED BY <1>3, <1>4

LEMMA RouteNext == RouteInv /\ [Next]_vars => RouteInv'
<1> SUFFICES ASSUME RouteInv, [Next]_vars
             PROVE  /\ \A s \in Tasks : Alone(s)' /\ OldOwn(s)' /\ AloneFinds(s)'
                    /\ \A q \in Pairs : Routed(q)'
    BY AddressNext DEF RouteInv
<1>1. IInv
    BY DEF RouteInv, AddressInv
<1>2. CASE \E t \in Tasks : Step(t)
    BY <1>2, StepRoute
<1>3. CASE \E t \in Tasks, pr \in Pairs, pc \in {"find", "lookup"}, k \in Keys \cup {None} :
               Begin(t, pr, pc, k) /\ UNCHANGED <<alive, rows, wg, route>>
    BY <1>3, BeginRoute
<1>4. CASE \E r \in Rooms : DeleteRoom(r)
    BY <1>4, DeleteRoomRoute
<1>5. CASE Restart
    <2>1. unsure' = Pairs /\ \A t \in Tasks : task'[t].pc = "idle"
        BY <1>5, IdleIsTask DEF Restart
    <2> QED BY <2>1 DEF Alone, OldOwn, AloneFinds, Active, Routed
<1>6. CASE UNCHANGED <<alive, rows, wg, route, task, met, unsure>>
    <2>1. \A q : RowsOf(q)' = RowsOf(q) /\ First(q)' = First(q)
        BY <1>6 DEF RowsOf, First
    <2>2. ASSUME NEW s \in Tasks PROVE Alone(s)' /\ OldOwn(s)' /\ AloneFinds(s)'
        BY <1>6 DEF RouteInv, Alone, OldOwn, AloneFinds, Active, RowsOf, First
    <2>3. ASSUME NEW q \in Pairs PROVE Routed(q)'
        BY <1>6, <2>1 DEF RouteInv, Routed, Changing, Reached
    <2> QED BY <2>2, <2>3
<1> QED BY <1>1, <1>2, <1>3, <1>4, <1>5, <1>6, OtherSteps

LEMMA RouteInit == Init => RouteInv
<1> SUFFICES ASSUME Init
             PROVE  /\ \A s \in Tasks : Alone(s) /\ OldOwn(s) /\ AloneFinds(s)
                    /\ \A q \in Pairs : Routed(q)
    BY AddressInit DEF RouteInv
<1>1. (\A t \in Tasks : task[t].pc = "idle") /\ \A i \in Ids : rows[i] = NoRow
    BY IdleIsTask DEF Init
<1>2. \A q \in Pairs : RowsOf(q) = {}
    BY <1>1, NoRowIsNoRow DEF RowsOf
<1> QED BY <1>1, <1>2 DEF Alone, OldOwn, AloneFinds, Active, Routed

\* An undisturbed join leaves its user's peer on the device, where it stays until
\* the user's operations meet, one fails, the server starts again, a peer of
\* another room takes its place, or a member it has met gets its address
\* (coordinator.go:306-348, 361-433).
THEOREM RegisteredAreRouted == Spec => []RegisteredIsRouted
<1>1. RouteInv => RegisteredIsRouted
    <2> SUFFICES ASSUME RouteInv, NEW pr \in Pairs,
                        wg, RowsOf(pr) # {}, ~Busy(pr), pr \notin unsure
                 PROVE  Reached(pr)
        BY DEF RegisteredIsRouted, Reached
    <2>1. ~Changing(pr)
        BY DEF Changing, ChangingPC, Busy, Active
    <2> QED BY <2>1 DEF RouteInv, Routed
<1> QED BY RouteInit, RouteNext, <1>1, PTL DEF Spec
=============================================================================
