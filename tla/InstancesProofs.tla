--------------------------- MODULE InstancesProofs ---------------------------
(***************************************************************************)
(* Proofs about instances, for any number of them, launches, calls lost,   *)
(* crashes of registry and agent, and numbers given out again.             *)
(***************************************************************************)
EXTENDS Instances, FiniteSetTheorems, TLAPS

\* The types, except for the lengths of the two lists.
Shapes ==
    /\ seq \in 0 .. MaxSeq
    /\ launches \subseteq Launch
    /\ rows \in Seq(Instance) /\ instances \in Seq(Instance)
    /\ writes \subseteq Write
    /\ calls \subseteq Call /\ patches \subseteq Patch /\ destroys \subseteq Destroy
    /\ threads \subseteq Thread /\ destroying \subseteq Destroy
    /\ rootfs \subseteq Ids /\ machines \subseteq Ids
    /\ created \in [Ids -> Nat]
    /\ overtaken \in BOOLEAN
    /\ final \subseteq Ids /\ destroyed \subseteq Ids

\* The id is the primary key of the table, which holds what was ever saved.
TableInv ==
    /\ \A k, m \in DOMAIN rows : rows[k].id = rows[m].id => k = m
    /\ \A id \in Ids : created[id] > 0 <=> id \in IdsOf(rows)
    /\ \A k \in DOMAIN instances : created[instances[k].id] > 0
    /\ \A l \in launches : l.pc = "appending" => created[l.id] > 0

\* An instance whose number was given out once is listed once.
ListInv ==
    /\ \A k, m \in DOMAIN instances :
           instances[k].id = instances[m].id /\ created[instances[k].id] = 1 => k = m
    /\ \A l \in launches : l.pc = "appending" /\ created[l.id] = 1 => l.id \notin IdsOf(instances)

\* As long as no save was overtaken the rows are in the order of their numbers,
\* and every number that is still to be saved is new.
OrderInv ==
    ~overtaken =>
        /\ \A k, m \in DOMAIN rows : k < m => rows[k].id < rows[m].id
        /\ \A k \in DOMAIN rows : rows[k].id <= seq
        /\ \A l \in launches : l.pc = "saving" => l.id <= seq /\ l.id \notin IdsOf(rows)
        /\ \A id \in Ids : created[id] <= 1

\* Somebody has begun to rely on the end of the instance.
Claimed(id) ==
    \/ id \in final \cup destroyed
    \/ \E w \in writes : w.id = id /\ w.orderly
    \/ \E d \in destroys \cup destroying : d.id = id /\ d.orderly

\* Provisioning, but for a launch that has only taken the number.
Stirring(id) ==
    \/ \E l \in launches : l.id = id /\ l.pc = "appending"
    \/ \E x \in calls \cup threads \cup patches : x.id = id
    \/ \E w \in writes : w.id = id /\ w.status # "terminated"

\* Only an instance that exists is claimed, and then nothing stirs any more,
\* until its number is given out again.
QuietInv ==
    \A id \in Ids : Claimed(id) => created[id] > 0 /\ (created[id] = 1 => ~Stirring(id))

\* The entries of the id that a table has say terminated.
Ended(table, id) == \A k \in DOMAIN table : table[k].id = id => table[k].status = "terminated"

\* A termination has done what it is past.
EndedInv ==
    /\ \A w \in writes :
           w.orderly /\ created[w.id] = 1 =>
               /\ w.id \in IdsOf(instances)
               /\ w.pc = "memory" => Ended(rows, w.id)
    /\ \A id \in final :
           created[id] = 1 => id \in IdsOf(instances) /\ Ended(rows, id) /\ Ended(instances, id)

Inv ==
    /\ Shapes /\ TableInv /\ ListInv /\ OrderInv /\ QuietInv /\ EndedInv
    /\ DestroyedStaysGone

-----------------------------------------------------------------------------
LEMMA EntryTypes ==
    ASSUME NEW table \in Seq(Instance)
    PROVE  /\ Len(table) \in Nat /\ DOMAIN table = 1 .. Len(table)
           /\ \A k \in DOMAIN table : /\ table[k] \in Instance
                                      /\ table[k].id \in Ids /\ table[k].status \in Status
<1>1. \A k \in DOMAIN table : table[k] \in Instance
  OBVIOUS
<1> QED
  BY <1>1 DEF Instance

\* WithStatus changes statuses of the id only; of an id listed once, the one.
LEMMA StatusEffect ==
    ASSUME NEW table \in Seq(Instance), NEW id, NEW s \in Status
    PROVE  LET T == WithStatus(table, id, s) IN
           /\ T \in Seq(Instance) /\ DOMAIN T = DOMAIN table
           /\ \A k \in DOMAIN table :
                 /\ T[k].id = table[k].id
                 /\ T[k] = table[k] \/ (T[k].id = id /\ T[k].status = s)
           /\ IdsOf(T) = IdsOf(table)
           /\ (\A k, m \in DOMAIN table : table[k].id = id /\ table[m].id = id => k = m)
                  => \A k \in DOMAIN table : table[k].id = id => T[k].status = s
<1> DEFINE T == WithStatus(table, id, s)
           First(k) == table[k].id = id /\ \A j \in 1 .. k - 1 : table[j].id # id
<1>1. \A x \in Instance : /\ [x EXCEPT !.status = s] \in Instance
                          /\ [x EXCEPT !.status = s].id = x.id
                          /\ [x EXCEPT !.status = s].status = s
  BY DEF Instance
<1>2. T = [k \in DOMAIN table |-> IF First(k) THEN [table[k] EXCEPT !.status = s] ELSE table[k]]
  BY DEF WithStatus
<1>3. ASSUME NEW k \in DOMAIN table
      PROVE  /\ T[k] \in Instance /\ T[k].id = table[k].id
             /\ First(k) => T[k].id = id /\ T[k].status = s
             /\ ~First(k) => T[k] = table[k]
  <2>1. CASE First(k)
    BY <1>1, <1>2, <2>1, EntryTypes
  <2>2. CASE ~First(k)
    BY <1>2, <2>2, EntryTypes
  <2> QED
    BY <2>1, <2>2
<1>4. DOMAIN T = DOMAIN table
  BY <1>2
<1>5. T \in Seq(Instance)
  <2>1. T \in [1 .. Len(table) -> Instance]
    BY <1>2, <1>3, EntryTypes
  <2> QED
    BY <2>1, EntryTypes
<1>6. IdsOf(T) = IdsOf(table)
  BY <1>3, <1>4 DEF IdsOf
<1>7. ASSUME \A k, m \in DOMAIN table : table[k].id = id /\ table[m].id = id => k = m,
             NEW k \in DOMAIN table, table[k].id = id
      PROVE  T[k].status = s
  <2>1. \A j \in 1 .. k - 1 : j \in DOMAIN table /\ j # k
    BY EntryTypes
  <2>2. First(k)
    BY <1>7, <2>1
  <2> QED
    BY <1>3, <2>2
<1> HIDE DEF T, First
<1>8. \A k \in DOMAIN table : T[k] = table[k] \/ (T[k].id = id /\ T[k].status = s)
  BY <1>3
<1> QED
  BY <1>3, <1>4, <1>5, <1>6, <1>7, <1>8 DEF T

LEMMA AppendEffect ==
    ASSUME NEW table \in Seq(Instance), NEW x \in Instance
    PROVE  LET T == Append(table, x) IN
           /\ T \in Seq(Instance) /\ DOMAIN T = 1 .. Len(table) + 1
           /\ \A k \in DOMAIN table : k \in DOMAIN T /\ T[k] = table[k]
           /\ T[Len(table) + 1] = x
           /\ \A k \in DOMAIN T : k \in DOMAIN table \/ k = Len(table) + 1
           /\ IdsOf(T) = IdsOf(table) \cup {x.id}
<1> DEFINE T == Append(table, x)
<1>1. T \in Seq(Instance) /\ DOMAIN T = 1 .. Len(table) + 1
  BY EntryTypes
<1>2. \A k \in DOMAIN table : k \in DOMAIN T /\ T[k] = table[k]
  BY EntryTypes
<1>3. T[Len(table) + 1] = x /\ Len(table) + 1 \in DOMAIN T
  BY EntryTypes
<1>4. \A k \in DOMAIN T : k \in DOMAIN table \/ k = Len(table) + 1
  BY <1>1, EntryTypes
<1> HIDE DEF T
<1>5. IdsOf(T) = IdsOf(table) \cup {x.id}
  BY <1>2, <1>3, <1>4 DEF IdsOf
<1> QED
  BY <1>1, <1>2, <1>3, <1>4, <1>5 DEF T

\* A step that leaves the tables and the numbers alone.
LEMMA TablesStay ==
    ASSUME Inv, UNCHANGED <<seq, launches, rows, instances, created, overtaken>>
    PROVE  TableInv' /\ ListInv' /\ OrderInv'
BY DEF Inv, TableInv, ListInv, OrderInv, IdsOf

\* A step with no new claim and nothing new that stirs.
LEMMA QuietStays ==
    ASSUME Inv, created' = created,
           \A id \in Ids : Claimed(id)' => Claimed(id),
           \A id \in Ids : Stirring(id)' => Stirring(id)
    PROVE  QuietInv'
BY DEF Inv, QuietInv

\* What is claimed does not stir.
LEMMA ClaimedIsQuiet ==
    ASSUME Inv, NEW id \in Ids, Claimed(id), created[id] = 1
    PROVE  ~Stirring(id)
BY DEF Inv, QuietInv

LEMMA InitInv == Init => Inv
<1> SUFFICES ASSUME Init PROVE Inv
  OBVIOUS
<1> USE DEF Init
<1>1. Shapes
  <2>1. rows \in Seq(Instance) /\ instances \in Seq(Instance)
    BY DEF Init
  <2>2. created \in [Ids -> Nat]
    BY DEF Init
  <2>3. seq \in 0 .. MaxSeq
    BY InstancesConstants DEF Init
  <2> QED
    BY <2>1, <2>2, <2>3 DEF Init, Shapes
<1>2. TableInv /\ ListInv /\ OrderInv
  BY DEF TableInv, ListInv, OrderInv, IdsOf
<1>3. QuietInv /\ EndedInv /\ DestroyedStaysGone
  BY DEF QuietInv, EndedInv, DestroyedStaysGone, Claimed
<1> QED
  BY <1>1, <1>2, <1>3 DEF Inv

LEMMA TakeNumberInv ==
    ASSUME Inv, TakeNumber
    PROVE  Inv'
<1> DEFINE l == [id |-> seq', pc |-> "saving"]
<1>1. /\ seq < MaxSeq /\ seq' = seq + 1
      /\ launches' = launches \cup {l}
      /\ UNCHANGED <<rows, instances, writes, wireVars, agentVars, historyVars>>
  BY DEF TakeNumber
<1>2. l \in Launch /\ l.id = seq + 1 /\ l.pc = "saving"
  BY <1>1, InstancesConstants DEF Inv, Shapes, Launch, Ids
<1> HIDE DEF l
<1> USE DEF wireVars, agentVars, historyVars
<1>3. Shapes'
  BY <1>1, <1>2, InstancesConstants DEF Inv, Shapes
<1>4. TableInv' /\ ListInv'
  BY <1>1, <1>2 DEF Inv, TableInv, ListInv, IdsOf
<1>5. OrderInv'
  <2> SUFFICES ASSUME ~overtaken PROVE OrderInv'
    BY <1>1 DEF OrderInv
  <2>1. \A k \in DOMAIN rows : rows[k].id \in Ids /\ rows[k].id <= seq
    BY EntryTypes DEF Inv, Shapes, OrderInv
  <2>2. seq \in Nat /\ \A k \in DOMAIN rows : rows[k].id \in Nat
    BY <2>1 DEF Inv, Shapes, Ids
  <2>3. l.id \notin IdsOf(rows)
    BY <1>2, <2>1, <2>2 DEF IdsOf
  <2>4. \A k \in DOMAIN rows : rows[k].id <= seq + 1
    BY <2>1, <2>2
  <2>5. \A m \in launches' : m.pc = "saving" => m.id <= seq + 1 /\ m.id \notin IdsOf(rows)
    <3> SUFFICES ASSUME NEW m \in launches', m.pc = "saving"
                 PROVE  m.id <= seq + 1 /\ m.id \notin IdsOf(rows)
      OBVIOUS
    <3>1. CASE m = l
      BY <1>2, <2>2, <2>3, <3>1
    <3>2. CASE m \in launches
      <4>1. m.id <= seq /\ m.id \notin IdsOf(rows) /\ m.id \in Nat
        BY <3>2 DEF Inv, OrderInv, Shapes, Launch, Ids
      <4> QED
        BY <2>2, <4>1
    <3> QED
      BY <1>1, <3>1, <3>2
  <2> QED
    BY <1>1, <2>4, <2>5 DEF Inv, OrderInv, IdsOf
<1>6. QuietInv'
  <2>1. \A id \in Ids : Claimed(id)' => Claimed(id)
    BY <1>1 DEF Claimed
  <2>2. \A id \in Ids : Stirring(id)' => Stirring(id)
    BY <1>1, <1>2 DEF Stirring
  <2> QED
    BY <1>1, <2>1, <2>2, QuietStays
<1>7. EndedInv' /\ DestroyedStaysGone'
  BY <1>1 DEF Inv, EndedInv, DestroyedStaysGone, Ended, IdsOf
<1> QED
  BY <1>3, <1>4, <1>5, <1>6, <1>7 DEF Inv

LEMMA SaveInstanceInv ==
    ASSUME Inv, NEW l \in launches, SaveInstance(l)
    PROVE  Inv'
<1> DEFINE a == [l EXCEPT !.pc = "appending"]
           row == [id |-> l.id, status |-> "provisioning"]
<1>1. /\ l.pc = "saving"
      /\ launches' = (launches \ {l}) \cup {a}
      /\ rows' = IF l.id \in IdsOf(rows)
                 THEN WithStatus(rows, l.id, "provisioning")
                 ELSE Append(rows, row)
      /\ created' = [created EXCEPT ![l.id] = @ + 1]
      /\ overtaken' = (overtaken \/ \E id \in IdsOf(rows) : id > l.id)
      /\ UNCHANGED <<seq, instances, writes, wireVars, agentVars, final, destroyed>>
  BY DEF SaveInstance
<1>2. /\ l \in Launch /\ l.id \in Ids
      /\ a \in Launch /\ a.id = l.id /\ a.pc = "appending"
      /\ row \in Instance /\ row.id = l.id
  BY DEF Inv, Shapes, Launch, Instance, Status
<1> HIDE DEF a, row
<1>3. rows \in Seq(Instance) /\ instances \in Seq(Instance)
  BY DEF Inv, Shapes
<1>4. /\ rows' \in Seq(Instance)
      /\ IdsOf(rows') = IdsOf(rows) \cup {l.id}
      /\ \A k, m \in DOMAIN rows' : rows'[k].id = rows'[m].id => k = m
      /\ \A k \in DOMAIN rows' : rows'[k].id # l.id => k \in DOMAIN rows /\ rows'[k] = rows[k]
  <2>1. CASE l.id \in IdsOf(rows)
    <3>1. rows' = WithStatus(rows, l.id, "provisioning")
      BY <1>1, <2>1
    <3>2. "provisioning" \in Status
      BY DEF Status
    <3> QED
      BY <1>3, <2>1, <3>1, <3>2, StatusEffect DEF Inv, TableInv
  <2>2. CASE l.id \notin IdsOf(rows)
    <3>1. rows' = Append(rows, row)
      BY <1>1, <2>2
    <3>2. \A k \in DOMAIN rows : rows[k].id # l.id
      BY <2>2 DEF IdsOf
    <3> QED
      BY <1>2, <1>3, <3>1, <3>2, AppendEffect DEF Inv, TableInv
  <2> QED
    BY <2>1, <2>2
<1>5. /\ created' \in [Ids -> Nat] /\ created \in [Ids -> Nat]
      /\ created'[l.id] = created[l.id] + 1
      /\ \A id \in Ids : id # l.id => created'[id] = created[id]
  BY <1>1, <1>2 DEF Inv, Shapes
<1>6. created[l.id] > 0 <=> l.id \in IdsOf(rows)
  BY <1>2 DEF Inv, TableInv
<1>7. \A id \in Ids : created[id] > 0 => created'[id] > 0
                      /\ (created'[id] = 1 => id # l.id /\ created[id] = 1)
  BY <1>2, <1>5
<1>8. \A k \in DOMAIN instances : instances[k].id \in Ids /\ created[instances[k].id] > 0
  BY <1>3, EntryTypes DEF Inv, TableInv
<1> USE DEF wireVars, agentVars
<1>9. Shapes'
  BY <1>1, <1>2, <1>4, <1>5 DEF Inv, Shapes
<1>10. TableInv'
  <2>1. \A id \in Ids : created'[id] > 0 <=> id \in IdsOf(rows')
    BY <1>2, <1>4, <1>5 DEF Inv, TableInv
  <2>2. \A k \in DOMAIN instances : created'[instances[k].id] > 0
    BY <1>7, <1>8
  <2>3. \A m \in launches' : m.pc = "appending" => created'[m.id] > 0
    <3> SUFFICES ASSUME NEW m \in launches', m.pc = "appending" PROVE created'[m.id] > 0
      OBVIOUS
    <3>1. CASE m = a
      BY <1>2, <1>5, <3>1
    <3>2. CASE m \in launches
      <4>1. m.id \in Ids /\ created[m.id] > 0
        BY <3>2 DEF Inv, TableInv, Shapes, Launch
      <4> QED
        BY <1>7, <4>1
    <3> QED
      BY <1>1, <3>1, <3>2
  <2> QED
    BY <1>1, <1>4, <2>1, <2>2, <2>3 DEF TableInv
<1>11. ListInv'
  <2>1. \A k, m \in DOMAIN instances :
            instances[k].id = instances[m].id /\ created'[instances[k].id] = 1 => k = m
    BY <1>7, <1>8 DEF Inv, ListInv
  <2>2. ASSUME NEW m \in launches', m.pc = "appending", created'[m.id] = 1
        PROVE  m.id \notin IdsOf(instances)
    <3>1. CASE m = a
      BY <1>2, <1>5, <1>7, <1>8, <2>2, <3>1 DEF IdsOf
    <3>2. CASE m \in launches
      <4>1. m.id \in Ids /\ created[m.id] > 0
        BY <2>2, <3>2 DEF Inv, TableInv, Shapes, Launch
      <4> QED
        BY <1>7, <2>2, <3>2, <4>1 DEF Inv, ListInv
    <3> QED
      BY <1>1, <2>2, <3>1, <3>2
  <2> QED
    BY <1>1, <2>1, <2>2 DEF ListInv
<1>12. OrderInv'
  <2> SUFFICES ASSUME ~overtaken' PROVE OrderInv'
    BY DEF OrderInv
  <2>1. ~overtaken /\ \A id \in IdsOf(rows) : ~(id > l.id)
    BY <1>1
  <2>2. l.id <= seq /\ l.id \notin IdsOf(rows)
    BY <1>1, <2>1 DEF Inv, OrderInv
  <2>3. rows' = Append(rows, row)
    BY <1>1, <2>2
  <2>4. \A k \in DOMAIN rows : rows[k].id < l.id
    <3> SUFFICES ASSUME NEW k \in DOMAIN rows PROVE rows[k].id < l.id
      OBVIOUS
    <3>1. rows[k].id \in IdsOf(rows)
      BY DEF IdsOf
    <3>2. rows[k].id \in Nat /\ l.id \in Nat
      BY <1>2, <1>3, EntryTypes DEF Ids
    <3> QED
      BY <2>1, <2>2, <3>1, <3>2
  <2>5. /\ DOMAIN rows' = 1 .. Len(rows) + 1 /\ DOMAIN rows = 1 .. Len(rows) /\ Len(rows) \in Nat
        /\ \A k \in DOMAIN rows : rows'[k] = rows[k]
        /\ rows'[Len(rows) + 1].id = l.id
    BY <1>2, <1>3, <2>3, AppendEffect, EntryTypes
  <2>6. \A k, m \in DOMAIN rows' : k < m => rows'[k].id < rows'[m].id
    <3> SUFFICES ASSUME NEW k \in DOMAIN rows', NEW m \in DOMAIN rows', k < m
                 PROVE  rows'[k].id < rows'[m].id
      OBVIOUS
    <3>1. k \in DOMAIN rows
      BY <2>5
    <3>2. m \in DOMAIN rows \/ m = Len(rows) + 1
      BY <2>5
    <3> QED
      BY <2>1, <2>4, <2>5, <3>1, <3>2 DEF Inv, OrderInv
  <2>7. \A k \in DOMAIN rows' : rows'[k].id <= seq
    BY <2>1, <2>2, <2>5 DEF Inv, OrderInv
  <2>8. \A m \in launches' : m.pc = "saving" => m.id <= seq /\ m.id \notin IdsOf(rows')
    <3> SUFFICES ASSUME NEW m \in launches', m.pc = "saving"
                 PROVE  m.id <= seq /\ m.id \notin IdsOf(rows')
      OBVIOUS
    <3>1. m \in launches /\ m # l
      BY <1>1, <1>2
    <3>2. m.id # l.id
      <4>1. m \in Launch /\ l \in Launch
        BY <1>2, <3>1 DEF Inv, Shapes
      <4>2. m.pc = l.pc
        BY <1>1
      <4> QED
        BY <3>1, <4>1, <4>2 DEF Launch
    <3> QED
      BY <1>4, <2>1, <3>1, <3>2 DEF Inv, OrderInv
  <2>9. \A id \in Ids : created'[id] <= 1
    BY <1>5, <1>6, <2>1, <2>2 DEF Inv, OrderInv
  <2> QED
    BY <1>1, <2>6, <2>7, <2>8, <2>9 DEF OrderInv
<1>13. QuietInv'
  <2> SUFFICES ASSUME NEW id \in Ids, Claimed(id)'
               PROVE  created'[id] > 0 /\ (created'[id] = 1 => ~Stirring(id)')
    BY DEF QuietInv
  <2>1. Claimed(id)
    BY <1>1 DEF Claimed
  <2>2. created[id] > 0
    BY <2>1 DEF Inv, QuietInv
  <2>3. id # l.id /\ Stirring(id)' => Stirring(id)
    BY <1>1, <1>2 DEF Stirring
  <2> QED
    BY <1>7, <2>1, <2>2, <2>3, ClaimedIsQuiet
<1>14. EndedInv'
  <2>1. \A id \in Ids : id # l.id /\ Ended(rows, id) => Ended(rows', id)
    BY <1>4 DEF Ended
  <2>2. ASSUME NEW id \in Ids, Claimed(id), created'[id] = 1
        PROVE  id # l.id /\ created[id] = 1
    BY <1>7, <2>2 DEF Inv, QuietInv
  <2>3. ASSUME NEW w \in writes, w.orderly, created'[w.id] = 1
        PROVE  w.id \in IdsOf(instances) /\ (w.pc = "memory" => Ended(rows', w.id))
    <3>1. w.id \in Ids /\ Claimed(w.id)
      BY <2>3 DEF Claimed, Inv, Shapes, Write
    <3> QED
      BY <2>1, <2>2, <2>3, <3>1 DEF Inv, EndedInv
  <2>4. ASSUME NEW id \in final, created'[id] = 1
        PROVE  id \in IdsOf(instances) /\ Ended(rows', id) /\ Ended(instances, id)
    <3>1. id \in Ids /\ Claimed(id)
      BY DEF Claimed, Inv, Shapes
    <3> QED
      BY <2>1, <2>2, <2>4, <3>1 DEF Inv, EndedInv
  <2>5. EndedInv' <=>
          /\ \A w \in writes :
                w.orderly /\ created'[w.id] = 1 =>
                   w.id \in IdsOf(instances) /\ (w.pc = "memory" => Ended(rows', w.id))
          /\ \A id \in final :
                created'[id] = 1 => id \in IdsOf(instances) /\ Ended(rows', id) /\ Ended(instances, id)
    BY <1>1 DEF EndedInv, IdsOf, Ended
  <2> QED
    BY <2>3, <2>4, <2>5
<1>15. DestroyedStaysGone'
  <2> SUFFICES ASSUME NEW id \in destroyed, created'[id] = 1
               PROVE  id \notin rootfs \cup machines
    BY <1>1 DEF DestroyedStaysGone
  <2>1. id \in Ids /\ Claimed(id)
    BY DEF Claimed, Inv, Shapes
  <2>2. created[id] = 1
    BY <1>7, <2>1 DEF Inv, QuietInv
  <2> QED
    BY <2>2 DEF Inv, DestroyedStaysGone
<1> QED
  BY <1>9, <1>10, <1>11, <1>12, <1>13, <1>14, <1>15 DEF Inv

LEMMA AppendInstanceInv ==
    ASSUME Inv, NEW l \in launches, AppendInstance(l)
    PROVE  Inv'
<1> DEFINE row == [id |-> l.id, status |-> "provisioning"]
           c == [id |-> l.id, waited |-> TRUE]
<1>1. /\ l.pc = "appending"
      /\ launches' = launches \ {l}
      /\ instances' = Append(instances, row)
      /\ calls' = calls \cup {c}
      /\ UNCHANGED <<seq, rows, writes, patches, destroys, agentVars, historyVars>>
  BY DEF AppendInstance
<1>2. /\ l \in Launch /\ l.id \in Ids
      /\ row \in Instance /\ row.id = l.id
      /\ c \in Call /\ c.id = l.id
  BY DEF Inv, Shapes, Launch, Instance, Status, Call
<1> HIDE DEF row, c
<1>3. instances \in Seq(Instance) /\ created \in [Ids -> Nat]
  BY DEF Inv, Shapes
<1>4. /\ instances' \in Seq(Instance)
      /\ \A k \in DOMAIN instances : k \in DOMAIN instances' /\ instances'[k] = instances[k]
      /\ \A k \in DOMAIN instances' :
             (k \in DOMAIN instances /\ instances'[k] = instances[k])
             \/ (k = Len(instances) + 1 /\ instances'[k].id = l.id)
      /\ IdsOf(instances') = IdsOf(instances) \cup {l.id}
  BY <1>1, <1>2, <1>3, AppendEffect
<1>5. created[l.id] > 0 /\ (created[l.id] = 1 => l.id \notin IdsOf(instances))
  BY <1>1 DEF Inv, TableInv, ListInv
<1> USE DEF agentVars, historyVars
<1>6. Shapes'
  BY <1>1, <1>2, <1>4 DEF Inv, Shapes
<1>7. TableInv'
  BY <1>1, <1>4, <1>5 DEF Inv, TableInv, IdsOf
<1>8. ListInv'
  <2>1. \A k, m \in DOMAIN instances' :
            instances'[k].id = instances'[m].id /\ created[instances'[k].id] = 1 => k = m
    <3>1. created[l.id] = 1 => \A k \in DOMAIN instances : instances[k].id # l.id
      BY <1>5 DEF IdsOf
    <3> QED
      BY <1>4, <3>1 DEF Inv, ListInv
  <2>2. ASSUME NEW m \in launches', m.pc = "appending", created[m.id] = 1
        PROVE  m.id \notin IdsOf(instances')
    <3>1. m \in launches /\ m # l
      BY <1>1, <2>2
    <3>2. m.id # l.id
      BY <1>1, <2>2, <3>1 DEF Inv, Shapes, Launch
    <3> QED
      BY <1>4, <2>2, <3>1, <3>2 DEF Inv, ListInv
  <2> QED
    BY <1>1, <2>1, <2>2 DEF ListInv
<1>9. OrderInv'
  BY <1>1 DEF Inv, OrderInv, IdsOf
<1>10. \A id \in Ids : Claimed(id)' <=> Claimed(id)
  BY <1>1 DEF Claimed
<1>11. QuietInv'
  <2>1. \A id \in Ids : Stirring(id)' => Stirring(id)
    BY <1>1, <1>2 DEF Stirring
  <2> QED
    BY <1>1, <1>10, <2>1, QuietStays
<1>12. EndedInv'
  <2>1. \A w \in writes : w.orderly /\ created[w.id] = 1 =>
            w.id \in IdsOf(instances') /\ (w.pc = "memory" => Ended(rows, w.id))
    BY <1>4 DEF Inv, EndedInv
  <2>2. ASSUME NEW id \in final, created[id] = 1
        PROVE  id \in IdsOf(instances') /\ Ended(rows, id) /\ Ended(instances', id)
    <3>1. id \in Ids /\ Claimed(id)
      BY DEF Claimed, Inv, Shapes
    <3>2. id # l.id
      BY <1>1, <2>2, <3>1, ClaimedIsQuiet DEF Stirring
    <3>3. id \in IdsOf(instances) /\ Ended(rows, id) /\ Ended(instances, id)
      BY <2>2 DEF Inv, EndedInv
    <3> QED
      BY <1>4, <3>2, <3>3 DEF Ended
  <2>3. EndedInv' <=>
          /\ \A w \in writes : w.orderly /\ created[w.id] = 1 =>
                w.id \in IdsOf(instances') /\ (w.pc = "memory" => Ended(rows, w.id))
          /\ \A id \in final : created[id] = 1 =>
                id \in IdsOf(instances') /\ Ended(rows, id) /\ Ended(instances', id)
    BY <1>1 DEF EndedInv, IdsOf, Ended
  <2> QED
    BY <2>1, <2>2, <2>3
<1>13. DestroyedStaysGone'
  BY <1>1 DEF Inv, DestroyedStaysGone
<1> QED
  BY <1>6, <1>7, <1>8, <1>9, <1>11, <1>12, <1>13 DEF Inv

\* The agent's steps, and the calls it makes and gets, touch neither tables nor
\* numbers; they are safe as long as they neither claim nor stir anew.
LEMMA AgentStep ==
    ASSUME Inv, Shapes',
           UNCHANGED <<seq, launches, rows, instances, created, overtaken, final>>,
           \A w \in writes' : w.orderly => w \in writes,
           \A id \in Ids : Claimed(id)' => Claimed(id),
           \A id \in Ids : Stirring(id)' => Stirring(id),
           DestroyedStaysGone'
    PROVE  Inv'
<1>1. TableInv' /\ ListInv' /\ OrderInv'
  BY TablesStay
<1>2. QuietInv'
  BY QuietStays
<1>3. EndedInv'
  BY DEF Inv, EndedInv, Ended, IdsOf
<1> QED
  BY <1>1, <1>2, <1>3 DEF Inv

LEMMA ProvisionCallInv ==
    ASSUME Inv, NEW c \in calls, ProvisionCall(c)
    PROVE  Inv'
<1> DEFINE t == [id |-> c.id, pc |-> "checking", owned |-> TRUE]
           w == [id |-> c.id, status |-> "failed", pc |-> "db", orderly |-> FALSE]
<1>1. /\ calls' = calls \ {c}
      /\ threads' = threads \/ threads' = threads \cup {t}
      /\ writes' = writes \/ writes' = writes \cup {w}
      /\ UNCHANGED <<seq, launches, rows, instances, patches, destroys,
                     destroying, rootfs, machines, historyVars>>
  BY DEF ProvisionCall, Begin
<1>2. /\ c.id \in Ids
      /\ t \in Thread /\ t.id = c.id
      /\ w \in Write /\ w.id = c.id /\ ~w.orderly /\ w.status # "terminated"
  BY DEF Inv, Shapes, Call, Thread, Write, Status
<1> HIDE DEF t, w
<1> USE DEF historyVars
<1>3. Shapes'
  BY <1>1, <1>2 DEF Inv, Shapes
<1>4. \A v \in writes' : v \in writes \/ v = w
  BY <1>1
<1>5. \A id \in Ids : Claimed(id)' => Claimed(id)
  BY <1>1, <1>2, <1>4 DEF Claimed
<1>6. \A id \in Ids : Stirring(id)' => Stirring(id)
  <2> SUFFICES ASSUME NEW id \in Ids, Stirring(id)' PROVE Stirring(id)
    OBVIOUS
  <2>1. \A x \in calls' \cup threads' \cup patches' : x \in calls \cup threads \cup patches \/ x.id = c.id
    BY <1>1, <1>2
  <2>2. \A v \in writes' : v \in writes \/ v.id = c.id
    BY <1>2, <1>4
  <2>3. CASE id = c.id
    BY <2>3 DEF Stirring
  <2> QED
    BY <1>1, <2>1, <2>2, <2>3 DEF Stirring
<1>7. DestroyedStaysGone'
  BY <1>1 DEF Inv, DestroyedStaysGone
<1> QED
  BY <1>1, <1>2, <1>3, <1>4, <1>5, <1>6, <1>7, AgentStep

\* A thread goes on for its instance, or ends and reports it.
LEMMA ThreadStep ==
    ASSUME Inv, NEW t \in threads,
           \/ \E s \in {"running", "failed"} : Finish(t, s)
           \/ \E pc \in {"copying", "booting"} :
                 threads' = (threads \ {t}) \cup {[t EXCEPT !.pc = pc]} /\ UNCHANGED patches,
           rootfs' \subseteq rootfs \cup {t.id}, machines' \subseteq machines \cup {t.id},
           UNCHANGED <<registryVars, calls, destroys, destroying, historyVars>>
    PROVE  Inv'
<1>1. t \in Thread /\ t.id \in Ids
  BY DEF Inv, Shapes, Thread
<1>2. \A pc \in {"copying", "booting"} :
          [t EXCEPT !.pc = pc] \in Thread /\ [t EXCEPT !.pc = pc].id = t.id
  BY <1>1 DEF Thread
<1>3. \A s \in {"running", "failed"} : /\ [id |-> t.id, status |-> s] \in Patch
                                       /\ [id |-> t.id, status |-> s].id = t.id
  BY <1>1 DEF Patch
<1>4. /\ threads' \subseteq Thread /\ patches' \subseteq Patch
      /\ \A x \in threads' : x \in threads \/ x.id = t.id
      /\ \A x \in patches' : x \in patches \/ x.id = t.id
  <2>1. CASE \E s \in {"running", "failed"} : Finish(t, s)
    BY <1>3, <2>1 DEF Finish, Inv, Shapes
  <2>2. CASE \E pc \in {"copying", "booting"} :
                 threads' = (threads \ {t}) \cup {[t EXCEPT !.pc = pc]} /\ UNCHANGED patches
    BY <1>2, <2>2 DEF Inv, Shapes
  <2> QED
    BY <2>1, <2>2
<1> USE DEF registryVars, historyVars
<1>5. Shapes'
  BY <1>1, <1>4 DEF Inv, Shapes
<1>6. \A id \in Ids : Claimed(id)' => Claimed(id)
  BY DEF Claimed
<1>7. \A id \in Ids : Stirring(id)' => Stirring(id)
  BY <1>4 DEF Stirring
<1>8. DestroyedStaysGone'
  <2> SUFFICES ASSUME NEW id \in destroyed, created[id] = 1
               PROVE  id \notin rootfs' \cup machines'
    BY DEF DestroyedStaysGone
  <2>1. id \in Ids /\ Claimed(id)
    BY DEF Claimed, Inv, Shapes
  <2>2. id # t.id
    BY <2>1, ClaimedIsQuiet DEF Stirring
  <2> QED
    BY <2>2 DEF Inv, DestroyedStaysGone
<1> QED
  BY <1>5, <1>6, <1>7, <1>8, AgentStep

LEMMA CheckRootfsInv ==
    ASSUME Inv, NEW t \in threads, CheckRootfs(t)
    PROVE  Inv'
<1>1. \/ \E s \in {"running", "failed"} : Finish(t, s)
      \/ \E pc \in {"copying", "booting"} :
             threads' = (threads \ {t}) \cup {[t EXCEPT !.pc = pc]} /\ UNCHANGED patches
  BY DEF CheckRootfs
<1>2. /\ rootfs' \subseteq rootfs \cup {t.id} /\ machines' \subseteq machines \cup {t.id}
      /\ UNCHANGED <<registryVars, calls, destroys, destroying, historyVars>>
  BY DEF CheckRootfs
<1> QED
  BY <1>1, <1>2, ThreadStep

LEMMA CopyRootfsInv ==
    ASSUME Inv, NEW t \in threads, CopyRootfs(t)
    PROVE  Inv'
<1>1. \/ \E s \in {"running", "failed"} : Finish(t, s)
      \/ \E pc \in {"copying", "booting"} :
             threads' = (threads \ {t}) \cup {[t EXCEPT !.pc = pc]} /\ UNCHANGED patches
  BY DEF CopyRootfs
<1>2. /\ rootfs' \subseteq rootfs \cup {t.id} /\ machines' \subseteq machines \cup {t.id}
      /\ UNCHANGED <<registryVars, calls, destroys, destroying, historyVars>>
  BY DEF CopyRootfs
<1> QED
  BY <1>1, <1>2, ThreadStep

LEMMA BootInv ==
    ASSUME Inv, NEW t \in threads, Boot(t)
    PROVE  Inv'
<1>1. \E s \in {"running", "failed"} : Finish(t, s)
  BY DEF Boot
<1>2. /\ rootfs' \subseteq rootfs \cup {t.id} /\ machines' \subseteq machines \cup {t.id}
      /\ UNCHANGED <<registryVars, calls, destroys, destroying, historyVars>>
  BY DEF Boot
<1> QED
  BY <1>1, <1>2, ThreadStep

LEMMA PatchInstanceInv ==
    ASSUME Inv, NEW p \in patches, PatchInstance(p)
    PROVE  Inv'
<1> DEFINE w == [id |-> p.id, status |-> p.status, pc |-> "db", orderly |-> FALSE]
<1>1. /\ patches' = patches \ {p}
      /\ writes' = writes \/ writes' = writes \cup {w}
      /\ UNCHANGED <<seq, launches, rows, instances, calls, destroys, agentVars, historyVars>>
  BY DEF PatchInstance, Begin
<1>2. /\ p.id \in Ids
      /\ w \in Write /\ w.id = p.id /\ ~w.orderly /\ w.status # "terminated"
  BY DEF Inv, Shapes, Patch, Write, Status
<1> HIDE DEF w
<1> USE DEF agentVars, historyVars
<1>3. Shapes'
  BY <1>1, <1>2 DEF Inv, Shapes
<1>4. \A v \in writes' : v \in writes \/ v = w
  BY <1>1
<1>5. \A id \in Ids : Claimed(id)' => Claimed(id)
  BY <1>1, <1>2, <1>4 DEF Claimed
<1>6. \A id \in Ids : Stirring(id)' => Stirring(id)
  BY <1>1, <1>2, <1>4 DEF Stirring
<1>7. DestroyedStaysGone'
  BY <1>1 DEF Inv, DestroyedStaysGone
<1> QED
  BY <1>1, <1>2, <1>3, <1>4, <1>5, <1>6, <1>7, AgentStep

LEMMA DestroyCallInv ==
    ASSUME Inv, NEW d \in destroys, DestroyCall(d)
    PROVE  Inv'
<1> USE DEF registryVars, historyVars
<1>1. /\ destroys' \subseteq destroys /\ destroying' \subseteq destroying \cup {d}
      /\ UNCHANGED <<registryVars, calls, patches, threads, rootfs, machines, historyVars>>
  BY DEF DestroyCall
<1>2. Shapes'
  BY <1>1 DEF Inv, Shapes
<1>3. \A id \in Ids : Claimed(id)' => Claimed(id)
  BY <1>1 DEF Claimed
<1>4. \A id \in Ids : Stirring(id)' => Stirring(id)
  BY <1>1 DEF Stirring
<1>5. DestroyedStaysGone'
  BY <1>1 DEF Inv, DestroyedStaysGone
<1> QED
  BY <1>1, <1>2, <1>3, <1>4, <1>5, AgentStep

LEMMA DestroyInstanceInv ==
    ASSUME Inv, NEW d \in destroying, DestroyInstance(d)
    PROVE  Inv'
<1> USE DEF registryVars, wireVars
<1>1. /\ destroying' \subseteq destroying
      /\ machines' \subseteq machines /\ rootfs' \subseteq rootfs
      /\ \/ destroyed' = destroyed
         \/ /\ d.orderly /\ d.id \notin rootfs' \cup machines'
            /\ destroyed' = destroyed \cup {d.id}
      /\ UNCHANGED <<registryVars, wireVars, threads, created, overtaken, final>>
  BY DEF DestroyInstance
<1>2. d.id \in Ids /\ (d.orderly => Claimed(d.id))
  BY DEF Inv, Shapes, Destroy, Claimed
<1>3. Shapes'
  BY <1>1, <1>2 DEF Inv, Shapes
<1>4. \A id \in Ids : Claimed(id)' => Claimed(id)
  BY <1>1 DEF Claimed
<1>5. \A id \in Ids : Stirring(id)' => Stirring(id)
  BY <1>1 DEF Stirring
<1>6. DestroyedStaysGone'
  BY <1>1 DEF Inv, DestroyedStaysGone
<1> QED
  BY <1>1, <1>3, <1>4, <1>5, <1>6, AgentStep

LEMMA AgentCrashInv ==
    ASSUME Inv, AgentCrash
    PROVE  Inv'
<1> USE DEF registryVars, wireVars, historyVars
<1>1. /\ threads' \subseteq Thread
      /\ \A x \in threads' : \E t \in threads : x.id = t.id
  <2>1. PICK left \in SUBSET {t \in threads : t.pc # "checking"} :
                 threads' = {[t EXCEPT !.owned = FALSE] : t \in left}
    BY DEF AgentCrash
  <2>2. \A t \in Thread : [t EXCEPT !.owned = FALSE] \in Thread /\ [t EXCEPT !.owned = FALSE].id = t.id
    BY DEF Thread
  <2> QED
    BY <2>1, <2>2 DEF Inv, Shapes
<1>2. /\ machines' \subseteq machines /\ destroying' = {}
      /\ UNCHANGED <<registryVars, wireVars, rootfs, historyVars>>
  BY DEF AgentCrash
<1>3. Shapes'
  BY <1>1, <1>2 DEF Inv, Shapes
<1>4. \A id \in Ids : Claimed(id)' => Claimed(id)
  BY <1>2 DEF Claimed
<1>5. \A id \in Ids : Stirring(id)' => Stirring(id)
  BY <1>1, <1>2 DEF Stirring
<1>6. DestroyedStaysGone'
  BY <1>2 DEF Inv, DestroyedStaysGone
<1> QED
  BY <1>2, <1>3, <1>4, <1>5, <1>6, AgentStep

LEMMA TerminateInstanceInv ==
    ASSUME Inv, NEW id \in Ids, TerminateInstance(id)
    PROVE  Inv'
<1> DEFINE w == [id |-> id, status |-> "terminated", pc |-> "db", orderly |-> ~Provisioning(id)]
<1>1. /\ id \in IdsOf(instances)
      /\ writes' = writes \cup {w}
      /\ UNCHANGED <<seq, launches, rows, instances, wireVars, agentVars, historyVars>>
  BY DEF TerminateInstance, Begin
<1>2. /\ w \in Write /\ w.id = id /\ w.status = "terminated" /\ w.pc = "db"
      /\ w.orderly => ~Provisioning(id)
  <2>1. Provisioning(id) \in BOOLEAN
    BY DEF Provisioning
  <2> QED
    BY <2>1 DEF Write, Status
<1>3. w.orderly => ~Stirring(id)
  BY <1>2 DEF Provisioning, Stirring
<1> HIDE DEF w
<1> USE DEF wireVars, agentVars, historyVars
<1>4. Shapes'
  BY <1>1, <1>2 DEF Inv, Shapes
<1>5. TableInv' /\ ListInv' /\ OrderInv'
  BY <1>1, TablesStay
<1>6. QuietInv'
  <2> SUFFICES ASSUME NEW i \in Ids, Claimed(i)'
               PROVE  created[i] > 0 /\ (created[i] = 1 => ~Stirring(i)')
    BY <1>1 DEF QuietInv
  <2>1. Stirring(i)' => Stirring(i)
    BY <1>1, <1>2 DEF Stirring
  <2>2. CASE Claimed(i)
    BY <2>1, <2>2 DEF Inv, QuietInv
  <2>3. CASE ~Claimed(i)
    <3>1. i = id /\ w.orderly
      BY <1>1, <1>2, <2>3 DEF Claimed
    <3>2. created[id] > 0
      BY <1>1 DEF Inv, TableInv, IdsOf
    <3> QED
      BY <1>3, <2>1, <3>1, <3>2
  <2> QED
    BY <2>2, <2>3
<1>7. EndedInv'
  BY <1>1, <1>2 DEF Inv, EndedInv, Ended, IdsOf
<1>8. DestroyedStaysGone'
  BY <1>1 DEF Inv, DestroyedStaysGone
<1> QED
  BY <1>4, <1>5, <1>6, <1>7, <1>8 DEF Inv

\* Writing the status of an id that has ended leaves it ended, as whoever
\* writes it then writes the end.
LEMMA EndedStays ==
    ASSUME NEW table \in Seq(Instance), NEW w \in Write, NEW id \in Ids, Ended(table, id),
           w.id = id => w.status = "terminated"
    PROVE  Ended(WithStatus(table, w.id, w.status), id)
<1>1. w.status \in Status
  BY DEF Write
<1> QED
  BY <1>1, StatusEffect DEF Ended

LEMMA WriteRowInv ==
    ASSUME Inv, NEW w \in writes, WriteRow(w)
    PROVE  Inv'
<1> DEFINE v == [w EXCEPT !.pc = "memory"]
<1>1. /\ w.pc = "db"
      /\ writes' = (writes \ {w}) \cup {v}
      /\ rows' = WithStatus(rows, w.id, w.status)
      /\ UNCHANGED <<seq, launches, instances, wireVars, agentVars, historyVars>>
  BY DEF WriteRow
<1>2. /\ w \in Write /\ w.id \in Ids /\ w.status \in Status
      /\ w.orderly => w.status = "terminated"
      /\ v \in Write /\ v.id = w.id /\ v.status = w.status /\ v.orderly = w.orderly
  BY DEF Inv, Shapes, Write
<1> HIDE DEF v
<1> USE DEF wireVars, agentVars, historyVars
<1>3. rows \in Seq(Instance)
  BY DEF Inv, Shapes
<1>4. /\ rows' \in Seq(Instance) /\ DOMAIN rows' = DOMAIN rows /\ IdsOf(rows') = IdsOf(rows)
      /\ \A k \in DOMAIN rows : rows'[k].id = rows[k].id
      /\ \A k \in DOMAIN rows : rows[k].id = w.id => rows'[k].status = w.status
  BY <1>1, <1>2, <1>3, StatusEffect DEF Inv, TableInv
<1>5. Shapes'
  BY <1>1, <1>2, <1>4 DEF Inv, Shapes
<1>6. TableInv'
  <2>1. \A k, m \in DOMAIN rows' : rows'[k].id = rows'[m].id => k = m
    BY <1>4 DEF Inv, TableInv
  <2>2. \A i \in Ids : created[i] > 0 <=> i \in IdsOf(rows')
    BY <1>4 DEF Inv, TableInv
  <2> QED
    BY <1>1, <2>1, <2>2 DEF Inv, TableInv
<1>7. ListInv'
  BY <1>1 DEF Inv, ListInv, IdsOf
<1>8. OrderInv'
  <2> SUFFICES ASSUME ~overtaken PROVE OrderInv'
    BY <1>1 DEF OrderInv
  <2>1. /\ \A k, m \in DOMAIN rows' : k < m => rows'[k].id < rows'[m].id
        /\ \A k \in DOMAIN rows' : rows'[k].id <= seq
    BY <1>4 DEF Inv, OrderInv
  <2>2. \A l \in launches : l.pc = "saving" => l.id <= seq /\ l.id \notin IdsOf(rows')
    BY <1>4 DEF Inv, OrderInv
  <2> QED
    BY <1>1, <2>1, <2>2 DEF Inv, OrderInv
<1>9. QuietInv'
  <2>1. \A i \in Ids : Claimed(i)' => Claimed(i)
    BY <1>1, <1>2 DEF Claimed
  <2>2. \A i \in Ids : Stirring(i)' => Stirring(i)
    BY <1>1, <1>2 DEF Stirring
  <2> QED
    BY <1>1, <2>1, <2>2, QuietStays
<1>10. \A i \in Ids : Claimed(i) /\ created[i] = 1 /\ w.id = i => w.status = "terminated"
  BY ClaimedIsQuiet DEF Stirring
<1>11. EndedInv'
  <2>1. ASSUME NEW u \in writes', u.orderly, created[u.id] = 1
        PROVE  u.id \in IdsOf(instances) /\ (u.pc = "memory" => Ended(rows', u.id))
    <3>1. CASE u = v
      <4>1. w.status = "terminated"
        BY <1>2, <2>1, <3>1
      <4>2. Ended(rows', w.id)
        BY <1>4, <4>1 DEF Ended
      <4>3. w.id \in IdsOf(instances)
        BY <1>2, <2>1, <3>1 DEF Inv, EndedInv
      <4> QED
        BY <1>2, <3>1, <4>2, <4>3
    <3>2. CASE u \in writes
      <4>1. u.id \in Ids /\ Claimed(u.id)
        BY <2>1, <3>2 DEF Claimed, Inv, Shapes, Write
      <4>2. u.id \in IdsOf(instances) /\ (u.pc = "memory" => Ended(rows, u.id))
        BY <2>1, <3>2 DEF Inv, EndedInv
      <4> QED
        BY <1>1, <1>2, <1>3, <1>10, <2>1, <4>1, <4>2, EndedStays
    <3> QED
      BY <1>1, <3>1, <3>2
  <2>2. ASSUME NEW i \in final, created[i] = 1
        PROVE  i \in IdsOf(instances) /\ Ended(rows', i) /\ Ended(instances, i)
    <3>1. i \in Ids /\ Claimed(i)
      BY DEF Claimed, Inv, Shapes
    <3>2. i \in IdsOf(instances) /\ Ended(rows, i) /\ Ended(instances, i)
      BY <2>2 DEF Inv, EndedInv
    <3> QED
      BY <1>1, <1>2, <1>3, <1>10, <2>2, <3>1, <3>2, EndedStays
  <2>3. EndedInv' <=>
          /\ \A u \in writes' : u.orderly /\ created[u.id] = 1 =>
                u.id \in IdsOf(instances) /\ (u.pc = "memory" => Ended(rows', u.id))
          /\ \A i \in final : created[i] = 1 =>
                i \in IdsOf(instances) /\ Ended(rows', i) /\ Ended(instances, i)
    BY <1>1 DEF EndedInv, IdsOf, Ended
  <2> QED
    BY <2>1, <2>2, <2>3
<1>12. DestroyedStaysGone'
  BY <1>1 DEF Inv, DestroyedStaysGone
<1> QED
  BY <1>5, <1>6, <1>7, <1>8, <1>9, <1>11, <1>12 DEF Inv

LEMMA WriteMemoryInv ==
    ASSUME Inv, NEW w \in writes, WriteMemory(w)
    PROVE  Inv'
<1> DEFINE d == [id |-> w.id, orderly |-> w.orderly]
<1>1. /\ w.pc = "memory"
      /\ writes' = writes \ {w}
      /\ instances' = WithStatus(instances, w.id, w.status)
      /\ final' = IF w.orderly THEN final \cup {w.id} ELSE final
      /\ destroys' = destroys \/ destroys' = destroys \cup {d}
      /\ UNCHANGED <<seq, launches, rows, calls, patches, agentVars,
                     created, overtaken, destroyed>>
  BY DEF WriteMemory
<1>2. /\ w \in Write /\ w.id \in Ids /\ w.status \in Status
      /\ w.orderly => w.status = "terminated"
      /\ d \in Destroy /\ d.id = w.id /\ d.orderly = w.orderly
  BY DEF Inv, Shapes, Write, Destroy
<1> HIDE DEF d
<1> USE DEF agentVars
<1>3. instances \in Seq(Instance)
  BY DEF Inv, Shapes
<1>4. /\ instances' \in Seq(Instance) /\ DOMAIN instances' = DOMAIN instances
      /\ IdsOf(instances') = IdsOf(instances)
      /\ \A k \in DOMAIN instances : instances'[k].id = instances[k].id
      /\ created[w.id] = 1 =>
             \A k \in DOMAIN instances : instances[k].id = w.id => instances'[k].status = w.status
  BY <1>1, <1>2, <1>3, StatusEffect DEF Inv, ListInv
<1>5. Shapes'
  BY <1>1, <1>2, <1>4 DEF Inv, Shapes
<1>6. TableInv'
  <2>1. \A k \in DOMAIN instances' : created[instances'[k].id] > 0
    BY <1>4 DEF Inv, TableInv
  <2> QED
    BY <1>1, <2>1 DEF Inv, TableInv, IdsOf
<1>7. ListInv'
  <2>1. \A k, m \in DOMAIN instances' :
            instances'[k].id = instances'[m].id /\ created[instances'[k].id] = 1 => k = m
    BY <1>4 DEF Inv, ListInv
  <2>2. \A l \in launches : l.pc = "appending" /\ created[l.id] = 1 => l.id \notin IdsOf(instances')
    BY <1>4 DEF Inv, ListInv
  <2> QED
    BY <1>1, <2>1, <2>2 DEF ListInv
<1>8. OrderInv'
  BY <1>1 DEF Inv, OrderInv, IdsOf
<1>9. w.orderly => Claimed(w.id)
  BY DEF Claimed
<1>10. \A i \in Ids : Claimed(i)' => Claimed(i)
  <2> SUFFICES ASSUME NEW i \in Ids, Claimed(i)' PROVE Claimed(i)
    OBVIOUS
  <2>1. CASE i = w.id /\ w.orderly
    BY <1>9, <2>1
  <2>2. CASE ~(i = w.id /\ w.orderly)
    BY <1>1, <1>2, <2>2 DEF Claimed
  <2> QED
    BY <2>1, <2>2
<1>11. QuietInv'
  <2>1. \A i \in Ids : Stirring(i)' => Stirring(i)
    BY <1>1 DEF Stirring
  <2> QED
    BY <1>1, <1>10, <2>1, QuietStays
<1>12. EndedInv'
  <2>1. \A u \in writes' : u.orderly /\ created[u.id] = 1 =>
            u.id \in IdsOf(instances') /\ (u.pc = "memory" => Ended(rows, u.id))
    BY <1>1, <1>4 DEF Inv, EndedInv
  <2>2. ASSUME NEW i \in final', created[i] = 1
        PROVE  i \in IdsOf(instances') /\ Ended(rows, i) /\ Ended(instances', i)
    <3>1. CASE i \in final
      <4>1. i \in Ids /\ Claimed(i)
        BY <3>1 DEF Claimed, Inv, Shapes
      <4>2. w.id = i => w.status = "terminated"
        BY <2>2, <4>1, ClaimedIsQuiet DEF Stirring
      <4>3. i \in IdsOf(instances) /\ Ended(rows, i) /\ Ended(instances, i)
        BY <2>2, <3>1 DEF Inv, EndedInv
      <4> QED
        BY <1>1, <1>2, <1>3, <1>4, <4>1, <4>2, <4>3, EndedStays
    <3>2. CASE i = w.id /\ w.orderly
      <4>1. w.id \in IdsOf(instances) /\ Ended(rows, w.id)
        BY <1>1, <2>2, <3>2 DEF Inv, EndedInv
      <4>2. Ended(instances', w.id)
        BY <1>2, <1>4, <2>2, <3>2 DEF Ended
      <4> QED
        BY <1>4, <3>2, <4>1, <4>2
    <3> QED
      BY <1>1, <3>1, <3>2
  <2>3. EndedInv' <=>
          /\ \A u \in writes' : u.orderly /\ created[u.id] = 1 =>
                u.id \in IdsOf(instances') /\ (u.pc = "memory" => Ended(rows, u.id))
          /\ \A i \in final' : created[i] = 1 =>
                i \in IdsOf(instances') /\ Ended(rows, i) /\ Ended(instances', i)
    BY <1>1 DEF EndedInv, IdsOf, Ended
  <2> QED
    BY <2>1, <2>2, <2>3
<1>13. DestroyedStaysGone'
  BY <1>1 DEF Inv, DestroyedStaysGone
<1> QED
  BY <1>5, <1>6, <1>7, <1>8, <1>11, <1>12, <1>13 DEF Inv

\* The last row has the highest number while no save was overtaken.
LEMMA RegistryRestartInv ==
    ASSUME Inv, RegistryRestart
    PROVE  Inv'
<1>1. /\ seq' = LastNumber
      /\ instances' = rows
      /\ launches' = {} /\ writes' = {}
      /\ calls' = {[c EXCEPT !.waited = FALSE] : c \in calls}
      /\ UNCHANGED <<rows, patches, destroys, agentVars, historyVars>>
  BY DEF RegistryRestart
<1>2. /\ calls' \subseteq Call
      /\ \A x \in calls' : \E c \in calls : x.id = c.id
  <2>1. \A c \in Call : [c EXCEPT !.waited = FALSE] \in Call /\ [c EXCEPT !.waited = FALSE].id = c.id
    BY DEF Call
  <2> QED
    BY <1>1, <2>1 DEF Inv, Shapes
<1>3. /\ rows \in Seq(Instance)
      /\ Len(rows) \in Nat /\ DOMAIN rows = 1 .. Len(rows)
      /\ \A k \in DOMAIN rows : rows[k].id \in Ids
  BY EntryTypes DEF Inv, Shapes
<1>4. /\ rows = <<>> => LastNumber = 0
      /\ rows # <<>> => Len(rows) \in DOMAIN rows /\ LastNumber = rows[Len(rows)].id
  BY <1>3 DEF LastNumber
<1> USE DEF agentVars, historyVars
<1>5. Shapes'
  <2>1. LastNumber \in 0 .. MaxSeq
    BY <1>3, <1>4, InstancesConstants DEF Ids
  <2> QED
    BY <1>1, <1>2, <1>3, <2>1 DEF Inv, Shapes
<1>6. TableInv'
  <2>1. \A k \in DOMAIN rows : rows[k].id \in IdsOf(rows)
    BY DEF IdsOf
  <2>2. \A k \in DOMAIN rows : created[rows[k].id] > 0
    BY <1>3, <2>1 DEF Inv, TableInv
  <2> QED
    BY <1>1, <2>2 DEF Inv, TableInv, IdsOf
<1>7. ListInv'
  BY <1>1 DEF Inv, TableInv, ListInv
<1>8. OrderInv'
  <2> SUFFICES ASSUME ~overtaken PROVE OrderInv'
    BY <1>1 DEF OrderInv
  <2>1. \A k \in DOMAIN rows : rows[k].id <= LastNumber
    <3> SUFFICES ASSUME NEW k \in DOMAIN rows PROVE rows[k].id <= LastNumber
      OBVIOUS
    <3>1. rows # <<>>
      BY <1>3
    <3>2. k = Len(rows) \/ k < Len(rows)
      BY <1>3
    <3>3. rows[k].id \in Nat
      BY <1>3 DEF Ids
    <3>4. k < Len(rows) => rows[k].id < rows[Len(rows)].id
      BY <1>4, <3>1 DEF Inv, OrderInv
    <3>5. rows[Len(rows)].id \in Nat
      BY <1>3, <1>4, <3>1 DEF Ids
    <3> QED
      BY <1>4, <3>1, <3>2, <3>3, <3>4, <3>5
  <2> QED
    BY <1>1, <2>1 DEF Inv, OrderInv
<1>9. \A i \in Ids : Claimed(i)' => Claimed(i)
  BY <1>1 DEF Claimed
<1>10. QuietInv'
  <2>1. \A i \in Ids : Stirring(i)' => Stirring(i)
    BY <1>1, <1>2 DEF Stirring
  <2> QED
    BY <1>1, <1>9, <2>1, QuietStays
<1>11. EndedInv'
  <2>1. ASSUME NEW i \in final, created[i] = 1
        PROVE  i \in IdsOf(rows) /\ Ended(rows, i)
    <3>1. i \in Ids
      BY DEF Inv, Shapes
    <3> QED
      BY <2>1, <3>1 DEF Inv, EndedInv, TableInv
  <2>2. EndedInv' <=> \A i \in final : created[i] = 1 => i \in IdsOf(rows) /\ Ended(rows, i)
    BY <1>1 DEF EndedInv, IdsOf, Ended
  <2> QED
    BY <2>1, <2>2
<1>12. DestroyedStaysGone'
  BY <1>1 DEF Inv, DestroyedStaysGone
<1> QED
  BY <1>5, <1>6, <1>7, <1>8, <1>10, <1>11, <1>12 DEF Inv

LEMMA NextInv == Inv /\ [Next]_vars => Inv'
<1> SUFFICES ASSUME Inv, [Next]_vars PROVE Inv'
  OBVIOUS
<1>1. CASE UNCHANGED vars
  BY <1>1 DEF vars, registryVars, wireVars, agentVars, historyVars, Inv, Shapes, TableInv, ListInv,
      OrderInv, QuietInv, Claimed, Stirring, EndedInv, Ended, IdsOf, DestroyedStaysGone
<1>2. CASE Next
  BY <1>2, TakeNumberInv, SaveInstanceInv, AppendInstanceInv, ProvisionCallInv, CheckRootfsInv,
     CopyRootfsInv, BootInv, PatchInstanceInv, TerminateInstanceInv, WriteRowInv, WriteMemoryInv,
     DestroyCallInv, DestroyInstanceInv, AgentCrashInv, RegistryRestartInv DEF Next
<1> QED
  BY <1>1, <1>2

LEMMA InstancesInvariant == Spec => []Inv
BY InitInv, NextInv, PTL DEF Spec

-----------------------------------------------------------------------------
\* A number is given out twice only after a save was overtaken: the order of
\* the rows, and not a crash, decides what NewInstanceStore reads.
THEOREM NumbersRepeatOnlyOvertaken == Spec => []ReuseNeedsOvertaking
<1>1. Inv => ReuseNeedsOvertaking
  <2> SUFFICES ASSUME Inv, ~overtaken PROVE \A id \in Ids : ~(created[id] > 1)
    BY DEF ReuseNeedsOvertaking
  <2>1. \A id \in Ids : created[id] \in Nat /\ created[id] <= 1
    BY DEF Inv, Shapes, OrderInv
  <2> QED
    BY <2>1
<1> QED
  BY <1>1, InstancesInvariant, PTL

\* What a client was told about the end of its instance stays so, in memory
\* and in the database, whatever crashes and whatever is lost.
THEOREM TerminationsStand == Spec => []TerminatedIsFinal
<1>1. Inv => TerminatedIsFinal
  <2> SUFFICES ASSUME Inv, NEW id \in final, created[id] = 1
               PROVE  /\ id \in IdsOf(rows) \cap IdsOf(instances)
                      /\ Ended(rows, id) /\ Ended(instances, id)
    BY DEF TerminatedIsFinal, Ended
  <2>1. id \in Ids
    BY DEF Inv, Shapes
  <2> QED
    BY <2>1 DEF Inv, EndedInv, TableInv
<1> QED
  BY <1>1, InstancesInvariant, PTL

\* A container and a disk that the agent removed after an orderly termination
\* are not brought back by a thread, a late call or a command left behind.
THEOREM DestructionsStand == Spec => []DestroyedStaysGone
<1>1. Inv => DestroyedStaysGone
  BY DEF Inv
<1> QED
  BY <1>1, InstancesInvariant, PTL

-----------------------------------------------------------------------------
(* How long the two lists get.                                             *)

\* The places at which an instance is listed.
Places(id) == {k \in DOMAIN instances : instances[k].id = id}

\* A number is out once per run of the registry, and every entry of an instance
\* was paid for by a save of it.
CountInv ==
    /\ \A l, m \in launches : l.id = m.id => l = m
    /\ \A l \in launches :
           /\ l.id <= seq
           /\ l.pc = "saving" => created[l.id] < MaxCreated
           /\ l.pc = "appending" => Cardinality(Places(l.id)) < created[l.id]
    /\ \A id \in Ids : created[id] <= MaxCreated /\ Cardinality(Places(id)) <= created[id]

LEMMA PlacesFinite ==
    ASSUME Shapes, NEW id
    PROVE  /\ Places(id) \subseteq 1 .. Len(instances)
           /\ IsFiniteSet(Places(id)) /\ Cardinality(Places(id)) \in Nat
<1>1. Len(instances) \in Nat /\ Places(id) \subseteq 1 .. Len(instances)
  BY EntryTypes DEF Shapes, Places
<1>2. IsFiniteSet(1 .. Len(instances))
  BY <1>1, FS_Interval
<1> QED
  BY <1>1, <1>2, FS_Subset, FS_CardinalityType

LEMMA InitCountInv == Init => CountInv
<1> SUFFICES ASSUME Init PROVE CountInv
  OBVIOUS
<1>1. \A id \in Ids : Places(id) = {}
  BY DEF Init, Places
<1>2. \A id \in Ids : Cardinality(Places(id)) = 0 /\ created[id] = 0
  BY <1>1, FS_EmptySet DEF Init
<1> QED
  BY <1>2, InstancesConstants DEF Init, CountInv

LEMMA TakeNumberCounted ==
    ASSUME Inv, CountInv, TakeNumber
    PROVE  CountInv'
<1> DEFINE l == [id |-> seq + 1, pc |-> "saving"]
<1>1. /\ seq' = seq + 1 /\ launches' = launches \cup {l}
      /\ created[seq + 1] < MaxCreated
      /\ UNCHANGED <<instances, created>>
  BY DEF TakeNumber, historyVars
<1>2. l.id = seq + 1 /\ l.pc = "saving"
  OBVIOUS
<1> HIDE DEF l
<1>3. seq \in Nat /\ \A m \in launches : m.id \in Nat /\ m.id <= seq
  BY DEF Inv, Shapes, CountInv, Launch, Ids
<1>4. \A m \in launches : m.id # l.id /\ m.id <= seq'
  BY <1>1, <1>2, <1>3
<1>5. \A id \in Ids : Places(id)' = Places(id)
  BY <1>1 DEF Places
<1>6. \A m \in launches : m.id \in Ids
  BY DEF Inv, Shapes, Launch
<1> QED
  BY <1>1, <1>2, <1>3, <1>4, <1>5, <1>6 DEF CountInv

LEMMA SaveCounted ==
    ASSUME Inv, CountInv, NEW l \in launches, SaveInstance(l)
    PROVE  CountInv'
<1> DEFINE a == [l EXCEPT !.pc = "appending"]
<1>1. /\ l.pc = "saving" /\ launches' = (launches \ {l}) \cup {a}
      /\ created' = [created EXCEPT ![l.id] = @ + 1]
      /\ UNCHANGED <<seq, instances>>
  BY DEF SaveInstance
<1>2. a.id = l.id /\ a.pc = "appending" /\ l.id \in Ids
  BY DEF Inv, Shapes, Launch
<1> HIDE DEF a
<1>3. \A m \in launches : m.id \in Ids
  BY DEF Inv, Shapes, Launch
<1>4. /\ created \in [Ids -> Nat] /\ created'[l.id] = created[l.id] + 1
      /\ \A id \in Ids \ {l.id} : created'[id] = created[id]
  BY <1>1, <1>2 DEF Inv, Shapes
<1>5. \A id \in Ids : Places(id)' = Places(id) /\ Cardinality(Places(id)) \in Nat
  BY <1>1, PlacesFinite DEF Places, Inv
<1>6. created[l.id] < MaxCreated /\ Cardinality(Places(l.id)) <= created[l.id]
  BY <1>1, <1>2 DEF CountInv
<1>7. \A m \in launches \ {l} : m.id # l.id
  BY DEF CountInv
<1>8. ASSUME NEW m \in launches'
      PROVE  /\ m.id <= seq
             /\ m.pc = "saving" => created'[m.id] < MaxCreated
             /\ m.pc = "appending" => Cardinality(Places(m.id)) < created'[m.id]
  <2>1. CASE m = a
    BY <1>2, <1>4, <1>5, <1>6, <2>1 DEF CountInv
  <2>2. CASE m \in launches \ {l}
    BY <1>3, <1>4, <1>7, <2>2 DEF CountInv
  <2> QED
    BY <1>1, <2>1, <2>2
<1>9. \A m, n \in launches' : m.id = n.id => m = n
  BY <1>1, <1>2, <1>7 DEF CountInv
<1>10. \A id \in Ids : created'[id] <= MaxCreated /\ Cardinality(Places(id)) <= created'[id]
  <2> SUFFICES ASSUME NEW id \in Ids
               PROVE  created'[id] <= MaxCreated /\ Cardinality(Places(id)) <= created'[id]
    OBVIOUS
  <2>1. CASE id = l.id
    BY <1>4, <1>5, <1>6, <2>1, InstancesConstants
  <2>2. CASE id # l.id
    BY <1>4, <2>2 DEF CountInv
  <2> QED
    BY <2>1, <2>2
<1>11. \A m \in launches' : m.id \in Ids
  BY <1>1, <1>2, <1>3
<1> QED
  BY <1>1, <1>5, <1>8, <1>9, <1>10, <1>11 DEF CountInv

LEMMA AppendCounted ==
    ASSUME Inv, CountInv, NEW l \in launches, l.pc = "appending", AppendInstance(l)
    PROVE  CountInv'
<1> DEFINE x == [id |-> l.id, status |-> "provisioning"]
           n == Len(instances) + 1
<1>1. /\ launches' = launches \ {l} /\ instances' = Append(instances, x)
      /\ UNCHANGED <<seq, created>>
  BY DEF AppendInstance, historyVars
<1>2. l.id \in Ids /\ x \in Instance /\ x.id = l.id /\ instances \in Seq(Instance)
  BY DEF Inv, Shapes, Launch, Instance, Status
<1> HIDE DEF x
<1>3. /\ DOMAIN instances = 1 .. Len(instances) /\ Len(instances) \in Nat
      /\ DOMAIN instances' = 1 .. n
      /\ \A k \in DOMAIN instances : instances'[k] = instances[k]
      /\ instances'[n] = x
  BY <1>1, <1>2, AppendEffect, EntryTypes
<1>4. Places(l.id)' = Places(l.id) \cup {n} /\ n \notin Places(l.id)
  BY <1>2, <1>3 DEF Places
<1>5. Cardinality(Places(l.id)') = Cardinality(Places(l.id)) + 1
  BY <1>4, PlacesFinite, FS_AddElement DEF Inv
<1>6. \A id \in Ids \ {l.id} : Places(id)' = Places(id)
  BY <1>2, <1>3 DEF Places
<1>7. Cardinality(Places(l.id)) \in Nat /\ created[l.id] \in Nat
  BY <1>2, PlacesFinite DEF Inv, Shapes
<1>8. \A id \in Ids : Cardinality(Places(id)') <= created[id]
  BY <1>2, <1>5, <1>6, <1>7 DEF CountInv
<1>9. \A m \in launches' : m \in launches /\ m.id \in Ids \ {l.id}
  BY <1>1 DEF CountInv, Inv, Shapes, Launch
<1> QED
  BY <1>1, <1>6, <1>8, <1>9 DEF CountInv

LEMMA WriteMemoryCounted ==
    ASSUME Inv, CountInv, NEW w \in writes, WriteMemory(w)
    PROVE  CountInv'
<1>1. /\ instances' = WithStatus(instances, w.id, w.status)
      /\ UNCHANGED <<seq, launches, created>>
  BY DEF WriteMemory
<1>2. w.status \in Status /\ instances \in Seq(Instance)
  BY DEF Inv, Shapes, Write
<1>3. /\ DOMAIN instances' = DOMAIN instances
      /\ \A k \in DOMAIN instances : instances'[k].id = instances[k].id
  BY <1>1, <1>2, StatusEffect
<1>4. \A id : Places(id)' = Places(id)
  BY <1>3 DEF Places
<1> QED
  BY <1>1, <1>4 DEF CountInv

\* The table lists everything once that was ever saved.
LEMMA RestartCounted ==
    ASSUME Inv, CountInv, RegistryRestart
    PROVE  CountInv'
<1>1. instances' = rows /\ launches' = {} /\ UNCHANGED created
  BY DEF RegistryRestart, historyVars
<1>2. rows \in Seq(Instance) /\ created \in [Ids -> Nat]
  BY DEF Inv, Shapes
<1>3. ASSUME NEW id \in Ids PROVE Cardinality(Places(id)') <= created[id]
  <2>1. CASE id \in IdsOf(rows)
    <3>1. PICK k \in DOMAIN rows : rows[k].id = id
      BY <2>1 DEF IdsOf
    <3>2. Places(id)' = {k}
      BY <1>1, <3>1 DEF Inv, TableInv, Places
    <3>3. created[id] \in Nat /\ created[id] > 0
      BY <1>2, <2>1 DEF Inv, TableInv
    <3> QED
      BY <3>2, <3>3, FS_Singleton
  <2>2. CASE id \notin IdsOf(rows)
    <3>1. Places(id)' = {}
      BY <1>1, <2>2 DEF Places, IdsOf
    <3> QED
      BY <1>2, <3>1, FS_EmptySet
  <2> QED
    BY <2>1, <2>2
<1> QED
  BY <1>1, <1>3 DEF CountInv

LEMMA NextCountInv == Inv /\ CountInv /\ [Next]_vars => CountInv'
<1> SUFFICES ASSUME Inv, CountInv, [Next]_vars PROVE CountInv'
  OBVIOUS
<1>1. CASE UNCHANGED <<seq, launches, instances, created>>
  BY <1>1 DEF CountInv, Places
<1>2. ASSUME NEW l \in launches, AppendInstance(l) PROVE CountInv'
  BY <1>2, AppendCounted DEF AppendInstance
<1>3. CASE Next
  BY <1>1, <1>2, <1>3, TakeNumberCounted, SaveCounted, WriteMemoryCounted, RestartCounted
  DEF Next, ProvisionCall, CheckRootfs, CopyRootfs, Boot, PatchInstance, TerminateInstance,
      WriteRow, DestroyCall, DestroyInstance, AgentCrash, registryVars, historyVars
<1> QED
  BY <1>1, <1>3 DEF vars, registryVars, historyVars

\* An entry is known by its instance and its rank among the entries of that.
LEMMA ListsAreBounded ==
    ASSUME Inv, CountInv
    PROVE  Len(rows) <= MaxSeq /\ Len(instances) <= MaxSeq * MaxCreated
<1>0. IsFiniteSet(Ids) /\ Cardinality(Ids) = MaxSeq
  BY InstancesConstants, FS_Interval DEF Ids
<1>1. Len(rows) <= MaxSeq
  <2> DEFINE f == [k \in 1 .. Len(rows) |-> rows[k].id]
  <2>1. DOMAIN rows = 1 .. Len(rows) /\ Len(rows) \in Nat /\ \A k \in DOMAIN rows : rows[k].id \in Ids
    BY EntryTypes DEF Inv, Shapes
  <2>2. f \in Injection(1 .. Len(rows), Ids)
    BY <2>1 DEF Injection, IsInjective, Inv, TableInv
  <2>3. Cardinality(1 .. Len(rows)) = Len(rows)
    BY <2>1, FS_Interval
  <2> HIDE DEF f
  <2>4. Cardinality(1 .. Len(rows)) <= Cardinality(Ids)
    BY <1>0, <2>2, FS_Injection
  <2> QED
    BY <1>0, <2>3, <2>4
<1>2. Len(instances) <= MaxSeq * MaxCreated
  <2> DEFINE n == Len(instances)
             Before(k) == {j \in 1 .. k : instances[j].id = instances[k].id}
             f == [k \in 1 .. n |-> <<instances[k].id, Cardinality(Before(k))>>]
             R == 1 .. MaxCreated
  <2>1. /\ DOMAIN instances = 1 .. n /\ n \in Nat
        /\ \A k \in 1 .. n : instances[k].id \in Ids
    BY EntryTypes DEF Inv, Shapes
  <2>2. ASSUME NEW k \in 1 .. n
        PROVE  /\ Before(k) \subseteq Places(instances[k].id) /\ k \in Before(k)
               /\ IsFiniteSet(Before(k)) /\ Cardinality(Before(k)) \in R
    <3>1. Before(k) \subseteq Places(instances[k].id) /\ k \in Before(k)
      BY <2>1 DEF Places
    <3> HIDE DEF Before
    <3> DEFINE P == Places(instances[k].id)
    <3>2. IsFiniteSet(P) /\ Cardinality(P) \in Nat /\ Cardinality(P) <= MaxCreated
      BY <2>1, PlacesFinite, InstancesConstants DEF CountInv, Inv, Shapes
    <3> HIDE DEF P
    <3>3. Before(k) \subseteq P
      BY <3>1 DEF P
    <3>4. IsFiniteSet(Before(k)) /\ Cardinality(Before(k)) <= Cardinality(P)
      BY <3>2, <3>3, FS_Subset
    <3>5. Cardinality(Before(k)) \in Nat /\ Cardinality(Before(k)) # 0
      BY <3>1, <3>4, FS_CardinalityType, FS_EmptySet
    <3> QED
      BY <3>1, <3>2, <3>4, <3>5, InstancesConstants
  <2>3. ASSUME NEW k \in 1 .. n, NEW m \in 1 .. n, k < m, f[k] = f[m] PROVE FALSE
    <3>1. instances[k].id = instances[m].id /\ Cardinality(Before(k)) = Cardinality(Before(m))
      BY <2>3
    <3>2. Before(k) \subseteq Before(m) /\ m \notin Before(k)
      BY <2>1, <2>3, <3>1
    <3>3. m \in Before(m) /\ IsFiniteSet(Before(m))
      BY <2>2
    <3> HIDE DEF Before
    <3> QED
      BY <3>1, <3>2, <3>3, FS_Subset
  <2>4. f \in [1 .. n -> Ids \X R]
    BY <2>1, <2>2
  <2>5. f \in Injection(1 .. n, Ids \X R)
    <3>1. \A k, m \in 1 .. n : f[k] = f[m] => k = m
      <4> SUFFICES ASSUME NEW k \in 1 .. n, NEW m \in 1 .. n, f[k] = f[m], k # m PROVE FALSE
        OBVIOUS
      <4>1. k < m \/ m < k
        BY <2>1
      <4> HIDE DEF f
      <4> QED
        BY <2>3, <4>1
    <3> HIDE DEF f
    <3> QED
      BY <2>4, <3>1 DEF Injection, IsInjective
  <2>6. IsFiniteSet(R) /\ Cardinality(R) = MaxCreated
    BY InstancesConstants, FS_Interval
  <2> HIDE DEF f, R
  <2>7. IsFiniteSet(Ids \X R) /\ Cardinality(Ids \X R) = MaxSeq * MaxCreated
    BY <1>0, <2>6, FS_Product
  <2>8. Cardinality(1 .. n) <= MaxSeq * MaxCreated
    BY <2>5, <2>7, FS_Injection
  <2>9. Cardinality(1 .. n) = n
    BY <2>1, FS_Interval
  <2> QED
    BY <2>8, <2>9
<1> QED
  BY <1>1, <1>2

\* Table and list keep their types and their bounds: although a number may be
\* given out again after a restart, the list never holds more entries of an
\* instance than saves of its number were made.
THEOREM InstancesKeepTypes == Spec => []InstancesTypeOK
<1>1. Inv /\ CountInv => InstancesTypeOK
  <2> SUFFICES ASSUME Inv, CountInv PROVE InstancesTypeOK
    OBVIOUS
  <2>1. created \in [Ids -> 0 .. MaxCreated]
    BY InstancesConstants DEF Inv, Shapes, CountInv
  <2> QED
    BY <2>1, ListsAreBounded DEF Inv, Shapes, InstancesTypeOK
<1>2. Inv /\ CountInv /\ [Next]_vars => CountInv'
  BY NextCountInv
<1> QED
  BY <1>1, <1>2, InitCountInv, InstancesInvariant, PTL DEF Spec
=============================================================================
