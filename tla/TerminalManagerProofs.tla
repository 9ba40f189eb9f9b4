------------------------- MODULE TerminalManagerProofs -------------------------
(***************************************************************************)
(* Proofs about the terminals, for any number of terminals, threads,       *)
(* processes and fibers and any budgets: no process is forgotten, its end  *)
(* is noticed, and its output is kept, shown and filed.                    *)
(***************************************************************************)
EXTENDS TerminalManager, SequenceTheorems, TLAPS

-----------------------------------------------------------------------------
(* Evictions: gone are the objects evicted from the sessions ses, where the  *)
(* objects s are kept that the calls cs use.                                 *)

Used(cs) == {cs[h].obj : h \in Threads}
Left(ses, gone) == [t \in Terminals |-> IF ses[t] \in gone THEN 0 ELSE ses[t]]
Kept(s, cs, gone) == [o \in Ids |-> IF o \in gone \ Used(cs) THEN Blank ELSE s[o]]
Evicts(s, gone) == gone \subseteq Ids /\ 0 \notin gone /\ \A o \in gone : s[o].status # "running"

\* An object that still has a process, or that a call uses, stays what it is.
LEMMA KeptObjects ==
  ASSUME NEW s \in [Ids -> Objects], NEW cs, NEW gone, NEW a, NEW k, NEW ds,
         Evicts(s, gone), Sound(s, a, k, ds), NEW o \in Ids
  PROVE  /\ s[o].pid # 0 => Kept(s, cs, gone)[o] = s[o] /\ o \notin gone
         /\ o \in Used(cs) => Kept(s, cs, gone)[o] = s[o]
         /\ Kept(s, cs, gone)[o] = s[o] \/ (Kept(s, cs, gone)[o] = Blank /\ s[o].pid = 0)
         /\ Kept(s, cs, gone)[o].pid = s[o].pid
<1>1. s[o].pid # 0 => s[o].status = "running"
  BY DEF Sound, ObjectInv
<1>2. o \in gone => s[o].status # "running"
  BY DEF Evicts
<1>3. Kept(s, cs, gone)[o] = IF o \in gone \ Used(cs) THEN Blank ELSE s[o]
  BY DEF Kept
<1>4. Blank.pid = 0
  BY DEF Blank, New
<1> QED BY <1>1, <1>2, <1>3, <1>4

LEMMA KeptTypes ==
  ASSUME NEW s \in [Ids -> Objects], NEW cs, NEW gone,
         NEW ses \in [Terminals -> Ids \cup {0}]
  PROVE  /\ Kept(s, cs, gone) \in [Ids -> Objects]
         /\ Left(ses, gone) \in [Terminals -> Ids \cup {0}]
<1>1. Blank \in Objects
  BY DEF Blank, New, Objects
<1> QED BY <1>1 DEF Kept, Left

LEMMA KeptSound ==
  ASSUME NEW s \in [Ids -> Objects], NEW cs, NEW gone, NEW a, NEW k, NEW ds,
         Evicts(s, gone), Sound(s, a, k, ds)
  PROVE  Sound(Kept(s, cs, gone), a, k, ds)
<1> DEFINE r == Kept(s, cs, gone)
<1>1. \A o \in Ids : /\ r[o] = s[o] \/ (r[o] = Blank /\ s[o].pid = 0)
                     /\ r[o].pid = s[o].pid
  BY KeptObjects
<1> HIDE DEF r
<1>2. ASSUME NEW o \in Ids PROVE ObjectInv(r[o], o, a, k, ds)
  <2>1. ObjectInv(Blank, o, a, k, ds)
    BY DEF ObjectInv, Blank, New
  <2> QED BY <1>1, <2>1 DEF Sound
<1>3. \A o, q \in Ids : o # q /\ r[o].pid # 0 => r[o].pid # r[q].pid
  BY <1>1 DEF Sound
<1>4. \A p \in a : p \in k \/ \E o \in Ids : r[o].pid = p
  BY <1>1 DEF Sound
<1> QED BY <1>2, <1>3, <1>4 DEF Sound, r

LEMMA KeptTable ==
  ASSUME NEW s \in [Ids -> Objects], NEW cs \in [Threads -> Calls], NEW gone, NEW a, NEW k, NEW ds,
         NEW ses \in [Terminals -> Ids \cup {0}], NEW before, NEW after,
         Evicts(s, gone), Sound(s, a, k, ds), Table(ses, s, cs, before),
         after => before /\ gone \cap Used(cs) = {}
  PROVE  Table(Left(ses, gone), Kept(s, cs, gone), cs, after)
<1> DEFINE r == Kept(s, cs, gone)
           st == Left(ses, gone)
<1>1. \A o \in Ids : /\ s[o].pid # 0 => r[o] = s[o] /\ o \notin gone
                     /\ o \in Used(cs) => r[o] = s[o]
                     /\ o \notin gone => r[o] = s[o]
                     /\ r[o].pid = s[o].pid
  BY KeptObjects DEF Kept
<1>2. \A t \in Terminals : /\ st[t] # 0 => st[t] = ses[t] /\ st[t] \notin gone /\ st[t] \in Ids
                           /\ ses[t] \notin gone => st[t] = ses[t]
                           /\ st[t] \in {0, ses[t]}
  BY DEF Left
<1>3. \A h \in Threads : cs[h].obj # 0 => cs[h].obj \in Ids /\ cs[h].obj \in Used(cs)
  BY DEF Used, Calls
<1>4. \A h \in Threads : cs[h].of # None => cs[h].of \in Terminals
  BY DEF Calls
<1>5. \A h \in Threads : cs[h].rest \subseteq Terminals
  BY DEF Calls
<1> HIDE DEF r, st
<1>6. \A t \in Terminals : st[t] # 0 => r[st[t]].of = t
  BY <1>1, <1>2 DEF Table
<1>7. ASSUME NEW h \in Threads PROVE CallInv(st, r, h, cs[h])
  <2>1. CallInv(ses, s, h, cs[h])
    BY DEF Table
  <2>2. cs[h].obj # 0 => r[cs[h].obj] = s[cs[h].obj]
    BY <1>1, <1>3
  <2>3. cs[h].obj # 0 => \A t \in Terminals : st[t] = cs[h].obj => t = cs[h].of
    BY <1>2, <2>1 DEF CallInv
  <2>4. cs[h].at = "close" => cs[h].of # None /\ st[cs[h].of] \in {0, cs[h].obj}
    BY <1>2, <1>4, <2>1 DEF CallInv
  <2>5. cs[h].whole => \A t \in Terminals : ThreadOf[t] = h /\ st[t] # 0 =>
                         t \in cs[h].rest \/ (cs[h].at = "close" /\ t = cs[h].of)
    BY <1>2, <2>1 DEF CallInv
  <2> QED BY <2>1, <2>2, <2>3, <2>4, <2>5 DEF CallInv
<1>8. \A h, g \in Threads : cs[h].obj # 0 /\ cs[h].obj = cs[g].obj => h = g
  BY DEF Table
<1>9. ASSUME after
      PROVE  /\ \A o \in Ids : r[o].pid # 0 => \E t \in Terminals : st[t] = o
             /\ \A h \in Threads : cs[h].obj # 0 => st[cs[h].of] = cs[h].obj
  <2>1. ASSUME NEW o \in Ids, r[o].pid # 0 PROVE \E t \in Terminals : st[t] = o
    BY <1>1, <1>2, <1>9, <2>1 DEF Table
  <2>2. ASSUME NEW h \in Threads, cs[h].obj # 0 PROVE st[cs[h].of] = cs[h].obj
    <3>1. cs[h].obj \notin gone
      BY <1>3, <1>9, <2>2
    <3>2. ses[cs[h].of] = cs[h].obj
      BY <1>9, <2>2 DEF Table
    <3>3. cs[h].of \in Terminals
      BY <1>4, <2>2 DEF Table, CallInv
    <3> QED BY <1>2, <3>1, <3>2, <3>3
  <2> QED BY <2>1, <2>2
<1> QED BY <1>6, <1>7, <1>8, <1>9 DEF Table, r, st

LEMMA KeptEnds ==
  ASSUME NEW s \in [Ids -> Objects], NEW cs, NEW gone, NEW a, NEW k, NEW ds,
         Evicts(s, gone), Sound(s, a, k, ds), Ends(s, a)
  PROVE  Ends(Kept(s, cs, gone), a)
<1> DEFINE r == Kept(s, cs, gone)
<1>1. \A o \in Ids : r[o].pid # 0 => r[o] = s[o]
  BY KeptObjects
<1> HIDE DEF r
<1> QED BY <1>1 DEF Ends, r

LEMMA KeptComplete ==
  ASSUME NEW s \in [Ids -> Objects], NEW cs \in [Threads -> Calls], NEW gone, NEW a, NEW k, NEW ds,
         NEW owes, Evicts(s, gone), Sound(s, a, k, ds), Complete(s, cs, owes)
  PROVE  Complete(Kept(s, cs, gone), cs, owes)
<1> DEFINE r == Kept(s, cs, gone)
<1>1. \A o \in Ids : /\ s[o].pid # 0 => r[o] = s[o]
                     /\ o \in Used(cs) => r[o] = s[o]
                     /\ r[o].pid = s[o].pid
  BY KeptObjects
<1> HIDE DEF r
<1>2. \A o \in Ids : Works(o, r, cs) => Works(o, s, cs) /\ r[o] = s[o]
  BY <1>1 DEF Works, Used
<1> QED BY <1>2 DEF Complete, r

LEMMA KeptShowing ==
  ASSUME NEW s \in [Ids -> Objects], NEW cs, NEW gone, NEW a, NEW k, NEW ds,
         NEW ses \in [Terminals -> Ids \cup {0}], NEW shows,
         Evicts(s, gone), Sound(s, a, k, ds), Showing(ses, s, cs, shows)
  PROVE  Showing(Left(ses, gone), Kept(s, cs, gone), cs, shows)
<1> DEFINE r == Kept(s, cs, gone)
           st == Left(ses, gone)
<1>1. \A o \in Ids : s[o].pid # 0 => r[o] = s[o]
  BY KeptObjects
<1>2. \A o \in Ids : r[o].pid = s[o].pid
  BY KeptObjects
<1>3. \A t \in Terminals : st[t] # 0 => st[t] = ses[t] /\ st[t] \in Ids
  BY DEF Left
<1> HIDE DEF r, st
<1> QED BY <1>1, <1>2, <1>3 DEF Showing, r, st

LEMMA KeptFiled ==
  ASSUME NEW s \in [Ids -> Objects], NEW cs, NEW gone,
         NEW ses \in [Terminals -> Ids \cup {0}], NEW lf, NEW wait, NEW writes, NEW files,
         Evicts(s, gone), Filed(ses, s, lf, wait, writes, files)
  PROVE  Filed(Left(ses, gone), Kept(s, cs, gone),
               [t \in Terminals |-> IF ses[t] \in gone THEN s[ses[t]].history ELSE lf[t]],
               wait, writes, files)
<1> DEFINE r == Kept(s, cs, gone)
           st == Left(ses, gone)
           lg == [t \in Terminals |-> IF ses[t] \in gone THEN s[ses[t]].history ELSE lf[t]]
<1>1. \A t \in Terminals : Held(st, r, lg, t) = Held(ses, s, lf, t)
  <2> TAKE t \in Terminals
  <2>1. CASE ses[t] \in gone
    <3>1. st[t] = 0 /\ lg[t] = s[ses[t]].history /\ ses[t] # 0
      BY <2>1 DEF Left, Evicts
    <3> HIDE DEF st, lg
    <3> QED BY <3>1 DEF Held
  <2>2. CASE ses[t] \notin gone
    <3>1. st[t] = ses[t] /\ lg[t] = lf[t] /\ (ses[t] # 0 => r[ses[t]] = s[ses[t]])
      BY <2>2 DEF Left, Kept
    <3> HIDE DEF st, lg, r
    <3> QED BY <3>1 DEF Held
  <2> QED BY <2>1, <2>2
<1> HIDE DEF st, lg, r
<1>2. Filed(st, r, lg, wait, writes, files)
  BY <1>1 DEF Filed
<1> QED BY <1>2 DEF st, r, lg

-----------------------------------------------------------------------------
(* Steps.  A step makes the sessions ses and the objects obj, notes races,   *)
(* and evicts what is gone.                                                  *)

Races == {"evicted", "stale_drain", "exit_cleared", "said_while_clearing", "undeleted", "unwritten"}
StillWithout(notes, excuses) == (races \cup notes) \cap excuses = {}

RestTypes ==
  /\ LetGo \subseteq Pids /\ alive \subseteq Pids
  /\ drains \subseteq [obj : Ids, pid : Pids, after : {"output", "exit"}, n : Fibers]
  /\ waiting \in [Terminals -> SUBSET Seq(Nat)]
  /\ writing \subseteq [of : Terminals, text : Seq(Nat)]
  /\ file \in [Terminals -> Seq(Nat)]
  /\ call \in [Threads -> Calls]
  /\ shown \in [Terminals -> Seq(Nat)]
  /\ owed \in [Ids -> Seq(Nat)]
  /\ said \in Nat
  /\ budget \in [Kinds -> Nat]

After(ses, obj, gone, notes) ==
  /\ sessions' = Left(ses, gone)
  /\ session' = Kept(obj, call', gone)
  /\ left' = [t \in Terminals |-> IF ses[t] \in gone THEN obj[ses[t]].history ELSE left[t]]
  /\ races' = races \cup notes \cup Notes(gone \cap Used(call') # {}, "evicted")

(* What holds before the eviction.                                           *)
Middle(ses, obj, notes) ==
  /\ ses \in [Terminals -> Ids \cup {0}] /\ obj \in [Ids -> Objects] /\ notes \subseteq Races
  /\ RestTypes' /\ Single(waiting', writing')
  /\ Sound(obj, alive', LetGo', drains')
  /\ Table(ses, obj, call', StillWithout(notes, {"evicted"}))
  /\ StillWithout(notes, {"exit_cleared", "stale_drain"}) => Ends(obj, alive')
  /\ StillWithout(notes, {"stale_drain"}) => Complete(obj, call', owed')
  /\ StillWithout(notes, {"said_while_clearing", "evicted"}) => Showing(ses, obj, call', shown')
  /\ StillWithout(notes, {"evicted", "undeleted", "unwritten"}) =>
        Filed(ses, obj, left, waiting', writing', file')

\* With the middle of a step established, the step preserves the invariant.
LEMMA StepFromMiddle ==
  ASSUME TypeOK, NEW ses, NEW obj, NEW gone, NEW notes,
         Middle(ses, obj, notes), Evicts(obj, gone), After(ses, obj, gone, notes)
  PROVE  AllInv'
<1> USE DEF Middle
<1> DEFINE st == Left(ses, gone)
           r == Kept(obj, call', gone)
           lg == [t \in Terminals |-> IF ses[t] \in gone THEN obj[ses[t]].history ELSE left[t]]
<1>1. sessions' = st /\ session' = r /\ left' = lg
  BY DEF After
<1>2. races' \subseteq Races
  BY DEF After, TypeOK, Races, Notes
<1>3. \A x : (races' \cap x = {}) => StillWithout(notes, x)
  BY DEF After, StillWithout
<1>4. Keeps' => StillWithout(notes, {"evicted"}) /\ gone \cap Used(call') = {}
  BY <1>3 DEF After, Keeps, Without, Notes
<1>5. TypeOK'
  <2>1. st \in [Terminals -> Ids \cup {0}] /\ r \in [Ids -> Objects]
    BY KeptTypes
  <2>2. lg \in [Terminals -> Seq(Nat)]
    <3>1. \A t \in Terminals : ses[t] \in gone => obj[ses[t]].history \in Seq(Nat)
      BY DEF Evicts, Objects
    <3> QED BY <3>1 DEF TypeOK
  <2> HIDE DEF st, r, lg
  <2> QED BY <1>1, <1>2, <2>1, <2>2 DEF TypeOK, RestTypes, Races
<1>6. Sound(r, alive', LetGo', drains')
  BY KeptSound
<1>7. call' \in [Threads -> Calls]
  BY DEF RestTypes
<1>8. Table(st, r, call', Keeps')
  BY <1>4, <1>7, KeptTable
<1>9. (Without({"exit_cleared", "stale_drain"}))' => Ends(r, alive')
  BY <1>3, KeptEnds DEF Without
<1>10. (Without({"stale_drain"}))' => Complete(r, call', owed')
  BY <1>3, <1>7, KeptComplete DEF Without
<1>11. (Without({"said_while_clearing", "evicted"}))' => Showing(st, r, call', shown')
  BY <1>3, KeptShowing DEF Without
<1>12. (Without({"evicted", "undeleted", "unwritten"}))' =>
           Filed(st, r, lg, waiting', writing', file')
  BY <1>3, KeptFiled DEF Without
<1> HIDE DEF st, r, lg, Middle
<1>13. Single(waiting', writing')
  BY DEF Middle
<1> QED BY <1>1, <1>5, <1>6, <1>8, <1>9, <1>10, <1>11, <1>12, <1>13 DEF AllInv

LEMMA RetainEvicts ==
  ASSUME NEW ses, NEW obj, NEW order, ses \in [Terminals -> Ids \cup {0}], 0 \notin Ids,
         Retain(ses, obj, order)
  PROVE  \E gone : Evicts(obj, gone) /\ After(ses, obj, gone, {})
<1> DEFINE Newer(o) == {order[i] : i \in {j \in DOMAIN order : \E k \in 1..j : order[k] = o}}
           gone == {o \in Inactive(ses, obj) :
                      Cardinality(Newer(o) \cap Inactive(ses, obj)) > MaxRetained}
<1>1. Evicts(obj, gone)
  BY DEF Evicts, Inactive, Listed
<1>2. After(ses, obj, gone, {})
  BY DEF Retain, After, Left, Kept, Used
<1> QED BY <1>1, <1>2

LEMMA SaveEvictsNothing ==
  ASSUME TypeOK, NEW obj, NEW order, NEW notes, obj \in [Ids -> Objects], Save(obj, order, notes)
  PROVE  Evicts(obj, {}) /\ After(sessions, obj, {}, notes)
<1>1. Left(sessions, {}) = sessions
  BY DEF Left, TypeOK
<1>2. Kept(obj, call', {}) = obj
  BY DEF Kept
<1>3. left = [t \in Terminals |-> IF sessions[t] \in {} THEN obj[sessions[t]].history ELSE left[t]]
  BY DEF TypeOK
<1>4. races' = races \cup notes \cup Notes({} \cap Used(call') # {}, "evicted")
  BY DEF Save, Notes
<1> QED BY <1>1, <1>2, <1>3, <1>4 DEF Save, After, Evicts

\* Either way of saving the change of an object.
LEMMA RetainStep ==
  ASSUME TypeOK, NEW ses, NEW obj, NEW order, Middle(ses, obj, {}), Retain(ses, obj, order)
  PROVE  AllInv'
<1>1. 0 \notin Ids /\ ses \in [Terminals -> Ids \cup {0}]
  BY TerminalAssumption DEF Middle
<1> QED BY <1>1, RetainEvicts, StepFromMiddle

LEMMA SaveStep ==
  ASSUME TypeOK, NEW obj, NEW order, NEW notes, Middle(sessions, obj, notes),
         Save(obj, order, notes)
  PROVE  AllInv'
<1>1. obj \in [Ids -> Objects]
  BY DEF Middle
<1> QED BY <1>1, SaveEvictsNothing, StepFromMiddle

LEMMA StopStep ==
  ASSUME TypeOK, NEW o \in Ids, NEW y, Middle(sessions, [session EXCEPT ![o] = y], {}),
         StopThen(o, y)
  PROVE  AllInv'
BY RetainStep, SaveStep DEF StopThen

-----------------------------------------------------------------------------
(* Changes of one object.                                                    *)

\* An object o becomes y while processes run, are killed and fibers go on.
LEMMA SoundChange ==
  ASSUME NEW s \in [Ids -> Objects], NEW a, NEW k, NEW ds, Sound(s, a, k, ds),
         NEW o \in Ids, NEW y \in Objects, NEW b, NEW l, NEW fs,
         ObjectInv(y, o, b, l, fs),
         y.pid # 0 => \A q \in Ids : q # o => s[q].pid # y.pid,
         \A p \in l : p \in k \/ p = s[o].pid \/ \A q \in Ids : s[q].pid # p,
         \A p \in b : p \in a \/ p = y.pid,
         \A d \in ds : d.obj # o => d \in fs,
         \A p \in b : p \in l \/ p = y.pid \/ (p \notin k /\ p # s[o].pid)
  PROVE  Sound([s EXCEPT ![o] = y], b, l, fs)
<1> DEFINE r == [s EXCEPT ![o] = y]
<1>1. r[o] = y /\ \A q \in Ids : q # o => r[q] = s[q]
  OBVIOUS
<1> HIDE DEF r
<1>2. ASSUME NEW q \in Ids PROVE ObjectInv(r[q], q, b, l, fs)
  <2>1. CASE q = o
    BY <1>1, <2>1
  <2>2. CASE q # o
    <3>1. ObjectInv(s[q], q, a, k, ds) /\ r[q] = s[q]
      BY <1>1, <2>2 DEF Sound
    <3>2. s[q].pid # 0 => s[q].pid # s[o].pid /\ s[q].pid # y.pid
      BY <2>2 DEF Sound
    <3>3. s[q].pid # 0 => s[q].pid \notin l
      BY <3>1, <3>2 DEF ObjectInv
    <3>4. \A i \in 1..Len(s[q].queue) : s[q].queue[i] = exit =>
            i = Len(s[q].queue) /\ s[q].pid \notin b
      <4>1. CASE s[q].pid = 0
        <5>1. Len(s[q].queue) = 0
          BY <3>1, <4>1 DEF ObjectInv
        <5> QED BY <5>1
      <4>2. CASE s[q].pid # 0
        BY <3>1, <3>2, <4>2 DEF ObjectInv
      <4> QED BY <4>1, <4>2
    <3>5. s[q].draining => \E d \in fs : d.obj = q /\ d.pid = s[q].pid /\ d.after = "output"
      BY <2>2, <3>1 DEF ObjectInv
    <3> QED BY <3>1, <3>3, <3>4, <3>5 DEF ObjectInv
  <2> QED BY <2>1, <2>2
<1>3. \A q, v \in Ids : q # v /\ r[q].pid # 0 => r[q].pid # r[v].pid
  BY <1>1 DEF Sound
<1>4. ASSUME NEW p \in b PROVE p \in l \/ \E q \in Ids : r[q].pid = p
  <2>1. CASE p \in l \/ p = y.pid
    BY <1>1, <2>1
  <2>2. CASE p \notin k /\ p # s[o].pid /\ p \in a
    <3>1. PICK q \in Ids : s[q].pid = p
      BY <2>2 DEF Sound
    <3> QED BY <1>1, <2>2, <3>1
  <2> QED BY <2>1, <2>2
<1> QED BY <1>2, <1>3, <1>4 DEF Sound, r

\* The call of thread h on an object o of its own goes on as c.
LEMMA TableChange ==
  ASSUME NEW s \in [Ids -> Objects], NEW cs \in [Threads -> Calls], NEW keeps, NEW ses,
         Table(ses, s, cs, keeps),
         NEW o \in Ids, NEW y \in Objects, NEW h \in Threads, NEW c \in Calls,
         y.of = s[o].of, c.obj \in {0, o},
         \A g \in Threads : g # h => cs[g].obj # o,
         CallInv(ses, [s EXCEPT ![o] = y], h, c),
         keeps => /\ y.pid # 0 => \E t \in Terminals : ses[t] = o
                  /\ c.obj # 0 => ses[c.of] = c.obj
  PROVE  Table(ses, [s EXCEPT ![o] = y], [cs EXCEPT ![h] = c], keeps)
<1> DEFINE r == [s EXCEPT ![o] = y]
           ds == [cs EXCEPT ![h] = c]
<1>1. r[o] = y /\ \A q \in Ids : q # o => r[q] = s[q]
  OBVIOUS
<1>2. ds[h] = c /\ \A g \in Threads : g # h => ds[g] = cs[g]
  OBVIOUS
<1>3. \A g \in Threads : cs[g].obj # 0 => cs[g].obj \in Ids
  BY DEF Calls
<1> HIDE DEF r, ds
<1>4. \A t \in Terminals : ses[t] # 0 => r[ses[t]].of = t
  <2> SUFFICES ASSUME NEW t \in Terminals, ses[t] # 0 PROVE r[ses[t]].of = t
    OBVIOUS
  <2>1. s[ses[t]].of = t
    BY DEF Table
  <2>2. CASE ses[t] = o
    BY <1>1, <2>1, <2>2
  <2>3. CASE ses[t] # o
    <3>1. r[ses[t]] = s[ses[t]]
      BY <2>3 DEF r
    <3> QED BY <2>1, <3>1
  <2> QED BY <2>2, <2>3
<1>5. ASSUME NEW g \in Threads PROVE CallInv(ses, r, g, ds[g])
  <2>1. CASE g = h
    BY <1>2, <2>1 DEF r
  <2>2. CASE g # h
    <3>1. CallInv(ses, s, g, cs[g]) /\ ds[g] = cs[g]
      BY <1>2, <2>2 DEF Table
    <3>2. cs[g].obj # 0 => r[cs[g].obj] = s[cs[g].obj]
      BY <1>1, <1>3, <2>2
    <3> QED BY <3>1, <3>2 DEF CallInv
  <2> QED BY <2>1, <2>2
<1>6. \A g, i \in Threads : ds[g].obj # 0 /\ ds[g].obj = ds[i].obj => g = i
  BY <1>2 DEF Table
<1>7. keeps => /\ \A q \in Ids : r[q].pid # 0 => \E t \in Terminals : ses[t] = q
               /\ \A g \in Threads : ds[g].obj # 0 => ses[ds[g].of] = ds[g].obj
  BY <1>1, <1>2 DEF Table
<1> QED BY <1>4, <1>5, <1>6, <1>7 DEF Table, r, ds

\* An object changes that a call may use: its process is not another one.
LEMMA TableKept ==
  ASSUME NEW s \in [Ids -> Objects], NEW cs \in [Threads -> Calls], NEW keeps, NEW ses,
         Table(ses, s, cs, keeps), NEW o \in Ids, NEW y \in Objects,
         y.of = s[o].of, y.pid \in {0, s[o].pid}
  PROVE  Table(ses, [s EXCEPT ![o] = y], cs, keeps)
<1> DEFINE r == [s EXCEPT ![o] = y]
<1>1. r[o] = y /\ \A q \in Ids : q # o => r[q] = s[q]
  OBVIOUS
<1>2. \A q \in Ids : r[q].of = s[q].of /\ r[q].pid \in {0, s[q].pid}
  BY <1>1
<1>3. \A g \in Threads : cs[g].obj # 0 => cs[g].obj \in Ids
  BY DEF Calls
<1>4. \A t \in Terminals : ses[t] # 0 => r[ses[t]].of = t
  <2> SUFFICES ASSUME NEW t \in Terminals, ses[t] # 0 PROVE r[ses[t]].of = t
    OBVIOUS
  <2>1. s[ses[t]].of = t
    BY DEF Table
  <2> QED BY <2>1
<1> HIDE DEF r
<1>5. ASSUME NEW g \in Threads PROVE CallInv(ses, r, g, cs[g])
  <2>1. CallInv(ses, s, g, cs[g])
    BY DEF Table
  <2> QED BY <1>2, <1>3, <2>1 DEF CallInv
<1>6. keeps => \A q \in Ids : r[q].pid # 0 => \E t \in Terminals : ses[t] = q
  BY <1>2 DEF Table
<1> QED BY <1>4, <1>5, <1>6 DEF Table, r

\* A terminal t without session gets an object o that nothing uses.
LEMMA TableNew ==
  ASSUME NEW s \in [Ids -> Objects], NEW cs \in [Threads -> Calls], NEW keeps,
         NEW ses \in [Terminals -> Ids \cup {0}], Table(ses, s, cs, keeps),
         NEW o \in Ids, o # 0, NEW y \in Objects, NEW t \in Terminals, NEW at \in Starting,
         None \notin Terminals, ThreadOf[t] \in Threads,
         y.of = t, y.pid = 0, ses[t] = 0, \A u \in Terminals : ses[u] # o,
         \A g \in Threads : cs[g].obj # o, cs[ThreadOf[t]] = Free
  PROVE  Table([ses EXCEPT ![t] = o], [s EXCEPT ![o] = y],
               [cs EXCEPT ![ThreadOf[t]] = At(t, o, at)], keeps)
<1> DEFINE r == [s EXCEPT ![o] = y]
           st == [ses EXCEPT ![t] = o]
           h == ThreadOf[t]
           c == At(t, o, at)
           ds == [cs EXCEPT ![h] = c]
<1>1. r[o] = y /\ \A q \in Ids : q # o => r[q] = s[q]
  OBVIOUS
<1>2. st[t] = o /\ \A u \in Terminals : u # t => st[u] = ses[u]
  OBVIOUS
<1>3. ds[h] = c /\ \A g \in Threads : g # h => ds[g] = cs[g]
  OBVIOUS
<1>4. \A g \in Threads : /\ cs[g].obj # 0 => cs[g].obj \in Ids
                         /\ cs[g].of # None => cs[g].of \in Terminals
  BY DEF Calls
<1>5. c.at = at /\ c.of = t /\ c.obj = o /\ c.rest = {} /\ c.whole = FALSE
  BY DEF At, Free
<1> HIDE DEF r, st, c, ds
<1>6. \A u \in Terminals : st[u] # 0 => r[st[u]].of = u
  <2> SUFFICES ASSUME NEW u \in Terminals, st[u] # 0 PROVE r[st[u]].of = u
    OBVIOUS
  <2>1. CASE u = t
    BY <1>1, <1>2, <2>1
  <2>2. CASE u # t
    <3>1. ses[u] \in Ids /\ ses[u] # o /\ s[ses[u]].of = u /\ st[u] = ses[u]
      BY <1>2, <2>2 DEF Table
    <3> QED BY <1>1, <3>1
  <2> QED BY <2>1, <2>2
<1>7. ASSUME NEW g \in Threads PROVE CallInv(st, r, g, ds[g])
  <2>1. CASE g = h
    <3>1. \A u \in Terminals : st[u] = o => u = t
      BY <1>2
    <3>2. t # None
      OBVIOUS
    <3> QED BY <1>1, <1>3, <1>5, <2>1, <3>1, <3>2 DEF CallInv, Starting
  <2>2. CASE g # h
    <3>1. CallInv(ses, s, g, cs[g]) /\ ds[g] = cs[g]
      BY <1>3, <2>2 DEF Table
    <3>2. cs[g].obj # 0 => r[cs[g].obj] = s[cs[g].obj]
      BY <1>1, <1>4
    <3>3. \A u \in Terminals : st[u] = cs[g].obj => u = t \/ ses[u] = cs[g].obj
      BY <1>2
    <3>4. \A u \in Terminals : u # t => st[u] = ses[u]
      BY <1>2
    <3>5. cs[g].of # t
      BY <2>2, <3>1 DEF CallInv
    <3>6. st[t] # cs[g].obj
      BY <1>2
    <3>7. cs[g].obj # 0 => \A u \in Terminals : st[u] = cs[g].obj => u = cs[g].of
      BY <3>1, <3>3, <3>6 DEF CallInv
    <3>8. cs[g].at = "close" => cs[g].of # None /\ st[cs[g].of] \in {0, cs[g].obj}
      BY <1>4, <3>1, <3>4, <3>5 DEF CallInv
    <3>9. cs[g].whole => \A u \in Terminals : ThreadOf[u] = g /\ st[u] # 0 =>
                           u \in cs[g].rest \/ (cs[g].at = "close" /\ u = cs[g].of)
      BY <2>2, <3>1, <3>4 DEF CallInv
    <3> QED BY <3>1, <3>2, <3>7, <3>8, <3>9 DEF CallInv
  <2> QED BY <2>1, <2>2
<1>8. \A g, i \in Threads : ds[g].obj # 0 /\ ds[g].obj = ds[i].obj => g = i
  BY <1>3, <1>5 DEF Table
<1>9. keeps => /\ \A q \in Ids : r[q].pid # 0 => \E u \in Terminals : st[u] = q
               /\ \A g \in Threads : ds[g].obj # 0 => st[ds[g].of] = ds[g].obj
  <2> SUFFICES ASSUME keeps PROVE /\ \A q \in Ids : r[q].pid # 0 => \E u \in Terminals : st[u] = q
               /\ \A g \in Threads : ds[g].obj # 0 => st[ds[g].of] = ds[g].obj
    OBVIOUS
  <2>1. \A q \in Ids : r[q].pid # 0 => \E u \in Terminals : st[u] = q
    <3> SUFFICES ASSUME NEW q \in Ids, r[q].pid # 0 PROVE \E u \in Terminals : st[u] = q
      OBVIOUS
    <3>1. q # o /\ s[q].pid # 0
      BY <1>1
    <3>2. PICK u \in Terminals : ses[u] = q
      BY <3>1 DEF Table
    <3>3. u # t
      BY <3>2, TerminalAssumption
    <3> QED BY <1>2, <3>2, <3>3
  <2>2. ASSUME NEW g \in Threads, ds[g].obj # 0 PROVE st[ds[g].of] = ds[g].obj
    <3>1. CASE g = h
      BY <1>2, <1>3, <1>5, <3>1
    <3>2. CASE g # h
      <4>1. ds[g] = cs[g] /\ ses[cs[g].of] = cs[g].obj
        BY <1>3, <2>2, <3>2 DEF Table
      <4>2. cs[g].of \in Terminals /\ cs[g].of # t
        BY <1>4, <2>2, <3>2, <4>1 DEF Table, CallInv
      <4> QED BY <1>2, <4>1, <4>2
    <3> QED BY <3>1, <3>2
  <2> QED BY <2>1, <2>2
<1> QED BY <1>6, <1>7, <1>8, <1>9 DEF Table, r, st, ds, c

LEMMA EndsChange ==
  ASSUME NEW s \in [Ids -> Objects], NEW a, NEW k, NEW ds, Sound(s, a, k, ds), Ends(s, a),
         NEW o \in Ids, NEW y, NEW b, \A p \in a : p \in b \/ p = s[o].pid,
         y.pid # 0 /\ y.pid \notin b => \E i \in 1..Len(y.queue) : y.queue[i] = exit
  PROVE  Ends([s EXCEPT ![o] = y], b)
<1> DEFINE r == [s EXCEPT ![o] = y]
<1>1. r[o] = y /\ \A q \in Ids : q # o => r[q] = s[q]
  OBVIOUS
<1>2. \A q \in Ids : q # o /\ s[q].pid # 0 => s[q].pid # s[o].pid
  BY DEF Sound
<1> HIDE DEF r
<1>3. ASSUME NEW q \in Ids, r[q].pid # 0, r[q].pid \notin b
      PROVE  \E i \in 1..Len(r[q].queue) : r[q].queue[i] = exit
  <2>1. CASE q = o
    BY <1>1, <1>3, <2>1
  <2>2. CASE q # o
    <3>1. r[q] = s[q] /\ s[q].pid \notin a
      BY <1>1, <1>2, <1>3, <2>2
    <3> QED BY <1>3, <3>1 DEF Ends
  <2> QED BY <2>1, <2>2
<1> QED BY <1>3 DEF Ends, r

LEMMA CompleteChange ==
  ASSUME NEW s \in [Ids -> Objects], NEW cs \in [Threads -> Calls], NEW owes, Complete(s, cs, owes),
         NEW o \in Ids, NEW y, NEW ds, NEW owed2,
         \A q \in Ids : q # o => owed2[q] = owes[q],
         \A h \in Threads : ds[h].at \in Starting => ds[h].obj = o \/ ds[h] = cs[h],
         Works(o, [s EXCEPT ![o] = y], ds) => y.history \o Pieces(y.queue) = owed2[o]
  PROVE  Complete([s EXCEPT ![o] = y], ds, owed2)
<1> DEFINE r == [s EXCEPT ![o] = y]
<1>1. r[o] = y /\ \A q \in Ids : q # o => r[q] = s[q]
  OBVIOUS
<1> HIDE DEF r
<1>2. ASSUME NEW q \in Ids, Works(q, r, ds)
      PROVE  r[q].history \o Pieces(r[q].queue) = owed2[q]
  <2>1. CASE q = o
    BY <1>1, <1>2, <2>1 DEF r
  <2>2. CASE q # o
    <3>1. Works(q, s, cs)
      BY <1>1, <1>2, <2>2 DEF Works
    <3> QED BY <1>1, <2>2, <3>1 DEF Complete
  <2> QED BY <2>1, <2>2
<1> QED BY <1>2 DEF Complete, r

LEMMA ShowingChange ==
  ASSUME NEW s \in [Ids -> Objects], NEW ses \in [Terminals -> Ids \cup {0}], NEW cs, NEW shows,
         Showing(ses, s, cs, shows), NEW o \in Ids, NEW y, NEW st, NEW ds, NEW shown2,
         \A t \in Terminals : st[t] = o /\ y.pid # 0 /\ ~Clearing(ds, t) => shown2[t] = y.history,
         \A t \in Terminals : st[t] # o /\ st[t] # 0 =>
            st[t] = ses[t] /\ shown2[t] = shows[t] /\ (Clearing(cs, t) => Clearing(ds, t))
  PROVE  Showing(st, [s EXCEPT ![o] = y], ds, shown2)
<1> DEFINE r == [s EXCEPT ![o] = y]
<1>1. r[o] = y /\ \A q \in Ids : q # o => r[q] = s[q]
  OBVIOUS
<1> HIDE DEF r
<1>2. ASSUME NEW t \in Terminals, st[t] # 0, r[st[t]].pid # 0, ~Clearing(ds, t)
      PROVE  shown2[t] = r[st[t]].history
  <2>1. CASE st[t] = o
    BY <1>1, <1>2, <2>1
  <2>2. CASE st[t] # o
    <3>1. st[t] = ses[t] /\ shown2[t] = shows[t] /\ ~Clearing(cs, t) /\ st[t] \in Ids
      BY <1>2, <2>2
    <3>2. r[st[t]] = s[ses[t]]
      BY <1>1, <2>2, <3>1
    <3> QED BY <1>2, <3>1, <3>2 DEF Showing
  <2> QED BY <2>1, <2>2
<1> QED BY <1>2 DEF Showing, r

LEMMA ShowingOfKept ==
  ASSUME NEW s \in [Ids -> Objects], NEW ses \in [Terminals -> Ids \cup {0}], NEW cs, NEW shows,
         Showing(ses, s, cs, shows), NEW o \in Ids, NEW y, NEW shown2,
         \A t \in Terminals : ses[t] = o /\ y.pid # 0 /\ ~Clearing(cs, t) => shown2[t] = y.history,
         \A t \in Terminals : ses[t] # o /\ ses[t] # 0 => shown2[t] = shows[t]
  PROVE  Showing(ses, [s EXCEPT ![o] = y], cs, shown2)
BY ShowingChange

\* The change of an object that keeps its history.
LEMMA FiledKept ==
  ASSUME NEW s \in [Ids -> Objects], NEW ses \in [Terminals -> Ids \cup {0}], NEW lf, NEW wait,
         NEW writes, NEW files, Filed(ses, s, lf, wait, writes, files),
         NEW o \in Ids, NEW y, y.history = s[o].history
  PROVE  Filed(ses, [s EXCEPT ![o] = y], lf, wait, writes, files)
<1> DEFINE r == [s EXCEPT ![o] = y]
<1>1. \A q \in Ids : r[q].history = s[q].history
  OBVIOUS
<1> HIDE DEF r
<1>2. \A t \in Terminals : Held(ses, r, lf, t) = Held(ses, s, lf, t)
  BY <1>1 DEF Held
<1> QED BY <1>2 DEF Filed, r

\* The change of the object o of terminal t, whose history is enqueued.
LEMMA FiledEnqueued ==
  ASSUME NEW s \in [Ids -> Objects], NEW ses \in [Terminals -> Ids \cup {0}], NEW lf,
         NEW wait \in [Terminals -> SUBSET Seq(Nat)],
         NEW writes, NEW files, Filed(ses, s, lf, wait, writes, files),
         NEW o \in Ids, o # 0, NEW y, NEW t \in Terminals, NEW st,
         st[t] = o, \A u \in Terminals : u # t => st[u] = ses[u] /\ ses[u] # o
  PROVE  Filed(st, [s EXCEPT ![o] = y], lf, [wait EXCEPT ![t] = {y.history}], writes, files)
<1> DEFINE r == [s EXCEPT ![o] = y]
           wt == [wait EXCEPT ![t] = {y.history}]
<1>1. r[o] = y /\ \A q \in Ids : q # o => r[q] = s[q]
  OBVIOUS
<1>2. wt[t] = {y.history} /\ \A u \in Terminals : u # t => wt[u] = wait[u]
  OBVIOUS
<1> HIDE DEF r, wt
<1>3. Held(st, r, lf, t) = y.history
  BY <1>1 DEF Held
<1>4. \A u \in Terminals : u # t => Held(st, r, lf, u) = Held(ses, s, lf, u)
  BY <1>1 DEF Held
<1> QED BY <1>2, <1>3, <1>4 DEF Filed, r, wt

\* A new object of terminal t has the history of its file, all being written.
LEMMA FiledNew ==
  ASSUME NEW s \in [Ids -> Objects], NEW ses \in [Terminals -> Ids \cup {0}], NEW lf,
         NEW wait, NEW writes, NEW files, Filed(ses, s, lf, wait, writes, files),
         NEW o \in Ids, o # 0, NEW y, NEW t \in Terminals, ses[t] = 0,
         \A u \in Terminals : ses[u] # o, y.history = files[t], wait[t] = {},
         \A w \in writes : w.of # t
  PROVE  Filed([ses EXCEPT ![t] = o], [s EXCEPT ![o] = y], lf, wait, writes, files)
<1> DEFINE r == [s EXCEPT ![o] = y]
           st == [ses EXCEPT ![t] = o]
<1>1. r[o] = y /\ \A q \in Ids : q # o => r[q] = s[q]
  OBVIOUS
<1>2. st[t] = o /\ \A u \in Terminals : u # t => st[u] = ses[u]
  OBVIOUS
<1> HIDE DEF r, st
<1>3. Held(st, r, lf, t) = files[t]
  BY <1>1, <1>2 DEF Held
<1>4. \A u \in Terminals : u # t => Held(st, r, lf, u) = Held(ses, s, lf, u)
  BY <1>1, <1>2 DEF Held
<1>5. ASSUME NEW u \in Terminals
      PROVE  /\ \A text \in wait[u] : text = Held(st, r, lf, u)
             /\ wait[u] = {} => /\ \A w \in writes : w.of = u => w.text = Held(st, r, lf, u)
                                /\ (\A w \in writes : w.of # u) => files[u] = Held(st, r, lf, u)
  <2>1. CASE u = t
    BY <1>3, <2>1
  <2>2. CASE u # t
    BY <1>4, <2>2 DEF Filed
  <2> QED BY <2>1, <2>2
<1> QED BY <1>5 DEF Filed, r, st

-----------------------------------------------------------------------------
(* Queues and histories.                                                     *)

\* What sequences of events hold of output.
LEMMA PiecesOfNone ==
  Pieces(<<>>) = <<>>
BY DEF Pieces

LEMMA EndsOnce ==
  ASSUME NEW q \in Seq(Nat)
  PROVE  /\ Pieces(q) \in Seq(Nat)
         /\ (\A i \in 1..Len(q) : q[i] # exit) => Pieces(q) = q
<1>1. Len(q) \in Nat /\ \A i \in 1..Len(q) : q[i] \in Nat
  BY LenProperties, ElementOfSeq
<1>2. q # <<>> => Len(q) \in Nat \ {0}
  BY EmptySeq
<1>3. Pieces(q) \in Seq(Nat)
  <2>1. \A i \in 1..(Len(q) - 1) : q[i] \in Nat
    BY <1>1
  <2>2. SubSeq(q, 1, Len(q) - 1) \in Seq(Nat)
    <3>1. 1 \in Int /\ Len(q) - 1 \in Int
      BY <1>1
    <3> QED BY <2>1, <3>1, SubSeqProperties
  <2> QED BY <2>2 DEF Pieces
<1>4. ASSUME \A i \in 1..Len(q) : q[i] # exit PROVE Pieces(q) = q
  <2>1. q # <<>> => Len(q) \in 1..Len(q)
    BY <1>2
  <2> QED BY <1>4, <2>1 DEF Pieces
<1> QED BY <1>3, <1>4

\* Output is queued behind output, the exit behind all output.
LEMMA PiecesOfAppend ==
  ASSUME NEW q \in Seq(Nat), NEW e \in Nat, \A i \in 1..Len(q) : q[i] # exit
  PROVE  Pieces(Append(q, e)) = IF e = exit THEN q ELSE Append(q, e)
<1> DEFINE r == Append(q, e)
           n == Len(q)
<1>1. r \in Seq(Nat) /\ r # <<>> /\ Len(r) = n + 1 /\ r[n + 1] = e /\ \A i \in 1..n : r[i] = q[i]
  BY AppendProperties
<1>2. n \in Nat
  BY LenProperties
<1>3. ASSUME e # exit PROVE Pieces(r) = r
  <2> HIDE DEF r, n
  <2> QED BY <1>1, <1>3 DEF Pieces
<1>4. ASSUME e = exit PROVE Pieces(r) = q
  <2>1. Pieces(r) = SubSeq(r, 1, n)
    <3>1. Len(r) - 1 = n
      <4> HIDE DEF r, n
      <4> QED BY <1>1, <1>2
    <3> HIDE DEF r, n
    <3> QED BY <1>1, <1>4, <3>1 DEF Pieces
  <2>2. \A i \in 1..n : r[i] \in Nat
    BY <1>1, ElementOfSeq
  <2>3. /\ SubSeq(r, 1, n) \in Seq(Nat)
        /\ Len(SubSeq(r, 1, n)) = IF 1 <= n THEN n - 1 + 1 ELSE 0
        /\ \A i \in 1..(n - 1 + 1) : SubSeq(r, 1, n)[i] = r[1 + i - 1]
    <3>1. 1 \in Int /\ n \in Int
      BY <1>2
    <3> HIDE DEF r, n
    <3> QED BY <2>2, <3>1, SubSeqProperties
  <2> DEFINE w == SubSeq(r, 1, n)
  <2>4. Len(w) = n /\ \A i \in 1..n : w[i] = q[i]
    <3> HIDE DEF r, n
    <3> QED BY <1>1, <1>2, <2>3
  <2> HIDE DEF r
  <2>5. w = q
    <3>1. w \in Seq(Nat)
      BY <2>3
    <3> HIDE DEF w
    <3> QED BY <2>4, <3>1, SeqEqual
  <2> QED BY <2>1, <2>5
<1> QED BY <1>3, <1>4

\* The first piece and those after it.
LEMMA PiecesOfTail ==
  ASSUME NEW q \in Seq(Nat), q # <<>>, Head(q) # exit
  PROVE  <<Head(q)>> \o Pieces(Tail(q)) = Pieces(q)
<1> DEFINE n == Len(q)
           t == Tail(q)
<1>1. n \in Nat \ {0} /\ \A i \in 1..n : q[i] \in Nat
  BY EmptySeq, ElementOfSeq
<1>2. t \in Seq(Nat) /\ Len(t) = n - 1 /\ \A i \in 1..(n - 1) : t[i] = q[i + 1]
  BY HeadTailProperties
<1>3. Head(q) = q[1] /\ q[1] \in Nat
  BY <1>1
<1>4. q = <<q[1]>> \o t
  <2>1. <<q[1]>> \in Seq(Nat) /\ Len(<<q[1]>>) = 1 /\ <<q[1]>>[1] = q[1]
    BY <1>3
  <2> DEFINE w == <<q[1]>> \o t
             u == <<q[1]>>
  <2> HIDE DEF t, u
  <2>2. /\ w \in Seq(Nat) /\ Len(w) = Len(u) + Len(t)
        /\ \A i \in 1..(Len(u) + Len(t)) : w[i] = IF i <= Len(u) THEN u[i] ELSE t[i - Len(u)]
    BY <1>2, <2>1, ConcatProperties DEF u
  <2>3. Len(w) = n /\ \A i \in 1..n : w[i] = q[i]
    <3> HIDE DEF w, n
    <3>1. Len(u) = 1 /\ u[1] = q[1]
      BY <2>1 DEF u
    <3>2. Len(w) = n
      BY <1>1, <1>2, <2>2, <3>1
    <3>3. ASSUME NEW i \in 1..n PROVE w[i] = q[i]
      <4>1. i \in 1..(Len(u) + Len(t)) /\ w[i] = IF i <= 1 THEN u[i] ELSE t[i - 1]
        BY <1>1, <1>2, <2>2, <3>1
      <4>2. CASE i = 1
        BY <3>1, <4>1, <4>2
      <4>3. CASE i # 1
        <5>1. i - 1 \in 1..(n - 1) /\ i - 1 + 1 = i /\ ~ (i <= 1)
          BY <1>1, <4>3
        <5> QED BY <1>2, <4>1, <5>1
      <4> QED BY <4>2, <4>3
    <3> QED BY <3>2, <3>3
  <2> HIDE DEF w
  <2>4. w = q
    BY <2>2, <2>3, SeqEqual
  <2> QED BY <2>4 DEF w
<1>5. CASE q[n] # exit
  <2>1. Pieces(q) = q
    BY <1>5 DEF Pieces
  <2>2. Pieces(t) = t
    <3>1. CASE n = 1
      <4>1. t = <<>>
        <5> HIDE DEF t, n
        <5>1. t \in Seq(Nat) /\ Len(t) = 0
          BY <1>2, <3>1
        <5>2. t # <<>> => Len(t) \in Nat \ {0}
          BY <5>1, EmptySeq
        <5> QED BY <5>1, <5>2
      <4> QED BY <4>1 DEF Pieces
    <3>2. CASE n # 1
      <4>1. t[Len(t)] = q[n]
        <5> HIDE DEF t, n
        <5>1. Len(t) \in 1..(n - 1) /\ Len(t) + 1 = n
          BY <1>1, <1>2, <3>2
        <5> QED BY <1>2, <5>1
      <4> QED BY <1>5, <4>1 DEF Pieces
    <3> QED BY <3>1, <3>2
  <2> QED BY <1>3, <1>4, <2>1, <2>2
<1>6. CASE q[n] = exit
  <2>1. n # 1 /\ n - 1 \in 1..n /\ n - 2 \in Nat
    <3>1. n # 1
      BY <1>3, <1>6
    <3> HIDE DEF n
    <3> QED BY <1>1, <3>1
  <2>2. Pieces(q) = SubSeq(q, 1, n - 1)
    BY <1>6 DEF Pieces
  <2>3. t[Len(t)] = exit /\ t # <<>>
    <3> HIDE DEF t, n
    <3>1. Len(t) \in 1..(n - 1) /\ Len(t) + 1 = n
      BY <1>1, <1>2, <2>1
    <3>2. t[Len(t)] = exit
      BY <1>2, <1>6, <3>1
    <3>3. t # <<>>
      BY <1>2, <3>1, EmptySeq
    <3> QED BY <3>2, <3>3
  <2>4. Pieces(t) = SubSeq(t, 1, n - 2)
    <3>1. Pieces(t) = SubSeq(t, 1, Len(t) - 1)
      BY <2>3 DEF Pieces
    <3>2. Len(t) - 1 = n - 2
      <4> HIDE DEF t, n
      <4> QED BY <1>1, <1>2
    <3> QED BY <3>1, <3>2
  <2> DEFINE m == n - 1
             v == SubSeq(t, 1, n - 2)
             z == SubSeq(q, 1, n - 1)
             u == <<q[1]>>
  <2>5. v \in Seq(Nat) /\ Len(v) = n - 2 /\ \A i \in 1..(n - 2) : v[i] = q[i + 1]
    <3> HIDE DEF t, n
    <3>1. \A i \in 1..(n - 2) : t[i] \in Nat /\ t[i] = q[i + 1]
      <4> SUFFICES ASSUME NEW i \in 1..(n - 2) PROVE t[i] \in Nat /\ t[i] = q[i + 1]
        OBVIOUS
      <4>1. i \in 1..(n - 1) /\ i + 1 \in 1..n
        BY <1>1
      <4> QED BY <1>1, <1>2, <4>1
    <3>2. n - 2 \in Int /\ 1 \in Int
      BY <2>1
    <3>3. /\ SubSeq(t, 1, n - 2) \in Seq(Nat)
          /\ Len(SubSeq(t, 1, n - 2)) = IF 1 <= n - 2 THEN n - 2 - 1 + 1 ELSE 0
          /\ \A i \in 1..(n - 2 - 1 + 1) : SubSeq(t, 1, n - 2)[i] = t[1 + i - 1]
      BY <3>1, <3>2, SubSeqProperties
    <3>4. (IF 1 <= n - 2 THEN n - 2 - 1 + 1 ELSE 0) = n - 2 /\ n - 2 - 1 + 1 = n - 2
      BY <1>1, <2>1
    <3>5. \A i \in 1..(n - 2) : 1 + i - 1 = i
      BY <2>1
    <3> QED BY <3>1, <3>3, <3>4, <3>5
  <2>6. z \in Seq(Nat) /\ Len(z) = n - 1 /\ \A i \in 1..(n - 1) : z[i] = q[i]
    <3>1. \A i \in 1..(n - 1) : q[i] \in Nat
      <4> HIDE DEF n
      <4> QED BY <1>1
    <3>2. n - 1 \in Int /\ 1 \in Int
      BY <2>1
    <3> HIDE DEF n
    <3>3. /\ SubSeq(q, 1, n - 1) \in Seq(Nat)
          /\ Len(SubSeq(q, 1, n - 1)) = IF 1 <= n - 1 THEN n - 1 - 1 + 1 ELSE 0
          /\ \A i \in 1..(n - 1 - 1 + 1) : SubSeq(q, 1, n - 1)[i] = q[1 + i - 1]
      BY <3>1, <3>2, SubSeqProperties
    <3>4. (IF 1 <= n - 1 THEN n - 1 - 1 + 1 ELSE 0) = n - 1 /\ n - 1 - 1 + 1 = n - 1
      BY <1>1, <2>1
    <3>5. \A i \in 1..(n - 1) : 1 + i - 1 = i
      BY <2>1
    <3> QED BY <3>3, <3>4, <3>5
  <2>7. u \in Seq(Nat) /\ Len(u) = 1 /\ u[1] = q[1]
    BY <1>3
  <2> HIDE DEF u, v, z, n
  <2>8. /\ u \o v \in Seq(Nat)
        /\ Len(u \o v) = Len(u) + Len(v)
        /\ \A i \in 1..(Len(u) + Len(v)) : (u \o v)[i] = IF i <= Len(u) THEN u[i] ELSE v[i - Len(u)]
    <3>1. u \in Seq(Nat) /\ v \in Seq(Nat)
      BY <2>5, <2>7
    <3> QED BY <3>1, ConcatProperties
  <2> DEFINE w == u \o v
  <2>9. Len(w) = Len(z) /\ \A i \in 1..Len(w) : w[i] = z[i]
    <3> HIDE DEF w
    <3>1. Len(w) = n - 1
      BY <1>1, <2>5, <2>7, <2>8 DEF w
    <3>2. ASSUME NEW i \in 1..(n - 1) PROVE w[i] = z[i]
      <4>1. CASE i = 1
        BY <1>1, <2>5, <2>6, <2>7, <2>8, <4>1 DEF w
      <4>2. CASE i # 1
        <5>1. i - 1 \in 1..(n - 2) /\ i - 1 + 1 = i /\ ~ (i <= 1) /\ i \in 1..(Len(u) + Len(v))
          BY <1>1, <2>1, <2>5, <2>7, <4>2
        <5> QED BY <2>5, <2>6, <2>7, <2>8, <5>1 DEF w
      <4> QED BY <4>1, <4>2
    <3> QED BY <2>6, <3>1, <3>2
  <2>10. w = z
    <3>1. w \in Seq(Nat)
      BY <2>8
    <3> HIDE DEF w
    <3> QED BY <2>6, <2>9, <3>1, SeqEqual
  <2> QED BY <1>3, <2>2, <2>4, <2>10 DEF u, v, z
<1> QED BY <1>5, <1>6

\* The first piece moves from the queue to the history.
LEMMA PieceTaken ==
  ASSUME NEW h \in Seq(Nat), NEW q \in Seq(Nat), q # <<>>, Head(q) # exit
  PROVE  Append(h, Head(q)) \o Pieces(Tail(q)) = h \o Pieces(q)
<1>1. Head(q) \in Nat /\ Tail(q) \in Seq(Nat)
  BY HeadTailProperties
<1>2. Pieces(Tail(q)) \in Seq(Nat)
  BY <1>1, EndsOnce
<1>3. Append(h, Head(q)) = h \o <<Head(q)>> /\ <<Head(q)>> \in Seq(Nat)
  BY <1>1, AppendIsConcat
<1>4. (h \o <<Head(q)>>) \o Pieces(Tail(q)) = h \o (<<Head(q)>> \o Pieces(Tail(q)))
  BY <1>2, <1>3, ConcatAssociative
<1> QED BY <1>3, <1>4, PiecesOfTail

LEMMA PieceQueued ==
  ASSUME NEW h \in Seq(Nat), NEW q \in Seq(Nat), NEW e \in Nat, \A i \in 1..Len(q) : q[i] # exit
  PROVE  h \o Pieces(Append(q, e)) = IF e = exit THEN h \o Pieces(q) ELSE Append(h \o Pieces(q), e)
<1>1. Pieces(q) = q
  BY EndsOnce
<1>2. e # exit => h \o Append(q, e) = Append(h \o q, e)
  <2>1. Append(q, e) = q \o <<e>> /\ <<e>> \in Seq(Nat)
    BY AppendIsConcat
  <2>2. h \o q \in Seq(Nat)
    BY ConcatProperties
  <2>3. Append(h \o q, e) = (h \o q) \o <<e>>
    BY <2>2, AppendIsConcat
  <2>4. (h \o q) \o <<e>> = h \o (q \o <<e>>)
    BY <2>1, ConcatAssociative
  <2> QED BY <2>1, <2>3, <2>4
<1> QED BY <1>1, <1>2, PiecesOfAppend

-----------------------------------------------------------------------------
(* The operations.                                                           *)

\* What the invariant says of a terminal, of its session and of the call of
\* its thread.
LEMMA OfTerminal ==
  ASSUME AllInv, NEW t \in Terminals
  PROVE  /\ ThreadOf[t] \in Threads /\ t # None /\ 0 \notin Ids
         /\ sessions[t] # 0 =>
              /\ sessions[t] \in Ids /\ session[sessions[t]].of = t
              /\ \A u \in Terminals : sessions[u] = sessions[t] => u = t
              /\ \A g \in Threads : g # ThreadOf[t] => call[g].obj # sessions[t]
<1>1. ThreadOf[t] \in Threads /\ t # None /\ 0 \notin Ids
  BY TerminalAssumption
<1>2. ASSUME sessions[t] # 0
      PROVE  /\ sessions[t] \in Ids /\ session[sessions[t]].of = t
             /\ \A u \in Terminals : sessions[u] = sessions[t] => u = t
             /\ \A g \in Threads : g # ThreadOf[t] => call[g].obj # sessions[t]
  <2>1. \A u \in Terminals : sessions[u] # 0 => session[sessions[u]].of = u
    BY DEF AllInv, Table
  <2>2. \A g \in Threads : CallInv(sessions, session, g, call[g])
    BY DEF AllInv, Table
  <2>3. sessions[t] \in Ids
    BY <1>2 DEF AllInv, TypeOK
  <2>4. ASSUME NEW g \in Threads, g # ThreadOf[t] PROVE call[g].obj # sessions[t]
    BY <1>2, <2>2, <2>4, <1>1 DEF CallInv
  <2> QED BY <1>2, <2>1, <2>3, <2>4
<1> QED BY <1>1, <1>2

LEMMA IdleCall ==
  ASSUME AllInv, NEW h \in Threads, call[h] = Free
  PROVE  call[h].at = "idle" /\ ~call[h].whole /\ call[h].rest = {}
BY DEF Free

(* The object o of terminal t becomes y, and the call of its thread c.       *)
SessionChange(t, o, y, c, notes) ==
  /\ sessions[t] = o /\ o # 0
  /\ call[ThreadOf[t]].at \in {"idle", "next"}
  /\ call' = [call EXCEPT ![ThreadOf[t]] = c]
  /\ c.obj = o /\ c.of = t /\ c.at \in {"persist", "clear", "close"}
  /\ c.at # "close" => ~c.whole
  /\ \A u \in c.rest : ThreadOf[u] = ThreadOf[t]
  /\ c.whole => \A u \in Terminals : ThreadOf[u] = ThreadOf[t] /\ sessions[u] # 0 => u \in c.rest \/ u = t
  /\ y.of = t /\ y.queue = <<>> /\ ~y.draining
  /\ y.pid # 0 => c.at = "clear" /\ y.pid = session[o].pid /\ y.status = session[o].status
  /\ LetGo' = LetGo \cup ({session[o].pid} \ {y.pid, 0})
  /\ owed' = [owed EXCEPT ![o] = y.history]
  /\ waiting' = [waiting EXCEPT ![t] = {y.history}]
  /\ UNCHANGED Elsewhere /\ budget' \in [Kinds -> Nat] /\ notes \subseteq Races
  /\ y.pid # 0 /\ y.pid \notin alive =>
       "exit_cleared" \in notes \/ ~ \E i \in 1..Len(session[o].queue) : session[o].queue[i] = exit

\* The session of a terminal is stopped, emptied or cleared.
LEMMA SessionStep ==
  ASSUME AllInv, NEW t \in Terminals, NEW o \in Ids, NEW y \in Objects, NEW c \in Calls, NEW notes,
         SessionChange(t, o, y, c, notes)
  PROVE  Middle(sessions, [session EXCEPT ![o] = y], notes)
<1> USE DEF SessionChange
<1> DEFINE h == ThreadOf[t]
           obj == [session EXCEPT ![o] = y]
<1>1. /\ h \in Threads /\ t # None /\ 0 \notin Ids
      /\ o \in Ids /\ session[o].of = t /\ o # 0
      /\ \A u \in Terminals : sessions[u] = o => u = t
      /\ \A g \in Threads : g # h => call[g].obj # o
  BY OfTerminal
<1>2. /\ TypeOK /\ Sound(session, alive, LetGo, drains)
      /\ Table(sessions, session, call, Keeps)
      /\ Single(waiting, writing)
  BY DEF AllInv
<1>3. /\ session \in [Ids -> Objects] /\ call \in [Threads -> Calls]
      /\ sessions \in [Terminals -> Ids \cup {0}] /\ waiting \in [Terminals -> SUBSET Seq(Nat)]
      /\ alive \subseteq Pids /\ LetGo \subseteq Pids /\ owed \in [Ids -> Seq(Nat)]
  BY <1>2 DEF TypeOK
<1>4. session[o].pid \in Pids \cup {0} /\ y.history \in Seq(Nat) /\ 0 \notin Pids
  BY <1>1, <1>3, TerminalAssumption DEF Objects
<1>5. /\ alive' = alive /\ drains' = drains /\ writing' = writing /\ file' = file
      /\ shown' = shown /\ said' = said
  BY DEF Elsewhere
<1>6. obj \in [Ids -> Objects]
  BY <1>3
<1>7. RestTypes'
  <2>1. /\ call' \in [Threads -> Calls] /\ owed' \in [Ids -> Seq(Nat)]
        /\ waiting' \in [Terminals -> SUBSET Seq(Nat)] /\ LetGo' \subseteq Pids
    BY <1>3, <1>4
  <2> QED BY <1>2, <1>5, <2>1 DEF RestTypes, TypeOK
<1>8. Sound(obj, alive', LetGo', drains')
  <2>1. ObjectInv(session[o], o, alive, LetGo, drains)
    BY <1>1, <1>2 DEF Sound
  <2>2. ObjectInv(y, o, alive, LetGo', drains)
    <3>1. y.pid # 0 => y.status = "running" /\ y.pid \notin LetGo'
      BY <2>1 DEF ObjectInv
    <3>2. Len(y.queue) = 0
      OBVIOUS
    <3>3. 1..Len(y.queue) = {}
      BY <3>2
    <3> QED BY <3>1, <3>3 DEF ObjectInv
  <2>3. y.pid # 0 => \A q \in Ids : q # o => session[q].pid # y.pid
    BY <1>1, <1>2 DEF Sound
  <2>4. \A p \in LetGo' : p \in LetGo \/ p = session[o].pid \/ \A q \in Ids : session[q].pid # p
    OBVIOUS
  <2>5. \A p \in alive : p \in LetGo' \/ p = y.pid \/ (p \notin LetGo /\ p # session[o].pid)
    BY <1>3, <1>4
  <2> HIDE DEF obj, SessionChange
  <2>6. Sound([session EXCEPT ![o] = y], alive, LetGo', drains)
    BY <1>1, <1>2, <1>3, <2>2, <2>3, <2>4, <2>5, SoundChange
  <2> QED BY <1>5, <2>6 DEF obj
<1>9. Table(sessions, obj, call', Keeps)
  <2>1. obj[o] = y /\ \A q \in Ids : q # o => obj[q] = session[q]
    BY <1>1, <1>3
  <2>2. CallInv(sessions, obj, h, c)
    <3> HIDE DEF obj
    <3> QED BY <1>1, <2>1 DEF CallInv, Starting
  <2>3. Keeps => /\ y.pid # 0 => \E u \in Terminals : sessions[u] = o
                 /\ c.obj # 0 => sessions[c.of] = c.obj
    OBVIOUS
  <2> HIDE DEF h
  <2>4. Table(sessions, [session EXCEPT ![o] = y], [call EXCEPT ![h] = c], Keeps)
    BY <1>1, <1>2, <1>3, <2>2, <2>3, TableChange
  <2> QED BY <2>4 DEF h
<1>10. StillWithout(notes, {"exit_cleared", "stale_drain"}) => Ends(obj, alive')
  <2> SUFFICES ASSUME StillWithout(notes, {"exit_cleared", "stale_drain"}) PROVE Ends(obj, alive')
    OBVIOUS
  <2>1. Ends(session, alive) /\ "exit_cleared" \notin notes
    BY DEF AllInv, Without, StillWithout
  <2>2. ~ (y.pid # 0 /\ y.pid \notin alive)
    BY <1>1, <2>1 DEF Ends
  <2> HIDE DEF obj
  <2>3. Ends([session EXCEPT ![o] = y], alive)
    BY <1>1, <1>2, <1>3, <2>1, <2>2, EndsChange
  <2> QED BY <1>5, <2>3 DEF obj
<1>11. StillWithout(notes, {"stale_drain"}) => Complete(obj, call', owed')
  <2> SUFFICES ASSUME StillWithout(notes, {"stale_drain"}) PROVE Complete(obj, call', owed')
    OBVIOUS
  <2>1. Complete(session, call, owed)
    BY DEF AllInv, Without, StillWithout
  <2>2. y.history \o Pieces(y.queue) = owed'[o]
    BY <1>1, <1>3, <1>4, PiecesOfNone, ConcatEmptySeq
  <2>3. \A q \in Ids : q # o => owed'[q] = owed[q]
    BY <1>3
  <2>4. \A g \in Threads : call'[g].at \in Starting => call'[g].obj = o \/ call'[g] = call[g]
    BY <1>1, <1>3
  <2> HIDE DEF obj
  <2>5. Complete([session EXCEPT ![o] = y], call', owed')
    BY <1>1, <1>3, <2>1, <2>2, <2>3, <2>4, CompleteChange
  <2> QED BY <2>5 DEF obj
<1>12. StillWithout(notes, {"said_while_clearing", "evicted"}) => Showing(sessions, obj, call', shown')
  <2> SUFFICES ASSUME StillWithout(notes, {"said_while_clearing", "evicted"})
               PROVE  Showing(sessions, obj, call', shown')
    OBVIOUS
  <2>1. Showing(sessions, session, call, shown)
    BY DEF AllInv, Without, StillWithout
  <2>2. \A u \in Terminals : sessions[u] = o /\ y.pid # 0 /\ ~Clearing(call', u) => shown[u] = y.history
    BY <1>1, <1>3 DEF Clearing
  <2>3. \A u \in Terminals : sessions[u] # o /\ sessions[u] # 0 =>
          sessions[u] = sessions[u] /\ shown[u] = shown[u] /\ (Clearing(call, u) => Clearing(call', u))
    BY <1>1, <1>3 DEF Clearing
  <2> HIDE DEF obj
  <2>4. Showing(sessions, [session EXCEPT ![o] = y], call', shown)
    BY <1>1, <1>3, <2>1, <2>2, <2>3, ShowingChange
  <2> QED BY <1>5, <2>4 DEF obj
<1>13. StillWithout(notes, {"evicted", "undeleted", "unwritten"}) =>
         Filed(sessions, obj, left, waiting', writing', file')
  <2> SUFFICES ASSUME StillWithout(notes, {"evicted", "undeleted", "unwritten"})
               PROVE  Filed(sessions, obj, left, waiting', writing', file')
    OBVIOUS
  <2>1. Filed(sessions, session, left, waiting, writing, file)
    BY DEF AllInv, Without, StillWithout
  <2>2. \A u \in Terminals : u # t => sessions[u] = sessions[u] /\ sessions[u] # o
    BY <1>1
  <2>3. sessions[t] = o
    OBVIOUS
  <2> HIDE DEF obj
  <2>4. Filed(sessions, [session EXCEPT ![o] = y], left, [waiting EXCEPT ![t] = {y.history}], writing, file)
    BY <1>1, <1>3, <2>1, <2>2, <2>3, FiledEnqueued
  <2> QED BY <1>5, <2>4 DEF obj
<1>14. StillWithout(notes, {"evicted"}) => Keeps
  BY DEF StillWithout, Keeps, Without
<1>15. Table(sessions, obj, call', StillWithout(notes, {"evicted"}))
  <2> HIDE DEF obj
  <2> QED BY <1>9, <1>14 DEF Table
<1> HIDE DEF obj
<1>16. Single(waiting', writing')
  BY <1>2, <1>3, <1>5 DEF Single
<1>17. Middle(sessions, obj, notes)
  BY <1>2, <1>3, <1>5, <1>6, <1>7, <1>8, <1>10, <1>11, <1>12, <1>13, <1>15, <1>16 DEF Middle
<1> QED BY <1>17 DEF obj

LEMMA EmptiedSession ==
  ASSUME NEW x \in Objects
  PROVE  /\ Emptied(x) \in Objects /\ Ended(x) \in Objects
         /\ Emptied(x).of = x.of /\ Emptied(x).pid = x.pid /\ Emptied(x).status = x.status
         /\ Emptied(x).history = <<>> /\ Emptied(x).queue = <<>> /\ ~Emptied(x).draining
         /\ Ended(x).of = x.of /\ Ended(x).pid = 0 /\ Ended(x).history = x.history
         /\ Ended(x).queue = <<>> /\ ~Ended(x).draining
<1>1. <<>> \in Seq(Nat)
  BY EmptySeq
<1>2. /\ Emptied(x) \in Objects
      /\ Emptied(x).of = x.of /\ Emptied(x).pid = x.pid /\ Emptied(x).status = x.status
      /\ Emptied(x).history = <<>> /\ Emptied(x).queue = <<>> /\ ~Emptied(x).draining
  BY <1>1 DEF Objects, Emptied
<1>3. /\ Ended(x) \in Objects
      /\ Ended(x).of = x.of /\ Ended(x).pid = 0 /\ Ended(x).history = x.history
      /\ Ended(x).queue = <<>> /\ ~Ended(x).draining
  BY <1>1 DEF Objects, Ended
<1> QED BY <1>2, <1>3

\* Reopen and Restart stop the process and start over.
LEMMA RestartStep ==
  ASSUME AllInv, NEW t \in Terminals, sessions[t] # 0, NEW what \in Kinds, Spend(what),
         Enters(t, At(t, sessions[t], "persist")),
         StopThen(sessions[t], Emptied(IF session[sessions[t]].pid = 0 THEN session[sessions[t]]
                                       ELSE Ended(session[sessions[t]]))),
         Forgets(sessions[t]), Enqueue(t, <<>>), UNCHANGED Elsewhere
  PROVE  AllInv'
<1> DEFINE o == sessions[t]
           x == session[o]
           y == Emptied(IF x.pid = 0 THEN x ELSE Ended(x))
           c == At(t, o, "persist")
<1>1. /\ TypeOK /\ o \in Ids /\ x.of = t /\ ThreadOf[t] \in Threads
  BY OfTerminal DEF AllInv
<1>2. x \in Objects
  BY <1>1 DEF TypeOK
<1>3. /\ y \in Objects /\ y.of = t /\ y.pid = 0 /\ y.history = <<>> /\ y.queue = <<>> /\ ~y.draining
  BY <1>1, <1>2, EmptiedSession
<1>4. /\ c \in Calls /\ c.obj = o /\ c.of = t /\ c.at = "persist" /\ ~c.whole /\ c.rest = {}
  BY <1>1 DEF At, Free, Calls
<1>5. /\ call[ThreadOf[t]].at \in {"idle", "next"}
      /\ call' = [call EXCEPT ![ThreadOf[t]] = c]
  BY <1>1, IdleCall DEF Enters
<1>6. LetGo' = LetGo \cup ({x.pid} \ {y.pid, 0})
  BY <1>3 DEF StopThen, LetGo, Elsewhere
<1>7. budget' \in [Kinds -> Nat]
  BY <1>1 DEF Spend, TypeOK
<1>8. owed' = [owed EXCEPT ![o] = y.history] /\ waiting' = [waiting EXCEPT ![t] = {y.history}]
  BY <1>3 DEF Forgets, Enqueue
<1>9. StopThen(o, y)
  OBVIOUS
<1>10. SessionChange(t, o, y, c, {})
  <2> HIDE DEF y, c
  <2> QED BY <1>3, <1>4, <1>5, <1>6, <1>7, <1>8 DEF SessionChange
<1> HIDE DEF o, y, c
<1>11. Middle(sessions, [session EXCEPT ![o] = y], {})
  BY <1>1, <1>3, <1>4, <1>10, SessionStep
<1> QED BY <1>1, <1>9, <1>11, StopStep

LEMMA ClearStep ==
  ASSUME AllInv, NEW t \in Terminals, Clear(t)
  PROVE  AllInv'
<1> DEFINE o == sessions[t]
           x == session[o]
           y == Emptied(x)
           c == At(t, o, "clear")
           notes == Notes(\E i \in DOMAIN x.queue : x.queue[i] = exit, "exit_cleared")
<1>1. /\ TypeOK /\ o # 0 /\ o \in Ids /\ x.of = t /\ ThreadOf[t] \in Threads
  BY OfTerminal DEF AllInv, Clear
<1>2. x \in Objects
  BY <1>1 DEF TypeOK
<1>3. /\ y \in Objects /\ y.of = t /\ y.pid = x.pid /\ y.status = x.status
      /\ y.history = <<>> /\ y.queue = <<>> /\ ~y.draining
  BY <1>1, <1>2, EmptiedSession
<1>4. /\ c \in Calls /\ c.obj = o /\ c.of = t /\ c.at = "clear" /\ ~c.whole /\ c.rest = {}
  BY <1>1 DEF At, Free, Calls
<1>5. /\ call[ThreadOf[t]].at \in {"idle", "next"}
      /\ call' = [call EXCEPT ![ThreadOf[t]] = c]
  BY <1>1, IdleCall DEF Enters, Clear
<1>6. LetGo' = LetGo \cup ({x.pid} \ {y.pid, 0})
  BY <1>3 DEF Clear, LetGo, Elsewhere
<1>7. budget' \in [Kinds -> Nat]
  BY <1>1 DEF Spend, TypeOK, Clear, Kinds
<1>8. owed' = [owed EXCEPT ![o] = y.history] /\ waiting' = [waiting EXCEPT ![t] = {y.history}]
  BY <1>3 DEF Forgets, Enqueue, Clear
<1>9. Save([session EXCEPT ![o] = y], Touched(o), notes) /\ UNCHANGED Elsewhere
  BY DEF Clear
<1>10. /\ notes \subseteq Races
       /\ "exit_cleared" \in notes \/ ~ \E i \in 1..Len(x.queue) : x.queue[i] = exit
  <2>1. DOMAIN x.queue = 1..Len(x.queue)
    BY <1>2, LenProperties DEF Objects
  <2> QED BY <2>1 DEF Notes, Races
<1>11. SessionChange(t, o, y, c, notes)
  <2> HIDE DEF y, c, notes
  <2> QED BY <1>1, <1>3, <1>4, <1>5, <1>6, <1>7, <1>8, <1>9, <1>10 DEF SessionChange
<1> HIDE DEF o, y, c, notes
<1>12. Middle(sessions, [session EXCEPT ![o] = y], notes)
  BY <1>1, <1>3, <1>4, <1>11, SessionStep
<1> QED BY <1>1, <1>9, <1>12, SaveStep

\* A session is closed, on its own or with those of its thread.
LEMMA ClosingStep ==
  ASSUME AllInv, NEW t \in Terminals, sessions[t] # 0, NEW next \in Calls,
         call[ThreadOf[t]].at \in {"idle", "next"}, Closing(t, next),
         \A u \in next.rest : ThreadOf[u] = ThreadOf[t],
         next.whole => \A u \in Terminals : ThreadOf[u] = ThreadOf[t] /\ sessions[u] # 0 =>
                          u \in next.rest \/ u = t,
         UNCHANGED Elsewhere, budget' \in [Kinds -> Nat]
  PROVE  AllInv'
<1> DEFINE o == sessions[t]
           x == session[o]
           y == IF x.pid = 0 THEN x ELSE Ended(x)
           c == [next EXCEPT !.at = "close", !.of = t, !.obj = o]
<1>1. /\ TypeOK /\ o \in Ids /\ x.of = t /\ ThreadOf[t] \in Threads
  BY OfTerminal DEF AllInv
<1>2. x \in Objects
  BY <1>1 DEF TypeOK
<1>3. /\ y \in Objects /\ y.of = t /\ y.pid = 0 /\ y.history = x.history
      /\ y.queue = <<>> /\ ~y.draining
  <2>1. ObjectInv(x, o, alive, LetGo, drains)
    BY <1>1 DEF AllInv, Sound
  <2>2. x.pid = 0 => x.queue = <<>> /\ ~x.draining
    BY <2>1 DEF ObjectInv
  <2> QED BY <1>1, <1>2, <2>2, EmptiedSession
<1>4. /\ c \in Calls /\ c.obj = o /\ c.of = t /\ c.at = "close"
      /\ c.whole = next.whole /\ c.rest = next.rest
  BY <1>1 DEF Calls
<1>5. call' = [call EXCEPT ![ThreadOf[t]] = c]
  BY DEF Closing
<1>6. StopThen(o, y) /\ waiting' = [waiting EXCEPT ![t] = {y.history}]
      /\ owed' = [owed EXCEPT ![o] = y.history]
  BY <1>3 DEF Closing, Enqueue
<1>7. LetGo' = LetGo \cup ({x.pid} \ {y.pid, 0})
  BY <1>3, <1>6 DEF StopThen, LetGo, Elsewhere
<1>8. c.whole => \A u \in Terminals : ThreadOf[u] = ThreadOf[t] /\ sessions[u] # 0 => u \in c.rest \/ u = t
  BY <1>4
<1>9. SessionChange(t, o, y, c, {})
  <2> HIDE DEF y, c
  <2> QED BY <1>3, <1>4, <1>5, <1>6, <1>7, <1>8 DEF SessionChange
<1> HIDE DEF o, y, c
<1>10. Middle(sessions, [session EXCEPT ![o] = y], {})
  BY <1>1, <1>3, <1>4, <1>9, SessionStep
<1> QED BY <1>1, <1>6, <1>10, StopStep

\* A terminal that has no session gets one.
LEMMA NewStep ==
  ASSUME AllInv, NEW t \in Terminals, sessions[t] = 0, NEW o \in Ids, Unused(o),
         NEW at \in Starting, Enters(t, At(t, o, at)), NEW y \in Objects,
         y.of = t, y.pid = 0, y.queue = <<>>, ~y.draining,
         owed' = [owed EXCEPT ![o] = y.history],
         \/ waiting' = [waiting EXCEPT ![t] = {y.history}]
         \/ waiting' = waiting /\ Drained(t) /\ y.history = file[t],
         UNCHANGED <<Elsewhere, LetGo>>, budget' \in [Kinds -> Nat]
  PROVE  Middle([sessions EXCEPT ![t] = o], [session EXCEPT ![o] = y], {})
<1> DEFINE obj == [session EXCEPT ![o] = y]
           st == [sessions EXCEPT ![t] = o]
           c == At(t, o, at)
           h == ThreadOf[t]
<1>1. h \in Threads /\ t # None /\ 0 \notin Ids /\ o # 0
  BY OfTerminal
<1>2. /\ TypeOK /\ Sound(session, alive, LetGo, drains)
      /\ Table(sessions, session, call, Keeps)
      /\ Single(waiting, writing)
  BY DEF AllInv
<1>3. /\ session \in [Ids -> Objects] /\ call \in [Threads -> Calls]
      /\ sessions \in [Terminals -> Ids \cup {0}] /\ waiting \in [Terminals -> SUBSET Seq(Nat)]
      /\ alive \subseteq Pids /\ LetGo \subseteq Pids /\ owed \in [Ids -> Seq(Nat)]
      /\ y.history \in Seq(Nat) /\ 0 \notin Pids
  BY <1>2, TerminalAssumption DEF TypeOK, Objects
<1>4. /\ alive' = alive /\ drains' = drains /\ writing' = writing /\ file' = file
      /\ shown' = shown /\ said' = said /\ LetGo' = LetGo
  BY DEF Elsewhere
<1>5. /\ call[h] = Free /\ call' = [call EXCEPT ![h] = c]
      /\ c \in Calls /\ c.obj = o /\ c.of = t /\ c.at = at
  <2>1. c \in Calls /\ c.obj = o /\ c.of = t /\ c.at = at
    BY DEF At, Free, Calls, Starting
  <2> QED BY <2>1 DEF Enters
<1>6. /\ session[o].pid = 0 /\ \A u \in Terminals : sessions[u] # o
      /\ \A g \in Threads : call[g].obj # o
      /\ \A d \in drains : d.obj # o
  BY <1>1, <1>2 DEF Unused, Listed
<1>7. RestTypes'
  <2>1. /\ call' \in [Threads -> Calls] /\ owed' \in [Ids -> Seq(Nat)]
    <3> HIDE DEF c
    <3> QED BY <1>1, <1>3, <1>5
  <2>2. waiting' \in [Terminals -> SUBSET Seq(Nat)]
    <3>1. {y.history} \in SUBSET Seq(Nat)
      BY <1>3
    <3>2. [waiting EXCEPT ![t] = {y.history}] \in [Terminals -> SUBSET Seq(Nat)]
      BY <1>3, <3>1
    <3> QED BY <1>3, <3>2
  <2> QED BY <1>2, <1>4, <2>1, <2>2 DEF RestTypes, TypeOK
<1>8. Sound(obj, alive', LetGo', drains')
  <2>1. ObjectInv(y, o, alive, LetGo, drains)
    <3>1. 1..Len(y.queue) = {}
      <4>1. Len(y.queue) = 0
        OBVIOUS
      <4> QED BY <4>1
    <3> QED BY <3>1 DEF ObjectInv
  <2>2. \A p \in alive : p \in LetGo \/ p = y.pid \/ (p \notin LetGo /\ p # session[o].pid)
    BY <1>3, <1>6
  <2> HIDE DEF obj
  <2>3. Sound([session EXCEPT ![o] = y], alive, LetGo, drains)
    BY <1>2, <1>3, <1>6, <2>1, <2>2, SoundChange
  <2> QED BY <1>4, <2>3 DEF obj
<1>9. Table(st, obj, call', Keeps)
  <2>1. Table([sessions EXCEPT ![t] = o], [session EXCEPT ![o] = y],
              [call EXCEPT ![ThreadOf[t]] = At(t, o, at)], Keeps)
    BY <1>1, <1>2, <1>3, <1>5, <1>6, TableNew, TerminalAssumption
  <2> QED BY <1>5, <2>1
<1>10. StillWithout({}, {"exit_cleared", "stale_drain"}) => Ends(obj, alive')
  <2> SUFFICES ASSUME StillWithout({}, {"exit_cleared", "stale_drain"}) PROVE Ends(obj, alive')
    OBVIOUS
  <2>1. Ends(session, alive)
    BY DEF AllInv, Without, StillWithout
  <2> HIDE DEF obj
  <2>2. Ends([session EXCEPT ![o] = y], alive)
    BY <1>2, <1>3, <2>1, EndsChange
  <2> QED BY <1>4, <2>2 DEF obj
<1>11. StillWithout({}, {"stale_drain"}) => Complete(obj, call', owed')
  <2> SUFFICES ASSUME StillWithout({}, {"stale_drain"}) PROVE Complete(obj, call', owed')
    OBVIOUS
  <2>1. Complete(session, call, owed)
    BY DEF AllInv, Without, StillWithout
  <2>2. y.history \o Pieces(y.queue) = owed'[o]
    BY <1>3, PiecesOfNone, ConcatEmptySeq
  <2>3. \A q \in Ids : q # o => owed'[q] = owed[q]
    BY <1>3
  <2>4. \A g \in Threads : call'[g].at \in Starting => call'[g].obj = o \/ call'[g] = call[g]
    <3> HIDE DEF c
    <3> QED BY <1>1, <1>3, <1>5
  <2> HIDE DEF obj
  <2>5. Complete([session EXCEPT ![o] = y], call', owed')
    BY <1>3, <2>1, <2>2, <2>3, <2>4, CompleteChange
  <2> QED BY <2>5 DEF obj
<1>12. StillWithout({}, {"said_while_clearing", "evicted"}) => Showing(st, obj, call', shown')
  <2> SUFFICES ASSUME StillWithout({}, {"said_while_clearing", "evicted"})
               PROVE  Showing(st, obj, call', shown')
    OBVIOUS
  <2>1. Showing(sessions, session, call, shown)
    BY DEF AllInv, Without, StillWithout
  <2>2. \A u \in Terminals : st[u] = o /\ y.pid # 0 /\ ~Clearing(call', u) => shown[u] = y.history
    OBVIOUS
  <2>3. call[h].at # "clear"
    BY <1>1, <1>5, IdleCall
  <2>4. \A u \in Terminals : st[u] # o /\ st[u] # 0 =>
          st[u] = sessions[u] /\ shown[u] = shown[u] /\ (Clearing(call, u) => Clearing(call', u))
    <3>1. \A u \in Terminals : ThreadOf[u] \in Threads
      BY TerminalAssumption
    <3>2. \A g \in Threads : call'[g] = call[g] \/ g = h
      BY <1>3, <1>5
    <3>3. \A u \in Terminals : Clearing(call, u) => Clearing(call', u)
      BY <2>3, <3>1, <3>2 DEF Clearing
    <3>4. \A u \in Terminals : st[u] # o => st[u] = sessions[u]
      BY <1>3
    <3> QED BY <3>3, <3>4
  <2> HIDE DEF obj, st
  <2>5. Showing(st, [session EXCEPT ![o] = y], call', shown)
    BY <1>3, <2>1, <2>2, <2>4, ShowingChange
  <2> QED BY <1>4, <2>5 DEF obj
<1>13. StillWithout({}, {"evicted", "undeleted", "unwritten"}) =>
         Filed(st, obj, left, waiting', writing', file')
  <2> SUFFICES ASSUME StillWithout({}, {"evicted", "undeleted", "unwritten"})
               PROVE  Filed(st, obj, left, waiting', writing', file')
    OBVIOUS
  <2>1. Filed(sessions, session, left, waiting, writing, file)
    BY DEF AllInv, Without, StillWithout
  <2>2. st[t] = o /\ \A u \in Terminals : u # t => st[u] = sessions[u] /\ sessions[u] # o
    BY <1>3, <1>6
  <2>3. CASE waiting' = [waiting EXCEPT ![t] = {y.history}]
    <3> HIDE DEF obj, st
    <3>1. st[t] = o
      BY <2>2
    <3>2. \A u \in Terminals : u # t => st[u] = sessions[u] /\ sessions[u] # o
      BY <2>2
    <3>3. o # 0 /\ session \in [Ids -> Objects] /\ sessions \in [Terminals -> Ids \cup {0}]
          /\ waiting \in [Terminals -> SUBSET Seq(Nat)]
      BY <1>1, <1>3
    <3>4. Filed(st, [session EXCEPT ![o] = y], left, [waiting EXCEPT ![t] = {y.history}], writing, file)
      <4>1. t \in Terminals /\ o \in Ids
        OBVIOUS
      <4> QED BY ONLY <2>1, <3>1, <3>2, <3>3, <4>1, FiledEnqueued
    <3> QED BY <1>4, <2>3, <3>4 DEF obj
  <2>4. CASE waiting' = waiting /\ Drained(t) /\ y.history = file[t]
    <3>1. Filed([sessions EXCEPT ![t] = o], [session EXCEPT ![o] = y], left, waiting, writing, file)
      BY <1>1, <1>3, <1>6, <2>1, <2>4, FiledNew DEF Drained
    <3> QED BY <1>4, <2>4, <3>1
  <2> QED BY <2>3, <2>4
<1>14. StillWithout({}, {"evicted"}) => Keeps
  BY DEF StillWithout, Keeps, Without
<1>15. st \in [Terminals -> Ids \cup {0}] /\ obj \in [Ids -> Objects]
  BY <1>3
<1> HIDE DEF obj, st
<1>16. Table(st, obj, call', StillWithout({}, {"evicted"}))
  BY <1>9, <1>14 DEF Table
<1>17. Single(waiting', writing')
  BY <1>2, <1>3, <1>4 DEF Single
<1>18. Middle(st, obj, {})
  BY <1>2, <1>4, <1>7, <1>8, <1>10, <1>11, <1>12, <1>13, <1>15, <1>16, <1>17 DEF Middle
<1> QED BY <1>18 DEF st, obj

LEMMA NewObject ==
  ASSUME NEW t \in Terminals, NEW h \in Seq(Nat)
  PROVE  LET y == [New(t) EXCEPT !.history = h]
         IN /\ y \in Objects /\ y.of = t /\ y.pid = 0 /\ y.queue = <<>> /\ ~y.draining
            /\ y.history = h
<1>1. <<>> \in Seq(Nat)
  BY EmptySeq
<1> QED BY <1>1 DEF New, Objects

LEMMA OpenNewStep ==
  ASSUME AllInv, NEW t \in Terminals, OpenNew(t)
  PROVE  AllInv'
<1>1. PICK o \in {i \in Ids : Unused(i)} :
         /\ Enters(t, At(t, o, "spawn"))
         /\ Retain([sessions EXCEPT ![t] = o],
                   [session EXCEPT ![o] = [New(t) EXCEPT !.history = file[t]]], Touched(o))
         /\ owed' = [owed EXCEPT ![o] = file[t]]
  BY DEF OpenNew
<1> DEFINE y == [New(t) EXCEPT !.history = file[t]]
<1>2. TypeOK /\ file[t] \in Seq(Nat)
  BY DEF AllInv, TypeOK
<1>3. y \in Objects /\ y.of = t /\ y.pid = 0 /\ y.queue = <<>> /\ ~y.draining /\ y.history = file[t]
  BY <1>2, NewObject
<1>4. /\ sessions[t] = 0 /\ Drained(t) /\ waiting' = waiting /\ UNCHANGED <<Elsewhere, LetGo>>
      /\ budget' \in [Kinds -> Nat]
  BY <1>2 DEF OpenNew, Spend, TypeOK, Kinds, LetGo, Elsewhere
<1>5. o \in Ids /\ Unused(o) /\ "spawn" \in Starting
  BY DEF Starting
<1>6. owed' = [owed EXCEPT ![o] = y.history]
  BY <1>1, <1>3
<1> HIDE DEF y
<1>7. Middle([sessions EXCEPT ![t] = o], [session EXCEPT ![o] = y], {})
  BY <1>1, <1>3, <1>4, <1>5, <1>6, NewStep
<1> QED BY <1>1, <1>2, <1>7, RetainStep DEF y

LEMMA RestartNewStep ==
  ASSUME AllInv, NEW t \in Terminals, RestartNew(t)
  PROVE  AllInv'
<1>1. PICK o \in {i \in Ids : Unused(i)} :
         /\ Enters(t, At(t, o, "persist"))
         /\ Retain([sessions EXCEPT ![t] = o], [session EXCEPT ![o] = New(t)], Touched(o))
         /\ Forgets(o)
  BY DEF RestartNew
<1> DEFINE y == New(t)
<1>2. TypeOK
  BY DEF AllInv
<1>3. y \in Objects /\ y.of = t /\ y.pid = 0 /\ y.queue = <<>> /\ ~y.draining /\ y.history = <<>>
  <2>1. <<>> \in Seq(Nat)
    BY EmptySeq
  <2> QED BY <2>1 DEF New, Objects
<1>4. /\ sessions[t] = 0 /\ UNCHANGED <<Elsewhere, LetGo>>
      /\ waiting' = [waiting EXCEPT ![t] = {y.history}]
      /\ budget' \in [Kinds -> Nat]
  BY <1>2, <1>3 DEF RestartNew, Spend, TypeOK, Kinds, Enqueue, LetGo, Elsewhere
<1>5. o \in Ids /\ Unused(o) /\ "persist" \in Starting
  BY DEF Starting
<1>6. owed' = [owed EXCEPT ![o] = y.history]
  BY <1>1, <1>3 DEF Forgets
<1> HIDE DEF y
<1>7. Middle([sessions EXCEPT ![t] = o], [session EXCEPT ![o] = y], {})
  BY <1>1, <1>3, <1>4, <1>5, <1>6, NewStep
<1> QED BY <1>1, <1>2, <1>7, RetainStep DEF y

(* The object of the call of thread h becomes y, and the call c: it is       *)
(* prepared, fails to start, or starts with a process that nothing has used. *)
CallChange(h, o, y, c) ==
  /\ call[h].at \in Starting /\ call[h].obj = o /\ call' = [call EXCEPT ![h] = c]
  /\ c = Free \/ c = [call[h] EXCEPT !.at = "spawn"]
  /\ y.of = session[o].of /\ y.history = session[o].history /\ y.queue = <<>> /\ ~y.draining
  /\ y.pid = 0 =>
       alive' = alive /\ shown' = shown
  /\ y.pid # 0 =>
       /\ c = Free /\ y.status = "running" /\ ~InUse(y.pid) /\ alive' = alive \cup {y.pid}
       /\ shown' = [shown EXCEPT ![call[h].of] = y.history]
  /\ UNCHANGED <<LetGo, drains, disk, owed, said>> /\ budget' \in [Kinds -> Nat]

LEMMA CallStep ==
  ASSUME AllInv, NEW h \in Threads, NEW o, NEW y \in Objects, NEW c, CallChange(h, o, y, c)
  PROVE  o \in Ids /\ Middle(sessions, [session EXCEPT ![o] = y], {})
<1> DEFINE obj == [session EXCEPT ![o] = y]
<1>0. CallChange(h, o, y, c)
  OBVIOUS
<1>1. /\ TypeOK /\ Sound(session, alive, LetGo, drains)
      /\ Table(sessions, session, call, Keeps)
      /\ Single(waiting, writing)
  BY DEF AllInv
<1>2. /\ session \in [Ids -> Objects] /\ call \in [Threads -> Calls] /\ 0 \notin Ids
      /\ sessions \in [Terminals -> Ids \cup {0}] /\ shown \in [Terminals -> Seq(Nat)]
      /\ alive \subseteq Pids /\ LetGo \subseteq Pids /\ owed \in [Ids -> Seq(Nat)]
      /\ y.history \in Seq(Nat) /\ 0 \notin Pids /\ y.pid \in Pids \cup {0}
  BY <1>1, TerminalAssumption DEF TypeOK, Objects
<1>3. CallInv(sessions, session, h, call[h]) /\ call[h] \in Calls
  BY <1>1, <1>2 DEF Table
<1>4. /\ o \in Ids /\ session[o].pid = 0 /\ session[o].of = call[h].of /\ call[h].of \in Terminals
      /\ \A t \in Terminals : sessions[t] = o => t = call[h].of
      /\ ~call[h].whole /\ ThreadOf[call[h].of] = h
  BY <1>0, <1>3 DEF CallChange, CallInv, Calls, Starting
<1>5. \A g \in Threads : g # h => call[g].obj # o
  <2>1. \A g, i \in Threads : call[g].obj # 0 /\ call[g].obj = call[i].obj => g = i
    BY <1>1 DEF Table
  <2>2. call[h].obj = o /\ o # 0
    BY <1>0, <1>2, <1>4 DEF CallChange
  <2> QED BY <2>1, <2>2
<1>6. /\ c \in Calls /\ c.obj \in {0, o}
      /\ c.obj # 0 => c.of = call[h].of /\ c.at = "spawn"
      /\ c.at \in Starting => c.obj = o
      /\ c.at # "clear"
  <2>1. CASE c = Free
    BY <2>1 DEF Free, Calls, Starting
  <2>2. CASE c = [call[h] EXCEPT !.at = "spawn"]
    <3>1. call[h].obj = o
      BY <1>0 DEF CallChange
    <3>2. c \in Calls /\ c.obj = call[h].obj /\ c.of = call[h].of /\ c.at = "spawn"
      BY <1>3, <2>2 DEF Calls
    <3> QED BY <3>1, <3>2 DEF Starting
  <2> QED BY <1>0, <2>1, <2>2 DEF CallChange
<1>7. /\ drains' = drains /\ writing' = writing /\ file' = file /\ waiting' = waiting
      /\ owed' = owed /\ said' = said /\ LetGo' = LetGo
  BY <1>0 DEF CallChange, disk
<1>8. obj \in [Ids -> Objects] /\ obj[o] = y /\ \A q \in Ids : q # o => obj[q] = session[q]
  BY <1>2, <1>4
<1>9. RestTypes'
  <2>1. call' \in [Threads -> Calls] /\ budget' \in [Kinds -> Nat]
    BY <1>0, <1>2, <1>6 DEF CallChange
  <2>2. alive' \subseteq Pids /\ shown' \in [Terminals -> Seq(Nat)]
    BY <1>0, <1>2 DEF CallChange
  <2> QED BY <1>1, <1>7, <2>1, <2>2 DEF RestTypes, TypeOK
<1>10. y.pid # 0 => /\ y.status = "running" /\ y.pid \notin alive \cup LetGo
                    /\ \A q \in Ids : session[q].pid # y.pid
                    /\ alive' = alive \cup {y.pid} /\ c = Free
                    /\ shown' = [shown EXCEPT ![call[h].of] = y.history]
  BY <1>0 DEF CallChange, InUse
<1>11. y.pid = 0 => alive' = alive /\ shown' = shown
  BY <1>0 DEF CallChange
<1>12. /\ y.of = session[o].of /\ y.history = session[o].history /\ y.queue = <<>> /\ ~y.draining
       /\ call' = [call EXCEPT ![h] = c] /\ call[h].at \in Starting /\ call[h].obj = o
  BY <1>0 DEF CallChange
<1>13. Sound(obj, alive', LetGo', drains')
  <2>1. ObjectInv(y, o, alive', LetGo, drains)
    <3>1. 1..Len(y.queue) = {}
      <4>1. Len(y.queue) = 0
        BY <1>12
      <4> QED BY <4>1
    <3> QED BY <1>10, <1>12, <3>1 DEF ObjectInv
  <2>2. \A p \in alive' : p \in LetGo \/ p = y.pid \/ (p \notin LetGo /\ p # session[o].pid)
    BY <1>2, <1>4, <1>10, <1>11
  <2>3. \A p \in alive' : p \in alive \/ p = y.pid
    BY <1>10, <1>11
  <2>4. y.pid # 0 => \A q \in Ids : q # o => session[q].pid # y.pid
    BY <1>10
  <2> HIDE DEF obj
  <2>5. Sound([session EXCEPT ![o] = y], alive', LetGo, drains)
    BY <1>1, <1>2, <1>4, <2>1, <2>2, <2>3, <2>4, SoundChange
  <2> QED BY <1>7, <2>5 DEF obj
<1>14. Table(sessions, obj, call', Keeps)
  <2>1. CallInv(sessions, obj, h, c)
    <3> HIDE DEF obj
    <3>1. CASE c = Free
      BY <3>1 DEF CallInv, Free, Starting
    <3>2. CASE c = [call[h] EXCEPT !.at = "spawn"]
      <4>1. /\ c.at = "spawn" /\ c.obj = o /\ c.of = call[h].of /\ c.whole = call[h].whole
            /\ c.rest = call[h].rest
        BY <1>3, <1>12, <3>2 DEF Calls
      <4>2. y.pid = 0
        <5>1. Free.at = "idle"
          BY DEF Free
        <5> QED BY <1>10, <4>1, <5>1
      <4> QED BY <1>3, <1>4, <1>8, <1>12, <4>1, <4>2 DEF CallInv, Starting
    <3> QED BY <1>0, <3>1, <3>2 DEF CallChange
  <2>2. Keeps => sessions[call[h].of] = o
    BY <1>1, <1>2, <1>4, <1>12 DEF Table
  <2>3. Keeps => /\ y.pid # 0 => \E t \in Terminals : sessions[t] = o
                 /\ c.obj # 0 => sessions[c.of] = c.obj
    BY <1>4, <1>6, <2>2
  <2>4. Table(sessions, [session EXCEPT ![o] = y], [call EXCEPT ![h] = c], Keeps)
    BY <1>1, <1>2, <1>4, <1>5, <1>6, <1>12, <2>1, <2>3, TableChange
  <2> QED BY <1>12, <2>4
<1>15. StillWithout({}, {"exit_cleared", "stale_drain"}) => Ends(obj, alive')
  <2> SUFFICES ASSUME StillWithout({}, {"exit_cleared", "stale_drain"}) PROVE Ends(obj, alive')
    OBVIOUS
  <2>1. Ends(session, alive)
    BY DEF AllInv, Without, StillWithout
  <2>2. /\ \A p \in alive : p \in alive' \/ p = session[o].pid
        /\ ~ (y.pid # 0 /\ y.pid \notin alive')
    BY <1>10, <1>11
  <2> HIDE DEF obj
  <2>3. Ends([session EXCEPT ![o] = y], alive')
    BY <1>1, <1>2, <1>4, <2>1, <2>2, EndsChange
  <2> QED BY <2>3 DEF obj
<1>16. StillWithout({}, {"stale_drain"}) => Complete(obj, call', owed')
  <2> SUFFICES ASSUME StillWithout({}, {"stale_drain"}) PROVE Complete(obj, call', owed')
    OBVIOUS
  <2>1. Complete(session, call, owed)
    BY DEF AllInv, Without, StillWithout
  <2>2. y.history \o Pieces(y.queue) = owed[o]
    <3>1. Works(o, session, call)
      BY <1>12 DEF Works
    <3>2. session[o].queue = <<>>
      BY <1>1, <1>4 DEF Sound, ObjectInv
    <3> QED BY <1>4, <1>12, <2>1, <3>1, <3>2 DEF Complete
  <2>3. \A g \in Threads : call'[g].at \in Starting => call'[g].obj = o \/ call'[g] = call[g]
    BY <1>2, <1>6, <1>12
  <2> HIDE DEF obj
  <2>4. Complete([session EXCEPT ![o] = y], call', owed)
    BY <1>2, <1>4, <2>1, <2>2, <2>3, CompleteChange
  <2> QED BY <1>7, <2>4 DEF obj
<1>17. StillWithout({}, {"evicted"}) => Keeps
  BY DEF StillWithout, Keeps, Without
<1>18. StillWithout({}, {"said_while_clearing", "evicted"}) => Showing(sessions, obj, call', shown')
  <2> SUFFICES ASSUME StillWithout({}, {"said_while_clearing", "evicted"})
               PROVE  Showing(sessions, obj, call', shown')
    OBVIOUS
  <2>1. Showing(sessions, session, call, shown) /\ Keeps
    BY DEF AllInv, Without, StillWithout, Keeps
  <2>2. sessions[call[h].of] = o
    BY <1>1, <1>2, <1>4, <1>12, <2>1 DEF Table
  <2>3. \A u \in Terminals : sessions[u] = o /\ y.pid # 0 => shown'[u] = y.history
    BY <1>2, <1>4, <1>10
  <2>4. \A u \in Terminals : sessions[u] # o => shown'[u] = shown[u]
    BY <1>2, <1>10, <1>11, <2>2
  <2>5. \A u \in Terminals : Clearing(call, u) => Clearing(call', u)
    <3>1. \A u \in Terminals : ThreadOf[u] \in Threads
      BY TerminalAssumption
    <3>2. \A g \in Threads : call'[g] = call[g] \/ (g = h /\ call[h].at # "clear")
      BY <1>2, <1>12 DEF Starting
    <3> QED BY <3>1, <3>2 DEF Clearing
  <2> HIDE DEF obj
  <2>6. \A u \in Terminals : sessions[u] = o /\ y.pid # 0 /\ ~Clearing(call', u) => shown'[u] = y.history
    BY <2>3
  <2>7. \A u \in Terminals : sessions[u] # o /\ sessions[u] # 0 =>
          sessions[u] = sessions[u] /\ shown'[u] = shown[u] /\ (Clearing(call, u) => Clearing(call', u))
    BY <2>4, <2>5
  <2>8. Showing(sessions, [session EXCEPT ![o] = y], call', shown')
    BY <1>2, <1>4, <2>1, <2>6, <2>7, ShowingChange
  <2> QED BY <2>8 DEF obj
<1>19. StillWithout({}, {"evicted", "undeleted", "unwritten"}) =>
         Filed(sessions, obj, left, waiting', writing', file')
  <2> SUFFICES ASSUME StillWithout({}, {"evicted", "undeleted", "unwritten"})
               PROVE  Filed(sessions, obj, left, waiting', writing', file')
    OBVIOUS
  <2>1. Filed(sessions, session, left, waiting, writing, file)
    BY DEF AllInv, Without, StillWithout
  <2> HIDE DEF obj
  <2>2. Filed(sessions, [session EXCEPT ![o] = y], left, waiting, writing, file)
    BY <1>2, <1>4, <1>12, <2>1, FiledKept
  <2> QED BY <1>7, <2>2 DEF obj
<1> HIDE DEF obj
<1>20. Table(sessions, obj, call', StillWithout({}, {"evicted"}))
  BY <1>14, <1>17 DEF Table
<1>21. Middle(sessions, obj, {})
  BY <1>1, <1>2, <1>7, <1>8, <1>9, <1>13, <1>15, <1>16, <1>18, <1>19, <1>20 DEF Middle
<1> QED BY <1>4, <1>21 DEF obj

LEMMA StartingCalls ==
  ASSUME AllInv, NEW h \in Threads, call[h].at \in Starting
  PROVE  /\ TypeOK /\ call[h].obj \in Ids /\ session[call[h].obj] \in Objects
         /\ session[call[h].obj].pid = 0 /\ session[call[h].obj].queue = <<>>
         /\ ~session[call[h].obj].draining
<1>1. /\ TypeOK /\ CallInv(sessions, session, h, call[h])
      /\ \A o \in Ids : ObjectInv(session[o], o, alive, LetGo, drains)
  BY DEF AllInv, Table, Sound
<1>2. call[h].obj \in Ids /\ session[call[h].obj].pid = 0
  BY <1>1 DEF TypeOK, Calls, CallInv, Starting
<1>3. session[call[h].obj] \in Objects
  BY <1>1, <1>2 DEF TypeOK
<1> QED BY <1>1, <1>2, <1>3 DEF ObjectInv

LEMMA StartSessionStep ==
  ASSUME AllInv, NEW h \in Threads, StartSession(h)
  PROVE  AllInv'
<1> DEFINE o == call[h].obj
           y == [session[o] EXCEPT !.status = "starting", !.queue = <<>>, !.draining = FALSE]
           c == [call[h] EXCEPT !.at = "spawn"]
<1>1. call[h].at \in Starting
  BY DEF StartSession, Starting
<1>2. TypeOK /\ o \in Ids /\ session[o] \in Objects /\ session[o].pid = 0
  BY <1>1, StartingCalls
<1>3. /\ y \in Objects /\ y.of = session[o].of /\ y.history = session[o].history
      /\ y.queue = <<>> /\ ~y.draining /\ y.pid = 0
  <2>1. <<>> \in Seq(Nat)
    BY EmptySeq
  <2> QED BY <1>2, <2>1 DEF Objects
<1>4. call' = [call EXCEPT ![h] = c]
  BY <1>2 DEF StartSession, TypeOK
<1>5. Save([session EXCEPT ![o] = y], Touched(o), {})
  <2>1. [session EXCEPT ![o].status = "starting", ![o].queue = <<>>, ![o].draining = FALSE]
          = [session EXCEPT ![o] = y]
    BY <1>2 DEF TypeOK
  <2> QED BY <2>1 DEF StartSession
<1>6. /\ UNCHANGED <<LetGo, alive, drains, disk, shown, owed, said>>
      /\ budget' \in [Kinds -> Nat]
  BY <1>2 DEF StartSession, TypeOK, LetGo
<1>7. CallChange(h, o, y, c)
  <2> HIDE DEF y
  <2> QED BY <1>1, <1>3, <1>4, <1>6 DEF CallChange
<1> HIDE DEF o, y, c
<1>8. Middle(sessions, [session EXCEPT ![o] = y], {})
  BY <1>3, <1>7, CallStep
<1> QED BY <1>2, <1>5, <1>8, SaveStep

LEMMA StartFailsStep ==
  ASSUME AllInv, NEW h \in Threads, StartFails(h)
  PROVE  AllInv'
<1> DEFINE o == call[h].obj
           y == [session[o] EXCEPT !.status = "error"]
<1>1. call[h].at \in Starting
  BY DEF StartFails, Starting
<1>2. /\ TypeOK /\ o \in Ids /\ session[o] \in Objects /\ session[o].pid = 0
      /\ session[o].queue = <<>> /\ ~session[o].draining
  BY <1>1, StartingCalls
<1>3. /\ y \in Objects /\ y.of = session[o].of /\ y.history = session[o].history
      /\ y.queue = <<>> /\ ~y.draining /\ y.pid = 0
  BY <1>2 DEF Objects
<1>4. call' = [call EXCEPT ![h] = Free]
  BY DEF StartFails
<1>5. Retain(sessions, [session EXCEPT ![o] = y], Touched(o))
  <2>1. [session EXCEPT ![o].status = "error"] = [session EXCEPT ![o] = y]
    BY <1>2 DEF TypeOK
  <2> QED BY <2>1 DEF StartFails
<1>6. /\ UNCHANGED <<LetGo, alive, drains, disk, shown, owed, said>>
      /\ budget' \in [Kinds -> Nat]
  BY <1>2 DEF StartFails, Spend, TypeOK, Kinds, LetGo
<1>7. CallChange(h, o, y, Free)
  <2> HIDE DEF y
  <2> QED BY <1>1, <1>3, <1>4, <1>6 DEF CallChange
<1> HIDE DEF o, y
<1>8. Middle(sessions, [session EXCEPT ![o] = y], {})
  BY <1>3, <1>7, CallStep
<1> QED BY <1>2, <1>5, <1>8, RetainStep

LEMMA SpawnedStep ==
  ASSUME AllInv, NEW h \in Threads, Spawned(h)
  PROVE  AllInv'
<1>1. PICK p \in Pids :
         /\ ~InUse(p) /\ alive' = alive \cup {p}
         /\ Save([session EXCEPT ![call[h].obj].status = "running", ![call[h].obj].pid = p],
                 Touched(call[h].obj), {})
         /\ shown' = [shown EXCEPT ![call[h].of] = session[call[h].obj].history]
  BY DEF Spawned
<1> DEFINE o == call[h].obj
           y == [session[o] EXCEPT !.status = "running", !.pid = p]
<1>2. call[h].at \in Starting
  BY DEF Spawned, Starting
<1>3. /\ TypeOK /\ o \in Ids /\ session[o] \in Objects /\ session[o].pid = 0
      /\ session[o].queue = <<>> /\ ~session[o].draining
  BY <1>2, StartingCalls
<1>4. /\ y \in Objects /\ y.of = session[o].of /\ y.history = session[o].history
      /\ y.queue = <<>> /\ ~y.draining /\ y.pid = p /\ y.pid # 0 /\ y.status = "running"
  BY <1>3, TerminalAssumption DEF Objects
<1>5. call' = [call EXCEPT ![h] = Free]
  BY DEF Spawned
<1>6. Save([session EXCEPT ![o] = y], Touched(o), {})
  <2>1. [session EXCEPT ![o].status = "running", ![o].pid = p] = [session EXCEPT ![o] = y]
    BY <1>3 DEF TypeOK
  <2> QED BY <1>1, <2>1
<1>7. /\ UNCHANGED <<LetGo, drains, disk, owed, said>> /\ budget' \in [Kinds -> Nat]
  BY <1>3 DEF Spawned, TypeOK, LetGo
<1>8. CallChange(h, o, y, Free)
  <2> HIDE DEF y
  <2> QED BY <1>1, <1>2, <1>4, <1>5, <1>7 DEF CallChange
<1> HIDE DEF o, y
<1>9. Middle(sessions, [session EXCEPT ![o] = y], {})
  BY <1>4, <1>8, CallStep
<1> QED BY <1>3, <1>6, <1>9, SaveStep

\* A step that changes no session and no object.
LEMMA StayStep ==
  ASSUME TypeOK, NEW notes, Middle(sessions, session, notes),
         UNCHANGED <<sessions, session, left>>, races' = races \cup notes
  PROVE  AllInv'
<1>1. Evicts(session, {})
  BY DEF Evicts
<1>2. After(sessions, session, {}, notes)
  <2>1. Left(sessions, {}) = sessions
    BY DEF Left, TypeOK
  <2>2. Kept(session, call', {}) = session
    BY DEF Kept, TypeOK
  <2>3. left = [t \in Terminals |-> IF sessions[t] \in {} THEN session[sessions[t]].history ELSE left[t]]
    BY DEF TypeOK
  <2>4. races' = races \cup notes \cup Notes({} \cap Used(call') # {}, "evicted")
    BY DEF Notes
  <2> QED BY <2>1, <2>2, <2>3, <2>4 DEF After
<1> QED BY <1>1, <1>2, StepFromMiddle

LEMMA StayFiled ==
  ASSUME AllInv, NEW notes, waiting' = waiting, writing' = writing, file' = file
  PROVE  StillWithout(notes, {"evicted", "undeleted", "unwritten"}) =>
           Filed(sessions, session, left, waiting', writing', file')
BY DEF AllInv, StillWithout, Without

\* A call is begun or ends that has no object in hand afterwards.
LEMMA CallOnlyStep ==
  ASSUME AllInv, NEW h \in Threads, NEW c \in Calls, c.obj = 0, CallInv(sessions, session, h, c),
         call' = [call EXCEPT ![h] = c], NEW notes, notes \subseteq Races,
         UNCHANGED <<sessions, session, left, LetGo, alive, drains, disk, owed, said>>,
         budget' \in [Kinds -> Nat],
         \/ shown' = shown /\ call[h].at # "clear"
         \/ /\ shown' = [shown EXCEPT ![call[h].of] = <<>>] /\ call[h].at = "clear"
            /\ session[call[h].obj].history # <<>> => "said_while_clearing" \in notes,
         races' = races \cup notes
  PROVE  AllInv'
<1>1. /\ TypeOK /\ Sound(session, alive, LetGo, drains)
      /\ Table(sessions, session, call, Keeps)
      /\ Single(waiting, writing)
  BY DEF AllInv
<1>2. /\ session \in [Ids -> Objects] /\ call \in [Threads -> Calls] /\ 0 \notin Ids
      /\ sessions \in [Terminals -> Ids \cup {0}] /\ shown \in [Terminals -> Seq(Nat)]
      /\ <<>> \in Seq(Nat)
  BY <1>1, TerminalAssumption, EmptySeq DEF TypeOK
<1>3. /\ drains' = drains /\ writing' = writing /\ file' = file /\ waiting' = waiting
      /\ owed' = owed /\ said' = said /\ LetGo' = LetGo /\ alive' = alive
  BY DEF disk
<1>4. call'[h] = c /\ \A g \in Threads : g # h => call'[g] = call[g]
  BY <1>2
<1>5. RestTypes'
  <2>1. call' \in [Threads -> Calls] /\ shown' \in [Terminals -> Seq(Nat)]
    BY <1>2
  <2> QED BY <1>1, <1>3, <2>1 DEF RestTypes, TypeOK
<1>6. Table(sessions, session, call', Keeps)
  <2>1. \A g \in Threads : CallInv(sessions, session, g, call'[g])
    BY <1>1, <1>4 DEF Table
  <2>2. \A g, i \in Threads : call'[g].obj # 0 /\ call'[g].obj = call'[i].obj => g = i
    BY <1>1, <1>4 DEF Table
  <2>3. Keeps => \A g \in Threads : call'[g].obj # 0 => sessions[call'[g].of] = call'[g].obj
    BY <1>1, <1>4 DEF Table
  <2> QED BY <1>1, <2>1, <2>2, <2>3 DEF Table
<1>7. StillWithout(notes, {"exit_cleared", "stale_drain"}) => Ends(session, alive')
  BY <1>3 DEF AllInv, StillWithout, Without
<1>8. StillWithout(notes, {"stale_drain"}) => Complete(session, call', owed')
  <2>1. \A o \in Ids : Works(o, session, call') => Works(o, session, call)
    BY <1>2, <1>4 DEF Works
  <2>2. StillWithout(notes, {"stale_drain"}) => Complete(session, call, owed)
    BY DEF AllInv, StillWithout, Without
  <2> QED BY <1>3, <2>1, <2>2 DEF Complete
<1>9. StillWithout(notes, {"evicted"}) => Keeps
  BY DEF StillWithout, Keeps, Without
<1>10. StillWithout(notes, {"said_while_clearing", "evicted"}) =>
         Showing(sessions, session, call', shown')
  <2> SUFFICES ASSUME StillWithout(notes, {"said_while_clearing", "evicted"})
               PROVE  Showing(sessions, session, call', shown')
    OBVIOUS
  <2>1. Showing(sessions, session, call, shown) /\ Keeps /\ "said_while_clearing" \notin notes
    BY DEF AllInv, Without, StillWithout, Keeps
  <2>2. \A u \in Terminals : ThreadOf[u] \in Threads
    BY TerminalAssumption
  <2>3. CASE shown' = shown /\ call[h].at # "clear"
    <3>1. \A u \in Terminals : Clearing(call, u) => Clearing(call', u)
      BY <1>4, <2>2, <2>3 DEF Clearing
    <3> QED BY <2>1, <2>3, <3>1 DEF Showing
  <2>4. CASE /\ shown' = [shown EXCEPT ![call[h].of] = <<>>] /\ call[h].at = "clear"
             /\ session[call[h].obj].history # <<>> => "said_while_clearing" \in notes
    <3>1. CallInv(sessions, session, h, call[h])
      BY <1>1 DEF Table
    <3>2. sessions[call[h].of] = call[h].obj /\ session[call[h].obj].history = <<>>
      BY <1>1, <2>1, <2>4, <3>1 DEF Table, CallInv
    <3>3. \A u \in Terminals : u # call[h].of => shown'[u] = shown[u]
      BY <1>2, <2>4
    <3>4. \A u \in Terminals : u = call[h].of => shown'[u] = <<>>
      BY <1>2, <2>4
    <3>5. \A u \in Terminals : Clearing(call, u) => Clearing(call', u) \/ u = call[h].of
      BY <1>4, <2>2 DEF Clearing
    <3> QED BY <2>1, <3>2, <3>3, <3>4, <3>5 DEF Showing
  <2> QED BY <2>3, <2>4
<1>11. Table(sessions, session, call', StillWithout(notes, {"evicted"}))
  BY <1>6, <1>9 DEF Table
<1>12. StillWithout(notes, {"evicted", "undeleted", "unwritten"}) =>
         Filed(sessions, session, left, waiting', writing', file')
  BY <1>3, StayFiled
<1>13. Middle(sessions, session, notes)
  BY <1>1, <1>2, <1>3, <1>5, <1>7, <1>8, <1>10, <1>11, <1>12 DEF Middle
<1> QED BY <1>1, <1>13, StayStep

LEMMA FreeCall ==
  ASSUME NEW h
  PROVE  /\ Free \in Calls /\ Free.obj = 0 /\ ~Free.whole /\ Free.rest = {} /\ Free.at = "idle"
         /\ CallInv(sessions, session, h, Free)
BY DEF Free, Calls, CallInv, Starting

LEMMA ClearedStep ==
  ASSUME AllInv, NEW h \in Threads, Cleared(h)
  PROVE  AllInv'
<1> DEFINE notes == Notes(session[call[h].obj].history # <<>>, "said_while_clearing")
<1>1. /\ notes \subseteq Races
      /\ session[call[h].obj].history # <<>> => "said_while_clearing" \in notes
  BY DEF Notes, Races
<1>2. TypeOK
  BY DEF AllInv
<1>3. /\ call' = [call EXCEPT ![h] = Free] /\ races' = races \cup notes
      /\ UNCHANGED <<sessions, session, left, LetGo, alive, drains, disk, owed, said>>
      /\ budget' \in [Kinds -> Nat]
      /\ shown' = [shown EXCEPT ![call[h].of] = <<>>] /\ call[h].at = "clear"
  BY <1>2 DEF Cleared, TypeOK, LetGo
<1> HIDE DEF notes
<1> QED BY <1>1, <1>3, CallOnlyStep, FreeCall

LEMMA CloseThreadStep ==
  ASSUME AllInv, NEW h \in Threads, CloseThread(h)
  PROVE  AllInv'
<1> DEFINE rest == {t \in Terminals : ThreadOf[t] = h /\ sessions[t] # 0}
<1>1. PICK delete \in BOOLEAN :
         call' = [call EXCEPT ![h] = [Free EXCEPT !.at = "next", !.whole = TRUE, !.delete = delete,
                                                  !.rest = rest]]
  BY DEF CloseThread
<1> DEFINE c == [Free EXCEPT !.at = "next", !.whole = TRUE, !.delete = delete, !.rest = rest]
<1>2. /\ c \in Calls /\ c.obj = 0 /\ c.at = "next" /\ c.whole /\ c.rest = rest /\ c.of = None
  BY DEF Free, Calls
<1>3. CallInv(sessions, session, h, c)
  <2> HIDE DEF c
  <2> QED BY <1>2 DEF CallInv, Starting
<1>4. TypeOK /\ call[h].at # "clear"
  BY IdleCall DEF AllInv, CloseThread
<1>5. /\ UNCHANGED <<sessions, session, left, LetGo, alive, drains, disk, owed, said>>
      /\ budget' \in [Kinds -> Nat] /\ shown' = shown /\ races' = races \cup {}
  BY <1>4 DEF CloseThread, Spend, TypeOK, Kinds, table, LetGo
<1> DEFINE none == {}
<1>6. call' = [call EXCEPT ![h] = c] /\ none \subseteq Races /\ races' = races \cup none
  BY <1>1, <1>5
<1> HIDE DEF c, none
<1> QED BY <1>2, <1>3, <1>4, <1>5, <1>6, CallOnlyStep

\* A terminal without session is closed.
LEMMA ClosingNothingStep ==
  ASSUME AllInv, NEW t \in Terminals, sessions[t] = 0, NEW next \in Calls,
         call[ThreadOf[t]].at \in {"idle", "next"}, Closing(t, next),
         \A u \in next.rest : ThreadOf[u] = ThreadOf[t],
         next.whole => \A u \in Terminals : ThreadOf[u] = ThreadOf[t] /\ sessions[u] # 0 =>
                          u \in next.rest \/ u = t,
         UNCHANGED Elsewhere, budget' \in [Kinds -> Nat]
  PROVE  AllInv'
<1> DEFINE h == ThreadOf[t]
           c == [next EXCEPT !.at = "close", !.of = t, !.obj = 0]
<1>1. h \in Threads /\ t # None
  BY OfTerminal
<1>2. /\ c \in Calls /\ c.obj = 0 /\ c.of = t /\ c.at = "close"
      /\ c.whole = next.whole /\ c.rest = next.rest
  BY DEF Calls
<1>3. c.whole => \A u \in Terminals : ThreadOf[u] = h /\ sessions[u] # 0 => u \in c.rest \/ u = t
  BY <1>2
<1>4. CallInv(sessions, session, h, c)
  <2> HIDE DEF c
  <2> QED BY <1>1, <1>2, <1>3 DEF CallInv, Starting
<1>5. /\ UNCHANGED <<sessions, session, left, LetGo, alive, drains, disk, owed, said>>
      /\ shown' = shown /\ races' = races \cup {} /\ call' = [call EXCEPT ![h] = c]
      /\ {} \subseteq Races /\ call[h].at # "clear"
  BY DEF Closing, Elsewhere, table, disk, LetGo
<1> DEFINE none == {}
<1>6. none \subseteq Races /\ races' = races \cup none
  BY <1>5
<1> HIDE DEF c, h, none
<1> QED BY <1>1, <1>2, <1>4, <1>5, <1>6, CallOnlyStep

LEMMA CloseStep ==
  ASSUME AllInv, NEW t \in Terminals, Close(t)
  PROVE  AllInv'
<1>1. PICK delete \in BOOLEAN : Closing(t, [Free EXCEPT !.delete = delete])
  BY DEF Close
<1> DEFINE next == [Free EXCEPT !.delete = delete]
<1>2. next \in Calls /\ next.rest = {} /\ ~next.whole
  BY DEF Free, Calls
<1>3. /\ TypeOK /\ ThreadOf[t] \in Threads /\ call[ThreadOf[t]] = Free
      /\ UNCHANGED Elsewhere
  BY OfTerminal DEF AllInv, Close
<1>4. call[ThreadOf[t]].at \in {"idle", "next"} /\ budget' \in [Kinds -> Nat]
  BY <1>3, IdleCall DEF Close, Spend, TypeOK, Kinds
<1>5. Closing(t, next)
  BY <1>1
<1> HIDE DEF next
<1> QED BY <1>2, <1>3, <1>4, <1>5, ClosingStep, ClosingNothingStep

LEMMA CloseNextStep ==
  ASSUME AllInv, NEW h \in Threads, CloseNext(h)
  PROVE  AllInv'
<1>1. PICK t \in call[h].rest : Closing(t, [call[h] EXCEPT !.rest = @ \ {t}])
  BY DEF CloseNext
<1>2. TypeOK /\ CallInv(sessions, session, h, call[h]) /\ call[h] \in Calls /\ call[h].at = "next"
  BY DEF AllInv, Table, TypeOK, CloseNext
<1> DEFINE next == [call[h] EXCEPT !.rest = @ \ {t}]
<1>3. /\ next \in Calls /\ next.rest = call[h].rest \ {t} /\ next.whole = call[h].whole
  BY <1>2 DEF Calls
<1>4. t \in Terminals /\ ThreadOf[t] = h
  BY <1>2 DEF Calls, CallInv
<1>5. \A u \in next.rest : ThreadOf[u] = h
  BY <1>2, <1>3 DEF CallInv
<1>6. next.whole => \A u \in Terminals : ThreadOf[u] = h /\ sessions[u] # 0 => u \in next.rest \/ u = t
  BY <1>2, <1>3 DEF CallInv
<1>7. UNCHANGED Elsewhere /\ budget' \in [Kinds -> Nat] /\ Closing(t, next)
  BY <1>1, <1>2 DEF CloseNext, TypeOK
<1> HIDE DEF next
<1>8. /\ \A u \in next.rest : ThreadOf[u] = ThreadOf[t]
      /\ next.whole => \A u \in Terminals : ThreadOf[u] = ThreadOf[t] /\ sessions[u] # 0 =>
                          u \in next.rest \/ u = t
      /\ call[ThreadOf[t]].at \in {"idle", "next"}
  BY <1>2, <1>4, <1>5, <1>6
<1> QED BY <1>3, <1>4, <1>7, <1>8, ClosingStep, ClosingNothingStep

\* A killed process ends, or a fiber that kills.
LEMMA KilledStep ==
  ASSUME AllInv, NEW p \in LetGo, alive' = alive \/ alive' = alive \ {p},
         LetGo' = LetGo \/ (LetGo' = LetGo \ {p} /\ p \notin alive'),
         UNCHANGED <<table, drains, disk, call, shown, owed, said>>, budget' \in [Kinds -> Nat]
  PROVE  AllInv'
<1>1. /\ TypeOK /\ Sound(session, alive, LetGo, drains)
      /\ Table(sessions, session, call, Keeps)
      /\ Single(waiting, writing)
  BY DEF AllInv
<1>2. UNCHANGED <<sessions, session, left, races, drains, waiting, writing, file, call, shown, owed>>
  BY DEF table, disk
<1>3. \A o \in Ids : session[o].pid # 0 => session[o].pid # p
  BY <1>1 DEF Sound, ObjectInv
<1>4. RestTypes'
  BY <1>1 DEF RestTypes, TypeOK, disk
<1>5. Sound(session, alive', LetGo', drains')
  <2>1. ASSUME NEW o \in Ids PROVE ObjectInv(session[o], o, alive', LetGo', drains)
    <3>1. ObjectInv(session[o], o, alive, LetGo, drains)
      BY <1>1 DEF Sound
    <3> QED BY <3>1 DEF ObjectInv
  <2>2. \A q \in alive' : q \in LetGo' \/ \E o \in Ids : session[o].pid = q
    BY <1>1 DEF Sound
  <2>3. Sound(session, alive', LetGo', drains)
    BY <1>1, <2>1, <2>2 DEF Sound
  <2> QED BY <1>2, <2>3
<1>6. StillWithout({}, {"exit_cleared", "stale_drain"}) => Ends(session, alive')
  BY <1>3 DEF AllInv, StillWithout, Without, Ends
<1>7. /\ StillWithout({}, {"stale_drain"}) => Complete(session, call', owed')
      /\ StillWithout({}, {"said_while_clearing", "evicted"}) => Showing(sessions, session, call', shown')
      /\ StillWithout({}, {"evicted"}) => Keeps
  BY <1>2 DEF AllInv, StillWithout, Without, Keeps
<1>8. Table(sessions, session, call', StillWithout({}, {"evicted"}))
  BY <1>1, <1>2, <1>7 DEF Table
<1>9. StillWithout({}, {"evicted", "undeleted", "unwritten"}) =>
        Filed(sessions, session, left, waiting', writing', file')
  BY <1>2, StayFiled
<1>10. Middle(sessions, session, {})
  BY <1>1, <1>2, <1>4, <1>5, <1>6, <1>7, <1>8, <1>9 DEF Middle, TypeOK
<1>11. races' = races \cup {}
  BY <1>2
<1> QED BY <1>1, <1>2, <1>10, <1>11, StayStep

\* The worker takes a history, or writes it.
LEMMA WorkerStep ==
  ASSUME AllInv, NEW notes, notes \subseteq Races,
         waiting' \in [Terminals -> SUBSET Seq(Nat)],
         writing' \subseteq [of : Terminals, text : Seq(Nat)], Single(waiting', writing'),
         file' \in [Terminals -> Seq(Nat)], budget' \in [Kinds -> Nat],
         StillWithout(notes, {"evicted", "undeleted", "unwritten"}) =>
            Filed(sessions, session, left, waiting', writing', file'),
         UNCHANGED <<sessions, session, left, LetGo, alive, drains, call, shown, owed, said>>,
         races' = races \cup notes
  PROVE  AllInv'
<1>1. /\ TypeOK /\ Sound(session, alive, LetGo, drains)
      /\ Table(sessions, session, call, Keeps)
  BY DEF AllInv
<1>2. RestTypes'
  BY <1>1 DEF RestTypes, TypeOK
<1>3. Sound(session, alive', LetGo', drains')
  BY <1>1
<1>4. /\ StillWithout(notes, {"exit_cleared", "stale_drain"}) => Ends(session, alive')
      /\ StillWithout(notes, {"stale_drain"}) => Complete(session, call', owed')
      /\ StillWithout(notes, {"said_while_clearing", "evicted"}) => Showing(sessions, session, call', shown')
      /\ StillWithout(notes, {"evicted"}) => Keeps
  BY DEF AllInv, StillWithout, Without, Keeps
<1>5. Table(sessions, session, call', StillWithout(notes, {"evicted"}))
  BY <1>1, <1>4 DEF Table
<1>6. Middle(sessions, session, notes)
  BY <1>1, <1>2, <1>3, <1>4, <1>5 DEF Middle, TypeOK
<1> QED BY <1>1, <1>6, StayStep

LEMMA TakeHistoryStep ==
  ASSUME AllInv, NEW t \in Terminals, TakeHistory(t)
  PROVE  AllInv'
<1>1. TypeOK
  BY DEF AllInv
<1>2. /\ waiting \in [Terminals -> SUBSET Seq(Nat)] /\ writing = {} /\ waiting[t] # {}
      /\ waiting' = [waiting EXCEPT ![t] = {}] /\ file' = file
      /\ writing' = {[of |-> t, text |-> text] : text \in waiting[t]}
  BY <1>1 DEF TypeOK, TakeHistory
<1>3. PICK text \in Seq(Nat) : waiting[t] = {text}
  <2>1. \A u, v \in waiting[t] : u = v
    BY DEF AllInv, Single
  <2>2. PICK text \in waiting[t] : TRUE
    BY <1>2
  <2>3. waiting[t] = {text} /\ text \in Seq(Nat)
    BY <1>2, <2>1, <2>2
  <2> QED BY <2>3
<1>4. writing' = {[of |-> t, text |-> text]} /\ [of |-> t, text |-> text].of = t
      /\ [of |-> t, text |-> text].text = text
  BY <1>2, <1>3
<1>5. /\ waiting' \in [Terminals -> SUBSET Seq(Nat)]
      /\ writing' \subseteq [of : Terminals, text : Seq(Nat)]
  BY <1>2, <1>4
<1>6. waiting'[t] = {} /\ \A u \in Terminals : u # t => waiting'[u] = waiting[u]
  BY <1>2
<1>7. Single(waiting', writing')
  BY <1>4, <1>6 DEF AllInv, Single
<1> DEFINE none == {}
<1>8. StillWithout(none, {"evicted", "undeleted", "unwritten"}) =>
        Filed(sessions, session, left, waiting', writing', file')
  <2> SUFFICES ASSUME StillWithout(none, {"evicted", "undeleted", "unwritten"})
               PROVE  Filed(sessions, session, left, waiting', writing', file')
    OBVIOUS
  <2>1. Filed(sessions, session, left, waiting, writing, file)
    BY DEF AllInv, Without, StillWithout
  <2>2. ASSUME NEW u \in Terminals
        PROVE  /\ \A v \in waiting'[u] : v = Held(sessions, session, left, u)
               /\ waiting'[u] = {} =>
                    /\ \A w \in writing' : w.of = u => w.text = Held(sessions, session, left, u)
                    /\ (\A w \in writing' : w.of # u) => file'[u] = Held(sessions, session, left, u)
    <3>1. CASE u = t
      <4>1. text = Held(sessions, session, left, t)
        BY <1>3, <2>1 DEF Filed
      <4> QED BY <1>4, <1>6, <3>1, <4>1
    <3>2. CASE u # t
      <4>1. waiting'[u] = waiting[u] /\ file'[u] = file[u] /\ writing = {}
        BY <1>2, <1>6, <3>2
      <4>2. \A w \in writing' : w.of # u
        BY <1>4, <3>2
      <4> QED BY <2>1, <4>1, <4>2 DEF Filed
    <3> QED BY <3>1, <3>2
  <2> QED BY <2>2 DEF Filed
<1>9. /\ UNCHANGED <<sessions, session, left, LetGo, alive, drains, call, shown, owed, said>>
      /\ none \subseteq Races /\ races' = races \cup none
      /\ file' \in [Terminals -> Seq(Nat)] /\ budget' \in [Kinds -> Nat]
  BY <1>1, <1>2 DEF TakeHistory, table, TypeOK, LetGo
<1> HIDE DEF none
<1> QED BY <1>5, <1>7, <1>8, <1>9, WorkerStep

LEMMA WriteHistoryStep ==
  ASSUME AllInv, WriteHistory
  PROVE  AllInv'
<1>1. PICK w \in writing :
         /\ writing' = {}
         /\ \/ file' = [file EXCEPT ![w.of] = w.text] /\ UNCHANGED <<races, budget>>
            \/ Spend("failures") /\ races' = races \cup {"unwritten"} /\ UNCHANGED file
         /\ UNCHANGED <<sessions, session, updated, left, LetGo, alive, drains, waiting, call,
                        shown, owed, said>>
  BY DEF WriteHistory, LetGo
<1>2. TypeOK /\ Single(waiting, writing)
  BY DEF AllInv
<1>3. w.of \in Terminals /\ w.text \in Seq(Nat) /\ writing = {w}
  BY <1>2 DEF TypeOK, Single
<1>4. file \in [Terminals -> Seq(Nat)] /\ budget \in [Kinds -> Nat] /\ "failures" \in Kinds
  BY <1>2 DEF TypeOK, Kinds
<1>5. /\ waiting' \in [Terminals -> SUBSET Seq(Nat)]
      /\ writing' \subseteq [of : Terminals, text : Seq(Nat)]
      /\ Single(waiting', writing')
  BY <1>1, <1>2 DEF Single, TypeOK
<1>6. CASE file' = [file EXCEPT ![w.of] = w.text] /\ UNCHANGED <<races, budget>>
  <2> DEFINE none == {}
  <2>1. StillWithout(none, {"evicted", "undeleted", "unwritten"}) =>
          Filed(sessions, session, left, waiting', writing', file')
    <3> SUFFICES ASSUME StillWithout(none, {"evicted", "undeleted", "unwritten"})
                 PROVE  Filed(sessions, session, left, waiting', writing', file')
      OBVIOUS
    <3>1. Filed(sessions, session, left, waiting, writing, file)
      BY DEF AllInv, Without, StillWithout
    <3>2. waiting' = waiting /\ writing' = {}
      BY <1>1
    <3>3. file'[w.of] = w.text /\ \A u \in Terminals : u # w.of => file'[u] = file[u]
      BY <1>3, <1>4, <1>6
    <3> QED BY <1>3, <3>1, <3>2, <3>3 DEF Filed
  <2>2. /\ none \subseteq Races /\ races' = races \cup none
        /\ file' \in [Terminals -> Seq(Nat)] /\ budget' \in [Kinds -> Nat]
    BY <1>3, <1>4, <1>6
  <2> HIDE DEF none
  <2> QED BY <1>1, <1>5, <2>1, <2>2, WorkerStep
<1>7. CASE Spend("failures") /\ races' = races \cup {"unwritten"} /\ UNCHANGED file
  <2> DEFINE notes == {"unwritten"}
  <2>1. ~StillWithout(notes, {"evicted", "undeleted", "unwritten"})
    BY DEF StillWithout
  <2>2. /\ notes \subseteq Races /\ races' = races \cup notes
        /\ file' \in [Terminals -> Seq(Nat)] /\ budget' \in [Kinds -> Nat]
    BY <1>4, <1>7 DEF Races, Spend
  <2> HIDE DEF notes
  <2> QED BY <1>1, <1>5, <2>1, <2>2, WorkerStep
<1> QED BY <1>1, <1>6, <1>7

\* A fiber ends when the listeners have taken the exit; inactive sessions are
\* evicted then.
LEMMA ExitDeliveredStep ==
  ASSUME AllInv, NEW d \in drains, ExitDelivered(d)
  PROVE  AllInv'
<1>1. /\ TypeOK /\ Sound(session, alive, LetGo, drains)
      /\ Table(sessions, session, call, Keeps)
      /\ Single(waiting, writing)
  BY DEF AllInv
<1>2. /\ drains' = drains \ {d} /\ d.after = "exit" /\ Retain(sessions, session, updated)
      /\ UNCHANGED <<LetGo, alive, waiting, writing, file, call, shown, owed, said, budget>>
  BY DEF ExitDelivered, disk, LetGo
<1>3. RestTypes'
  BY <1>1, <1>2 DEF RestTypes, TypeOK
<1>4. Sound(session, alive', LetGo', drains')
  <2>1. ASSUME NEW o \in Ids PROVE ObjectInv(session[o], o, alive, LetGo, drains')
    <3>1. ObjectInv(session[o], o, alive, LetGo, drains)
      BY <1>1 DEF Sound
    <3> QED BY <1>2, <3>1 DEF ObjectInv
  <2>2. Sound(session, alive, LetGo, drains')
    BY <1>1, <2>1 DEF Sound
  <2> QED BY <1>2, <2>2
<1>5. /\ StillWithout({}, {"exit_cleared", "stale_drain"}) => Ends(session, alive')
      /\ StillWithout({}, {"stale_drain"}) => Complete(session, call', owed')
      /\ StillWithout({}, {"said_while_clearing", "evicted"}) => Showing(sessions, session, call', shown')
      /\ StillWithout({}, {"evicted"}) => Keeps
  BY <1>2 DEF AllInv, StillWithout, Without, Keeps
<1>6. Table(sessions, session, call', StillWithout({}, {"evicted"}))
  BY <1>1, <1>2, <1>5 DEF Table
<1>7. StillWithout({}, {"evicted", "undeleted", "unwritten"}) =>
        Filed(sessions, session, left, waiting', writing', file')
  BY <1>2, StayFiled
<1>8. Middle(sessions, session, {})
  BY <1>1, <1>2, <1>3, <1>4, <1>5, <1>6, <1>7 DEF Middle, TypeOK
<1> QED BY <1>1, <1>2, <1>8, RetainStep

(* What the callbacks and the fibers make of an object o: it becomes y.      *)
EventChange(o, y, notes) ==
  /\ y.of = session[o].of /\ y.pid \in {0, session[o].pid}
  /\ ObjectInv(y, o, alive', LetGo, drains')
  /\ \A d \in drains : d.obj # o => d \in drains'
  /\ alive' \subseteq alive /\ \A p \in alive : p \in alive' \/ p = session[o].pid
  /\ y.pid = 0 => session[o].pid \notin alive'
  /\ drains' \subseteq [obj : Ids, pid : Pids, after : {"output", "exit"}, n : Fibers]
  /\ notes \subseteq Races
  /\ StillWithout(notes, {"exit_cleared", "stale_drain"}) =>
        (y.pid # 0 /\ y.pid \notin alive' => \E i \in 1..Len(y.queue) : y.queue[i] = exit)
  /\ session[o].pid = 0 => owed' = owed
  /\ owed' \in [Ids -> Seq(Nat)] /\ \A q \in Ids : q # o => owed'[q] = owed[q]
  /\ StillWithout(notes, {"stale_drain"}) =>
        (y.pid # 0 => y.history \o Pieces(y.queue) = owed'[o])
  /\ \/ y.history = session[o].history /\ waiting' = waiting /\ shown' = shown
     \/ \E piece \in Nat :
           /\ session[o].pid # 0 /\ y.history = Append(session[o].history, piece)
           /\ waiting' = [waiting EXCEPT ![y.of] = {y.history}]
           /\ shown' = [shown EXCEPT ![y.of] = Append(@, piece)]
  /\ UNCHANGED <<LetGo, writing, file, call>> /\ said' \in Nat /\ budget' \in [Kinds -> Nat]

LEMMA EventStep ==
  ASSUME AllInv, NEW o \in Ids, NEW y \in Objects, NEW notes, EventChange(o, y, notes)
  PROVE  Middle(sessions, [session EXCEPT ![o] = y], notes)
<1> DEFINE obj == [session EXCEPT ![o] = y]
<1>0. EventChange(o, y, notes)
  OBVIOUS
<1>1. /\ TypeOK /\ Sound(session, alive, LetGo, drains)
      /\ Table(sessions, session, call, Keeps)
      /\ Single(waiting, writing)
  BY DEF AllInv
<1>2. /\ session \in [Ids -> Objects] /\ call \in [Threads -> Calls] /\ 0 \notin Ids
      /\ sessions \in [Terminals -> Ids \cup {0}] /\ shown \in [Terminals -> Seq(Nat)]
      /\ alive \subseteq Pids /\ y.history \in Seq(Nat) /\ 0 \notin Pids
      /\ waiting \in [Terminals -> SUBSET Seq(Nat)]
  BY <1>1, TerminalAssumption DEF TypeOK, Objects
<1>3. /\ y.of = session[o].of /\ y.pid \in {0, session[o].pid} /\ notes \subseteq Races
      /\ UNCHANGED <<LetGo, writing, file, call>>
  BY <1>0 DEF EventChange
<1>4. \/ y.history = session[o].history /\ waiting' = waiting /\ shown' = shown
      \/ \E piece \in Nat :
            /\ session[o].pid # 0 /\ y.history = Append(session[o].history, piece)
            /\ waiting' = [waiting EXCEPT ![y.of] = {y.history}]
            /\ shown' = [shown EXCEPT ![y.of] = Append(@, piece)]
  BY <1>0 DEF EventChange
<1>5. RestTypes' /\ Single(waiting', writing')
  <2>1. CASE y.history = session[o].history /\ waiting' = waiting /\ shown' = shown
    BY <1>0, <1>1, <2>1 DEF EventChange, RestTypes, TypeOK
  <2>2. CASE \E piece \in Nat :
            /\ session[o].pid # 0 /\ y.history = Append(session[o].history, piece)
            /\ waiting' = [waiting EXCEPT ![y.of] = {y.history}]
            /\ shown' = [shown EXCEPT ![y.of] = Append(@, piece)]
    <3>1. PICK piece \in Nat :
            /\ waiting' = [waiting EXCEPT ![y.of] = {y.history}]
            /\ shown' = [shown EXCEPT ![y.of] = Append(@, piece)]
      BY <2>2
    <3>2. \A u \in Terminals : Append(shown[u], piece) \in Seq(Nat)
      BY <1>2, AppendProperties
    <3>3. shown' \in [Terminals -> Seq(Nat)]
      BY <1>2, <3>1, <3>2
    <3>4. waiting' \in [Terminals -> SUBSET Seq(Nat)]
      <4>1. {y.history} \in SUBSET Seq(Nat)
        BY <1>2
      <4> QED BY <1>2, <3>1, <4>1
    <3>5. Single(waiting', writing')
      BY <1>1, <1>2, <1>3, <3>1 DEF Single
    <3> QED BY <1>0, <1>1, <3>3, <3>4, <3>5 DEF EventChange, RestTypes, TypeOK
  <2> QED BY <1>4, <2>1, <2>2
<1>6. Sound(obj, alive', LetGo', drains')
  <2>1. /\ ObjectInv(y, o, alive', LetGo, drains')
        /\ \A d \in drains : d.obj # o => d \in drains'
    BY <1>0 DEF EventChange
  <2>2. \A p \in alive' : p \in alive \/ p = y.pid
    BY <1>0 DEF EventChange
  <2>3. \A p \in alive' : p \in LetGo \/ p = y.pid \/ (p \notin LetGo /\ p # session[o].pid)
    BY <1>0, <1>2, <1>3 DEF EventChange
  <2>4. y.pid # 0 => \A q \in Ids : q # o => session[q].pid # y.pid
    BY <1>1, <1>3 DEF Sound
  <2> HIDE DEF obj
  <2>5. Sound([session EXCEPT ![o] = y], alive', LetGo, drains')
    BY <1>1, <1>2, <2>1, <2>2, <2>3, <2>4, SoundChange
  <2> QED BY <1>3, <2>5 DEF obj
<1>7. StillWithout(notes, {"evicted"}) => Keeps
  BY DEF StillWithout, Keeps, Without
<1>8. Table(sessions, obj, call', StillWithout(notes, {"evicted"}))
  <2>1. Table(sessions, [session EXCEPT ![o] = y], call, Keeps)
    BY <1>1, <1>2, <1>3, TableKept
  <2> HIDE DEF obj
  <2>2. Table(sessions, obj, call, Keeps)
    BY <2>1 DEF obj
  <2> QED BY <1>3, <1>7, <2>2 DEF Table
<1>9. StillWithout(notes, {"exit_cleared", "stale_drain"}) => Ends(obj, alive')
  <2> SUFFICES ASSUME StillWithout(notes, {"exit_cleared", "stale_drain"}) PROVE Ends(obj, alive')
    OBVIOUS
  <2>1. Ends(session, alive)
    BY DEF AllInv, Without, StillWithout
  <2>2. y.pid # 0 /\ y.pid \notin alive' => \E i \in 1..Len(y.queue) : y.queue[i] = exit
    BY <1>0 DEF EventChange
  <2>3. \A p \in alive : p \in alive' \/ p = session[o].pid
    BY <1>0 DEF EventChange
  <2> HIDE DEF obj
  <2>4. Ends([session EXCEPT ![o] = y], alive')
    BY <1>1, <1>2, <2>1, <2>2, <2>3, EndsChange
  <2> QED BY <2>4 DEF obj
<1>10. StillWithout(notes, {"stale_drain"}) => Complete(obj, call', owed')
  <2> SUFFICES ASSUME StillWithout(notes, {"stale_drain"}) PROVE Complete(obj, call', owed')
    OBVIOUS
  <2>1. Complete(session, call, owed)
    BY DEF AllInv, Without, StillWithout
  <2>2. y.pid # 0 => y.history \o Pieces(y.queue) = owed'[o]
    BY <1>0 DEF EventChange
  <2>3. \A q \in Ids : q # o => owed'[q] = owed[q]
    BY <1>0 DEF EventChange
  <2>4. ASSUME Works(o, obj, call') PROVE y.history \o Pieces(y.queue) = owed'[o]
    <3>1. CASE y.pid # 0
      BY <2>2, <3>1
    <3>2. CASE y.pid = 0
      <4>1. PICK h \in Threads : call[h].obj = o /\ call[h].at \in Starting
        BY <1>2, <1>3, <2>4, <3>2 DEF Works
      <4>2. CallInv(sessions, session, h, call[h])
        BY <1>1 DEF Table
      <4>3. session[o].pid = 0
        BY <1>2, <4>1, <4>2 DEF CallInv, Starting
      <4>4. y.queue = <<>> /\ session[o].queue = <<>>
        <5>1. ObjectInv(y, o, alive', LetGo, drains')
          BY <1>0 DEF EventChange
        <5>2. ObjectInv(session[o], o, alive, LetGo, drains)
          BY <1>1 DEF Sound
        <5> QED BY <3>2, <4>3, <5>1, <5>2 DEF ObjectInv
      <4>5. y.history = session[o].history
        BY <1>4, <4>3
      <4>6. owed' = owed
        BY <1>0, <4>3 DEF EventChange
      <4>7. session[o].history \o Pieces(session[o].queue) = owed[o]
        BY <2>1, <4>1 DEF Complete, Works
      <4> QED BY <4>4, <4>5, <4>6, <4>7
    <3> QED BY <3>1, <3>2
  <2>5. \A g \in Threads : call'[g].at \in Starting => call'[g].obj = o \/ call'[g] = call[g]
    BY <1>3
  <2>6. Works(o, [session EXCEPT ![o] = y], call') => y.history \o Pieces(y.queue) = owed'[o]
    BY <2>4
  <2>7. session \in [Ids -> Objects] /\ call \in [Threads -> Calls] /\ o \in Ids
    BY <1>2
  <2> HIDE DEF obj
  <2>8. Complete([session EXCEPT ![o] = y], call', owed')
    BY ONLY <2>1, <2>3, <2>5, <2>6, <2>7, CompleteChange
  <2> QED BY <2>8 DEF obj
<1>11. StillWithout(notes, {"said_while_clearing", "evicted"}) => Showing(sessions, obj, call', shown')
  <2> SUFFICES ASSUME StillWithout(notes, {"said_while_clearing", "evicted"})
               PROVE  Showing(sessions, obj, call', shown')
    OBVIOUS
  <2>1. Showing(sessions, session, call, shown) /\ Keeps
    BY DEF AllInv, Without, StillWithout, Keeps
  <2>2. \A u \in Terminals : sessions[u] # 0 => session[sessions[u]].of = u
    BY <1>1 DEF Table
  <2>3. \A u \in Terminals : sessions[u] = o /\ y.pid # 0 /\ ~Clearing(call, u) =>
          shown[u] = session[o].history
    BY <1>2, <1>3, <2>1 DEF Showing
  <2>4. /\ \A u \in Terminals : sessions[u] = o /\ y.pid # 0 /\ ~Clearing(call, u) => shown'[u] = y.history
        /\ \A u \in Terminals : sessions[u] # o /\ sessions[u] # 0 => shown'[u] = shown[u]
    <3>1. CASE y.history = session[o].history /\ waiting' = waiting /\ shown' = shown
      BY <1>3, <2>3, <3>1 DEF Clearing
    <3>2. CASE \E piece \in Nat :
              /\ session[o].pid # 0 /\ y.history = Append(session[o].history, piece)
              /\ waiting' = [waiting EXCEPT ![y.of] = {y.history}]
              /\ shown' = [shown EXCEPT ![y.of] = Append(@, piece)]
      <4>1. PICK piece \in Nat :
              /\ session[o].pid # 0 /\ y.history = Append(session[o].history, piece)
              /\ shown' = [shown EXCEPT ![y.of] = Append(@, piece)]
        BY <3>2
      <4>2. PICK t \in Terminals : sessions[t] = o
        BY <1>1, <2>1, <4>1 DEF Table
      <4>3. y.of = t
        BY <1>2, <1>3, <2>2, <4>2
      <4>4. \A u \in Terminals : sessions[u] = o => u = t
        BY <1>2, <2>2, <4>2
      <4>5. /\ shown'[t] = Append(shown[t], piece)
            /\ \A u \in Terminals : u # t => shown'[u] = shown[u]
        BY <1>2, <4>1, <4>3
      <4> QED BY <1>3, <2>3, <4>1, <4>2, <4>4, <4>5 DEF Clearing
    <3> QED BY <1>4, <3>1, <3>2
  <2> HIDE DEF obj
  <2>5. session \in [Ids -> Objects] /\ sessions \in [Terminals -> Ids \cup {0}] /\ o \in Ids
    BY <1>2
  <2>6. Showing(sessions, [session EXCEPT ![o] = y], call, shown')
    BY ONLY <2>1, <2>4, <2>5, ShowingOfKept
  <2> QED BY <1>3, <2>6 DEF obj
<1>12. StillWithout(notes, {"evicted", "undeleted", "unwritten"}) =>
         Filed(sessions, obj, left, waiting', writing', file')
  <2> SUFFICES ASSUME StillWithout(notes, {"evicted", "undeleted", "unwritten"})
               PROVE  Filed(sessions, obj, left, waiting', writing', file')
    OBVIOUS
  <2>1. Filed(sessions, session, left, waiting, writing, file) /\ Keeps
    BY DEF AllInv, Without, StillWithout, Keeps
  <2>2. CASE y.history = session[o].history /\ waiting' = waiting /\ shown' = shown
    <3> HIDE DEF obj
    <3>1. Filed(sessions, [session EXCEPT ![o] = y], left, waiting, writing, file)
      BY <1>2, <2>1, <2>2, FiledKept
    <3> QED BY <1>3, <2>2, <3>1 DEF obj
  <2>3. CASE \E piece \in Nat :
            /\ session[o].pid # 0 /\ y.history = Append(session[o].history, piece)
            /\ waiting' = [waiting EXCEPT ![y.of] = {y.history}]
            /\ shown' = [shown EXCEPT ![y.of] = Append(@, piece)]
    <3>1. session[o].pid # 0 /\ waiting' = [waiting EXCEPT ![y.of] = {y.history}]
      BY <2>3
    <3>2. PICK t \in Terminals : sessions[t] = o
      BY <1>1, <2>1, <3>1 DEF Table
    <3>3. \A u \in Terminals : sessions[u] # 0 => session[sessions[u]].of = u
      BY <1>1 DEF Table
    <3>4. y.of = t /\ o # 0
      BY <1>2, <1>3, <3>2, <3>3
    <3>5. \A u \in Terminals : u # t => sessions[u] = sessions[u] /\ sessions[u] # o
      BY <1>2, <3>2, <3>3
    <3> HIDE DEF obj
    <3>6. Filed(sessions, [session EXCEPT ![o] = y], left, [waiting EXCEPT ![t] = {y.history}], writing, file)
      BY <1>2, <2>1, <3>2, <3>4, <3>5, FiledEnqueued
    <3> QED BY <1>3, <3>1, <3>4, <3>6 DEF obj
  <2> QED BY <1>4, <2>2, <2>3
<1>13. obj \in [Ids -> Objects]
  BY <1>2
<1> HIDE DEF obj
<1>14. Middle(sessions, obj, notes)
  BY <1>2, <1>3, <1>5, <1>6, <1>8, <1>9, <1>10, <1>11, <1>12, <1>13 DEF Middle
<1> QED BY <1>14 DEF obj

\* The three outcomes of a turn.
LEMMA DrainFacts ==
  ASSUME NEW x \in Objects, NEW p
  PROVE  LET y == DrainStep(x, p).object
             event == DrainStep(x, p).event
         IN /\ y \in Objects /\ y.of = x.of
            /\ \/ /\ event = "none" /\ (x.pid # p \/ x.status # "running" \/ x.queue = <<>>)
                  /\ y.pid = x.pid /\ y.status = x.status /\ y.history = x.history
                  /\ y.queue = <<>> /\ ~y.draining
               \/ /\ event = "exit" /\ x.pid = p /\ x.queue # <<>> /\ Head(x.queue) = exit
                  /\ y.pid = 0 /\ y.history = x.history /\ y.queue = <<>> /\ ~y.draining
               \/ /\ event = "output" /\ x.pid = p /\ x.queue # <<>> /\ Head(x.queue) # exit
                  /\ y.pid = p /\ y.status = x.status /\ y.history = Append(x.history, Head(x.queue))
                  /\ y.queue = Tail(x.queue) /\ y.draining = x.draining
<1> DEFINE y == DrainStep(x, p).object
           event == DrainStep(x, p).event
<1>1. x.queue \in Seq(Nat) /\ x.history \in Seq(Nat) /\ <<>> \in Seq(Nat)
  BY EmptySeq DEF Objects
<1>2. CASE x.pid # p \/ x.status # "running" \/ x.queue = <<>>
  <2>1. DrainStep(x, p) = [object |-> [x EXCEPT !.queue = <<>>, !.draining = FALSE], event |-> "none"]
    BY <1>2 DEF DrainStep
  <2>2. y = [x EXCEPT !.queue = <<>>, !.draining = FALSE] /\ event = "none"
    BY <2>1
  <2>3. [x EXCEPT !.queue = <<>>, !.draining = FALSE] \in Objects
    BY <1>1 DEF Objects
  <2>4. /\ y.of = x.of /\ y.pid = x.pid /\ y.status = x.status /\ y.history = x.history
        /\ y.queue = <<>> /\ ~y.draining
    BY <2>2 DEF Objects
  <2> QED BY <1>2, <2>2, <2>3, <2>4
<1>3. CASE x.pid = p /\ x.status = "running" /\ x.queue # <<>> /\ Head(x.queue) = exit
  <2>1. DrainStep(x, p) = [object |-> Ended(x), event |-> "exit"]
    BY <1>3 DEF DrainStep
  <2>2. y = Ended(x) /\ event = "exit"
    BY <2>1
  <2> QED BY <1>3, <2>2, EmptiedSession
<1>4. CASE x.pid = p /\ x.status = "running" /\ x.queue # <<>> /\ Head(x.queue) # exit
  <2>1. DrainStep(x, p) = [object |-> [x EXCEPT !.history = Append(@, Head(x.queue)), !.queue = Tail(@)],
                           event |-> "output"]
    BY <1>4 DEF DrainStep
  <2>2. y = [x EXCEPT !.history = Append(x.history, Head(x.queue)), !.queue = Tail(x.queue)]
        /\ event = "output"
    BY <2>1
  <2>3. Append(x.history, Head(x.queue)) \in Seq(Nat) /\ Tail(x.queue) \in Seq(Nat)
    BY <1>1, <1>4, HeadTailProperties, AppendProperties
  <2>4. [x EXCEPT !.history = Append(x.history, Head(x.queue)), !.queue = Tail(x.queue)] \in Objects
    BY <2>3 DEF Objects
  <2>5. /\ y.of = x.of /\ y.pid = p /\ y.status = x.status
        /\ y.history = Append(x.history, Head(x.queue))
        /\ y.queue = Tail(x.queue) /\ y.draining = x.draining
    BY <1>4, <2>2 DEF Objects
  <2> QED BY <1>4, <2>2, <2>4, <2>5
<1> HIDE DEF y, event
<1> QED BY <1>2, <1>3, <1>4 DEF y, event

(* What a turn on the object o finds: x, with what was queued last.          *)
Queued(o, x) ==
  /\ x.of = session[o].of /\ x.pid = session[o].pid /\ x.history = session[o].history
  /\ x.pid # 0 => x.status = "running" /\ x.pid \notin LetGo
  /\ ~x.draining => x.queue = <<>>
  /\ \A i \in 1..Len(x.queue) : x.queue[i] = exit => i = Len(x.queue) /\ x.pid \notin alive'
  /\ Without({"exit_cleared", "stale_drain"}) =>
        (x.pid # 0 /\ x.pid \notin alive' => \E i \in 1..Len(x.queue) : x.queue[i] = exit)
  /\ Without({"stale_drain"}) => (x.pid # 0 => x.history \o Pieces(x.queue) = owed'[o])
  /\ alive' \subseteq alive /\ \A p \in alive : p \in alive' \/ p = session[o].pid
  /\ session[o].pid = 0 => owed' = owed
  /\ owed' \in [Ids -> Seq(Nat)] /\ \A q \in Ids : q # o => owed'[q] = owed[q]
  /\ UNCHANGED <<LetGo, writing, file, call>> /\ said' \in Nat /\ budget' \in [Kinds -> Nat]

LEMMA TurnChange ==
  ASSUME AllInv, NEW o \in Ids, NEW x \in Objects, NEW notes, notes \subseteq Races, Queued(o, x),
         NEW d \in [obj : Ids, pid : Pids, after : {"output", "exit"}, n : Fibers], d.obj = o,
         x.pid # d.pid /\ x.queue # <<>> => "stale_drain" \in notes, Turn(x, d, notes)
  PROVE  EventChange(o, DrainStep(x, d.pid).object, notes)
<1> DEFINE y == DrainStep(x, d.pid).object
           event == DrainStep(x, d.pid).event
<1>1. /\ y \in Objects /\ y.of = x.of
      /\ \/ /\ event = "none" /\ (x.pid # d.pid \/ x.status # "running" \/ x.queue = <<>>)
            /\ y.pid = x.pid /\ y.status = x.status /\ y.history = x.history
            /\ y.queue = <<>> /\ ~y.draining
         \/ /\ event = "exit" /\ x.pid = d.pid /\ x.queue # <<>> /\ Head(x.queue) = exit
            /\ y.pid = 0 /\ y.history = x.history /\ y.queue = <<>> /\ ~y.draining
         \/ /\ event = "output" /\ x.pid = d.pid /\ x.queue # <<>> /\ Head(x.queue) # exit
            /\ y.pid = d.pid /\ y.status = x.status /\ y.history = Append(x.history, Head(x.queue))
            /\ y.queue = Tail(x.queue) /\ y.draining = x.draining
  BY DrainFacts
<1>2. /\ drains' = (drains \ {d}) \cup (IF event = "none" THEN {} ELSE {[d EXCEPT !.after = event]})
      /\ IF event = "output"
         THEN /\ waiting' = [waiting EXCEPT ![x.of] = {y.history}]
              /\ shown' = [shown EXCEPT ![x.of] = Append(@, Head(x.queue))]
         ELSE waiting' = waiting /\ shown' = shown
  BY DEF Turn, Enqueue
<1> HIDE DEF y, event
<1>3. TypeOK /\ 0 \notin Pids /\ d.pid \in Pids /\ alive \subseteq Pids
      /\ drains \subseteq [obj : Ids, pid : Pids, after : {"output", "exit"}, n : Fibers]
  BY TerminalAssumption DEF AllInv, TypeOK
<1>4. x.queue \in Seq(Nat) /\ x.history \in Seq(Nat) /\ 0 \notin alive'
  BY <1>3 DEF Objects, Queued
<1>5. drains' \subseteq [obj : Ids, pid : Pids, after : {"output", "exit"}, n : Fibers]
  BY <1>1, <1>2, <1>3
<1>6. \A f \in drains : f.obj # o => f \in drains'
  BY <1>2
<1>7. x.queue # <<>> => /\ Len(x.queue) \in Nat /\ Len(x.queue) > 0 /\ Head(x.queue) = x.queue[1]
                        /\ Head(x.queue) \in Nat /\ Len(Tail(x.queue)) = Len(x.queue) - 1
                        /\ \A i \in 1..(Len(x.queue) - 1) : Tail(x.queue)[i] = x.queue[i + 1]
  BY <1>4, HeadTailProperties, EmptySeq
<1>8. <<>> \in Seq(Nat) /\ Len(<<>>) = 0 /\ 1..0 = {}
  BY EmptySeq
<1>9. /\ y.of = session[o].of /\ y.pid \in {0, session[o].pid}
      /\ y.pid = 0 => session[o].pid \notin alive'
  <2>1. x.queue # <<>> /\ Head(x.queue) = exit => x.pid \notin alive'
    BY <1>7 DEF Queued
  <2> QED BY <1>1, <1>3, <1>4, <2>1 DEF Queued
<1>10. ObjectInv(y, o, alive', LetGo, drains')
  <2>1. y.pid # 0 => y.status = "running" /\ y.pid \notin LetGo
    BY <1>1 DEF Queued
  <2>2. (y.pid = 0 => ~y.draining) /\ (~y.draining => y.queue = <<>>)
    <3>1. x.queue # <<>> => x.draining
      BY DEF Queued
    <3> QED BY <1>1, <1>3, <3>1
  <2>3. \A i \in 1..Len(y.queue) : y.queue[i] = exit => i = Len(y.queue) /\ y.pid \notin alive'
    <3>1. CASE y.queue = <<>>
      BY <1>8, <3>1
    <3>2. CASE event = "output"
      <4>1. /\ x.queue # <<>> /\ y.queue = Tail(x.queue) /\ y.pid = x.pid
        BY <1>1, <3>2
      <4>2. \A i \in 1..Len(x.queue) : x.queue[i] = exit => i = Len(x.queue) /\ x.pid \notin alive'
        BY DEF Queued
      <4>3. ASSUME NEW i \in 1..Len(Tail(x.queue)), Tail(x.queue)[i] = exit
            PROVE  i = Len(Tail(x.queue)) /\ x.pid \notin alive'
        <5>1. i \in 1..(Len(x.queue) - 1) /\ i + 1 \in 1..Len(x.queue)
          BY <1>7, <4>1
        <5>2. x.queue[i + 1] = exit
          BY <1>7, <4>1, <4>3, <5>1
        <5> QED BY <1>7, <4>1, <4>2, <5>1, <5>2
      <4> QED BY <4>1, <4>3
    <3> QED BY <1>1, <3>1, <3>2
  <2>4. y.draining => \E f \in drains' : f.obj = o /\ f.pid = y.pid /\ f.after = "output"
    <3> SUFFICES ASSUME y.draining PROVE \E f \in drains' : f.obj = o /\ f.pid = y.pid /\ f.after = "output"
      OBVIOUS
    <3>1. event = "output" /\ y.pid = d.pid
      BY <1>1
    <3>2. [d EXCEPT !.after = "output"] \in drains'
      BY <1>2, <3>1
    <3>3. [d EXCEPT !.after = "output"].obj = o /\ [d EXCEPT !.after = "output"].pid = d.pid
          /\ [d EXCEPT !.after = "output"].after = "output"
      OBVIOUS
    <3> QED BY <3>1, <3>2, <3>3
  <2> QED BY <2>1, <2>2, <2>3, <2>4 DEF ObjectInv
<1>11. StillWithout(notes, {"exit_cleared", "stale_drain"}) =>
         (y.pid # 0 /\ y.pid \notin alive' => \E i \in 1..Len(y.queue) : y.queue[i] = exit)
  <2> SUFFICES ASSUME StillWithout(notes, {"exit_cleared", "stale_drain"}), y.pid # 0, y.pid \notin alive'
               PROVE  \E i \in 1..Len(y.queue) : y.queue[i] = exit
    OBVIOUS
  <2>1. Without({"exit_cleared", "stale_drain"}) /\ "stale_drain" \notin notes
    BY DEF Without, StillWithout
  <2>2. y.pid = x.pid
    BY <1>1
  <2>3. PICK i \in 1..Len(x.queue) : x.queue[i] = exit
    BY <2>1, <2>2 DEF Queued
  <2>4. x.queue # <<>> /\ x.status = "running" /\ x.pid = d.pid
    BY <1>8, <2>1, <2>2, <2>3 DEF Queued
  <2>5. event = "output" /\ y.queue = Tail(x.queue) /\ Head(x.queue) # exit
    BY <1>1, <2>4
  <2>6. i # 1 /\ i - 1 \in 1..(Len(x.queue) - 1) /\ (i - 1) + 1 = i
    BY <1>7, <2>3, <2>4, <2>5
  <2>7. Tail(x.queue)[i - 1] = exit
    BY <1>7, <2>3, <2>4, <2>6
  <2> QED BY <1>7, <2>4, <2>5, <2>6, <2>7
<1>12. StillWithout(notes, {"stale_drain"}) => (y.pid # 0 => y.history \o Pieces(y.queue) = owed'[o])
  <2> SUFFICES ASSUME StillWithout(notes, {"stale_drain"}), y.pid # 0
               PROVE  y.history \o Pieces(y.queue) = owed'[o]
    OBVIOUS
  <2>1. Without({"stale_drain"}) /\ "stale_drain" \notin notes
    BY DEF Without, StillWithout
  <2>2. y.pid = x.pid /\ x.status = "running"
    BY <1>1 DEF Queued
  <2>3. x.history \o Pieces(x.queue) = owed'[o]
    BY <2>1, <2>2 DEF Queued
  <2>4. CASE event = "none"
    BY <1>1, <2>1, <2>2, <2>3, <2>4
  <2>5. CASE event = "output"
    <3>1. /\ x.queue # <<>> /\ Head(x.queue) # exit /\ y.queue = Tail(x.queue)
          /\ y.history = Append(x.history, Head(x.queue))
      BY <1>1, <2>5
    <3>2. Append(x.history, Head(x.queue)) \o Pieces(Tail(x.queue)) = x.history \o Pieces(x.queue)
      BY <1>4, <3>1, PieceTaken
    <3> QED BY <2>3, <3>1, <3>2
  <2> QED BY <1>1, <2>4, <2>5
<1>13. \/ y.history = session[o].history /\ waiting' = waiting /\ shown' = shown
       \/ \E piece \in Nat :
             /\ session[o].pid # 0 /\ y.history = Append(session[o].history, piece)
             /\ waiting' = [waiting EXCEPT ![y.of] = {y.history}]
             /\ shown' = [shown EXCEPT ![y.of] = Append(@, piece)]
  <2>1. CASE event = "output"
    <3>1. /\ Head(x.queue) \in Nat /\ session[o].pid # 0
          /\ y.history = Append(session[o].history, Head(x.queue))
      BY <1>1, <1>3, <1>7, <2>1 DEF Queued
    <3>2. /\ waiting' = [waiting EXCEPT ![y.of] = {y.history}]
          /\ shown' = [shown EXCEPT ![y.of] = Append(@, Head(x.queue))]
      BY <1>1, <1>2, <2>1
    <3> QED BY <3>1, <3>2
  <2>2. CASE event # "output"
    BY <1>1, <1>2, <2>2 DEF Queued
  <2> QED BY <2>1, <2>2
<1>14. EventChange(o, y, notes)
  BY <1>5, <1>6, <1>9, <1>10, <1>11, <1>12, <1>13 DEF EventChange, Queued
<1> QED BY <1>14 DEF y

\* A turn of a fiber preserves the invariant.
LEMMA TurnStep ==
  ASSUME AllInv, NEW o \in Ids, NEW x \in Objects, NEW notes, notes \subseteq Races, Queued(o, x),
         NEW d \in [obj : Ids, pid : Pids, after : {"output", "exit"}, n : Fibers], d.obj = o,
         x.pid # d.pid /\ x.queue # <<>> => "stale_drain" \in notes, Turn(x, d, notes)
  PROVE  AllInv'
<1> DEFINE y == DrainStep(x, d.pid).object
           order == IF DrainStep(x, d.pid).event # "none" /\ d.obj \in Listed(sessions)
                    THEN Touched(d.obj) ELSE updated
<1>1. EventChange(o, y, notes) /\ y \in Objects
  BY TurnChange, DrainFacts
<1>2. Save([session EXCEPT ![o] = y], order, notes)
  BY DEF Turn
<1>3. TypeOK
  BY DEF AllInv
<1> HIDE DEF y, order
<1>4. Middle(sessions, [session EXCEPT ![o] = y], notes)
  BY <1>1, EventStep
<1> QED BY <1>2, <1>3, <1>4, SaveStep

\* A callback queues an event, and a fiber takes it unless one is to come.
LEMMA CallbackStep ==
  ASSUME AllInv, NEW o \in Ids, NEW event \in Nat, session[o].pid \in alive, Callback(o, event),
         \/ event # exit /\ alive' = alive /\ owed' = [owed EXCEPT ![o] = Append(@, event)]
         \/ event = exit /\ alive' = alive \ {session[o].pid} /\ owed' = owed,
         UNCHANGED <<LetGo, writing, file, call>>, said' \in Nat, budget' \in [Kinds -> Nat]
  PROVE  AllInv'
<1> DEFINE x == [session[o] EXCEPT !.queue = Append(@, event)]
           z == [x EXCEPT !.draining = TRUE]
<1>1. /\ TypeOK /\ Sound(session, alive, LetGo, drains)
      /\ session \in [Ids -> Objects] /\ alive \subseteq Pids /\ owed \in [Ids -> Seq(Nat)]
      /\ drains \subseteq [obj : Ids, pid : Pids, after : {"output", "exit"}, n : Fibers]
      /\ 0 \notin Pids
  BY TerminalAssumption DEF AllInv, TypeOK
<1>2. /\ session[o] \in Objects /\ session[o].queue \in Seq(Nat) /\ session[o].history \in Seq(Nat)
      /\ session[o].pid \in Pids /\ session[o].pid # 0
  BY <1>1 DEF Objects
<1>3. ObjectInv(session[o], o, alive, LetGo, drains)
  BY <1>1 DEF Sound
<1>4. /\ Append(session[o].queue, event) \in Seq(Nat)
      /\ Len(session[o].queue) \in Nat
      /\ Len(Append(session[o].queue, event)) = Len(session[o].queue) + 1
      /\ \A i \in 1..Len(session[o].queue) : Append(session[o].queue, event)[i] = session[o].queue[i]
      /\ Append(session[o].queue, event)[Len(session[o].queue) + 1] = event
  BY <1>2, AppendProperties
<1>5. /\ x \in Objects /\ x.of = session[o].of /\ x.pid = session[o].pid
      /\ x.history = session[o].history /\ x.status = session[o].status
      /\ x.queue = Append(session[o].queue, event) /\ x.draining = session[o].draining
  BY <1>2, <1>4 DEF Objects
<1>6. /\ z \in Objects /\ z.of = session[o].of /\ z.pid = session[o].pid
      /\ z.history = session[o].history /\ z.status = session[o].status
      /\ z.queue = Append(session[o].queue, event) /\ z.draining = TRUE
  <2> HIDE DEF x
  <2> QED BY <1>5 DEF Objects
<1>7. \A i \in 1..Len(session[o].queue) : session[o].queue[i] # exit
  BY <1>3 DEF ObjectInv
<1>8. ASSUME NEW u \in Objects, u.of = session[o].of, u.pid = session[o].pid,
             u.history = session[o].history, u.status = session[o].status,
             u.queue = Append(session[o].queue, event), u.draining
      PROVE  Queued(o, u)
  <2>1. u.pid # 0 => u.status = "running" /\ u.pid \notin LetGo
    BY <1>3, <1>8 DEF ObjectInv
  <2>2. \A i \in 1..Len(u.queue) : u.queue[i] = exit => i = Len(u.queue) /\ u.pid \notin alive'
    BY <1>4, <1>7, <1>8
  <2>3. u.pid \notin alive' => \E i \in 1..Len(u.queue) : u.queue[i] = exit
    <3> SUFFICES ASSUME u.pid \notin alive' PROVE \E i \in 1..Len(u.queue) : u.queue[i] = exit
      OBVIOUS
    <3>1. event = exit
      BY <1>8
    <3> QED BY <1>4, <1>8, <3>1
  <2>4. Without({"stale_drain"}) => u.history \o Pieces(u.queue) = owed'[o]
    <3> SUFFICES ASSUME Without({"stale_drain"}) PROVE u.history \o Pieces(u.queue) = owed'[o]
      OBVIOUS
    <3>1. session[o].history \o Pieces(session[o].queue) = owed[o]
      BY <1>2 DEF AllInv, Complete, Works
    <3>2. session[o].history \o Pieces(Append(session[o].queue, event)) =
            IF event = exit THEN session[o].history \o Pieces(session[o].queue)
            ELSE Append(session[o].history \o Pieces(session[o].queue), event)
      BY <1>2, <1>7, PieceQueued
    <3>3. event # exit => owed'[o] = Append(owed[o], event)
      BY <1>1
    <3>4. event = exit => owed'[o] = owed[o]
      OBVIOUS
    <3> QED BY <1>8, <3>1, <3>2, <3>3, <3>4
  <2>5. /\ alive' \subseteq alive /\ \A p \in alive : p \in alive' \/ p = session[o].pid
        /\ \A q \in Ids : q # o => owed'[q] = owed[q]
    BY <1>1
  <2>6. owed' \in [Ids -> Seq(Nat)]
    <3>1. Append(owed[o], event) \in Seq(Nat)
      BY <1>1, AppendProperties
    <3> QED BY <1>1, <3>1
  <2> QED BY <1>2, <1>8, <2>1, <2>2, <2>3, <2>4, <2>5, <2>6 DEF Queued
<1>9. CASE session[o].draining
  <2> DEFINE none == {}
  <2>1. Save([session EXCEPT ![o] = x], updated, {}) /\ UNCHANGED <<drains, waiting, shown>>
    BY <1>5, <1>9 DEF Callback
  <2> HIDE DEF x
  <2>2. Queued(o, x)
    BY <1>5, <1>8, <1>9
  <2>3. ObjectInv(x, o, alive', LetGo, drains')
    <3>1. \E d \in drains : d.obj = o /\ d.pid = x.pid /\ d.after = "output"
      BY <1>3, <1>5, <1>9 DEF ObjectInv
    <3> QED BY <1>2, <1>5, <1>9, <2>1, <2>2, <3>1 DEF ObjectInv, Queued
  <2>4. none \subseteq Races /\ \A e : StillWithout(none, e) => Without(e)
    BY DEF StillWithout, Without
  <2> HIDE DEF none
  <2>5. EventChange(o, x, none)
    BY <1>1, <1>2, <1>5, <2>1, <2>2, <2>3, <2>4 DEF EventChange, Queued
  <2>6. Middle(sessions, [session EXCEPT ![o] = x], none)
    BY <1>5, <2>5, EventStep
  <2>7. Save([session EXCEPT ![o] = x], updated, none)
    BY <2>1 DEF none
  <2> QED BY <1>1, <2>6, <2>7, SaveStep
<1>10. CASE ~session[o].draining
  <2> DEFINE none == {}
  <2>1. PICK n \in Fibers : Turn(z, [obj |-> o, pid |-> x.pid, after |-> "output", n |-> n], {})
    BY <1>5, <1>10 DEF Callback
  <2> DEFINE d == [obj |-> o, pid |-> x.pid, after |-> "output", n |-> n]
  <2>2. d \in [obj : Ids, pid : Pids, after : {"output", "exit"}, n : Fibers] /\ d.obj = o
        /\ d.pid = z.pid
    BY <1>2, <1>5, <1>6
  <2>3. Turn(z, d, none) /\ none \subseteq Races
    BY <2>1
  <2> HIDE DEF x, z, d, none
  <2>4. Queued(o, z)
    BY <1>6, <1>8
  <2> QED BY <1>6, <2>2, <2>3, <2>4, TurnStep
<1> QED BY <1>9, <1>10

LEMMA OutputStep ==
  ASSUME AllInv, NEW o \in Ids, Output(o)
  PROVE  AllInv'
<1>1. said \in Nat /\ budget \in [Kinds -> Nat] /\ "outputs" \in Kinds
  BY DEF AllInv, TypeOK, Kinds
<1>2. budget' \in [Kinds -> Nat]
  BY <1>1 DEF Output, Spend
<1>3. said' \in Nat /\ said' # exit
  BY <1>1 DEF Output, exit
<1> QED BY <1>2, <1>3, CallbackStep DEF Output, LetGo

LEMMA ExitStep ==
  ASSUME AllInv, NEW o \in Ids, Exit(o)
  PROVE  AllInv'
<1>1. said \in Nat /\ budget \in [Kinds -> Nat] /\ "exits" \in Kinds
  BY DEF AllInv, TypeOK, Kinds
<1>2. budget' \in [Kinds -> Nat] /\ said' \in Nat /\ exit \in Nat
  BY <1>1 DEF Exit, Spend, exit
<1> QED BY <1>2, CallbackStep DEF Exit, LetGo

LEMMA DeliveredStep ==
  ASSUME AllInv, NEW d \in drains, Delivered(d)
  PROVE  AllInv'
<1> DEFINE x == session[d.obj]
           notes == Notes(x.pid # d.pid /\ x.queue # <<>>, "stale_drain")
<1>1. /\ TypeOK /\ Sound(session, alive, LetGo, drains)
      /\ session \in [Ids -> Objects] /\ owed \in [Ids -> Seq(Nat)]
      /\ d \in [obj : Ids, pid : Pids, after : {"output", "exit"}, n : Fibers]
  BY DEF AllInv, TypeOK
<1>2. d.obj \in Ids /\ x \in Objects
  BY <1>1
<1>3. Turn(x, d, notes) /\ UNCHANGED <<LetGo, alive, writing, file, call, owed, said, budget>>
  BY DEF Delivered, LetGo
<1>4. notes \subseteq Races /\ (x.pid # d.pid /\ x.queue # <<>> => "stale_drain" \in notes)
  BY DEF Notes, Races
<1>5. Queued(d.obj, x)
  <2>1. ObjectInv(x, d.obj, alive, LetGo, drains)
    BY <1>1, <1>2 DEF Sound
  <2>2. Without({"exit_cleared", "stale_drain"}) =>
          (x.pid # 0 /\ x.pid \notin alive => \E i \in 1..Len(x.queue) : x.queue[i] = exit)
    BY <1>2 DEF AllInv, Ends
  <2>3. Without({"stale_drain"}) => (x.pid # 0 => x.history \o Pieces(x.queue) = owed[d.obj])
    BY <1>2 DEF AllInv, Complete, Works
  <2>4. said' \in Nat /\ budget' \in [Kinds -> Nat]
    BY <1>1, <1>3 DEF TypeOK
  <2> QED BY <1>1, <1>3, <2>1, <2>2, <2>3, <2>4 DEF Queued, ObjectInv
<1> HIDE DEF x, notes
<1> QED BY <1>1, <1>2, <1>3, <1>4, <1>5, TurnStep

\* The session of a terminal goes, and its object is no longer used.
LEMMA ClosedStep ==
  ASSUME AllInv, NEW h \in Threads, Closed(h)
  PROVE  AllInv'
<1> DEFINE t == call[h].of
           o == sessions[t]
           deletes == call[h].delete /\ ~call[h].whole
           c == IF call[h].whole THEN [call[h] EXCEPT !.at = "next", !.of = None, !.obj = 0] ELSE Free
<1>1. /\ TypeOK /\ Sound(session, alive, LetGo, drains)
      /\ Table(sessions, session, call, Keeps)
      /\ Single(waiting, writing)
  BY DEF AllInv
<1>2. /\ session \in [Ids -> Objects] /\ call \in [Threads -> Calls] /\ 0 \notin Ids
      /\ sessions \in [Terminals -> Ids \cup {0}] /\ left \in [Terminals -> Seq(Nat)]
      /\ file \in [Terminals -> Seq(Nat)] /\ alive \subseteq Pids /\ 0 \notin Pids
      /\ <<>> \in Seq(Nat)
  BY <1>1, TerminalAssumption, EmptySeq DEF TypeOK
<1>3. CallInv(sessions, session, h, call[h]) /\ call[h].at = "close" /\ Drained(t)
  BY <1>1 DEF Table, Closed
<1>4. t \in Terminals /\ ThreadOf[t] = h /\ o \in Ids \cup {0} /\ o \in {0, call[h].obj}
  <2>1. t \in Terminals \cup {None} /\ t # None
    BY <1>2, <1>3 DEF CallInv, Calls
  <2> QED BY <1>2, <1>3, <2>1 DEF CallInv
<1>5. o # 0 => o \in Ids /\ session[o].pid = 0 /\ session[o].of = t /\ call[h].obj = o
  BY <1>1, <1>3, <1>4 DEF CallInv, Table
<1>6. /\ UNCHANGED <<races, LetGo, alive, drains, waiting, writing, shown, owed, said, budget>>
      /\ sessions' = [sessions EXCEPT ![t] = 0]
      /\ session' = IF o = 0 THEN session ELSE [session EXCEPT ![o] = Blank]
      /\ left' = [left EXCEPT ![t] = CASE deletes -> <<>>
                                       [] ~deletes /\ o # 0 -> session[o].history
                                       [] OTHER -> @]
      /\ file' = IF deletes THEN [file EXCEPT ![t] = <<>>] ELSE file
      /\ call' = [call EXCEPT ![h] = c]
  BY DEF Closed, LetGo
<1>7. /\ c \in Calls /\ c.at \in {"next", "idle"} /\ c.obj = 0 /\ c.of = None
      /\ c.rest = (IF call[h].whole THEN call[h].rest ELSE {}) /\ c.whole = call[h].whole
      /\ c.whole => c.at = "next"
      /\ ~c.whole => c.at = "idle"
  <2>1. CASE call[h].whole
    <3>1. c = [call[h] EXCEPT !.at = "next", !.of = None, !.obj = 0] /\ call[h] \in Calls
      BY <1>2, <2>1
    <3> QED BY <2>1, <3>1 DEF Calls
  <2>2. CASE ~call[h].whole
    <3>1. c = Free /\ call[h].whole = FALSE
      BY <1>2, <2>2 DEF Calls
    <3> QED BY <3>1 DEF Calls, Free
  <2> QED BY <2>1, <2>2
<1>8. Blank \in Objects /\ Blank.pid = 0 /\ ObjectInv(Blank, o, alive, LetGo, drains)
  BY <1>2 DEF Blank, New, Objects, ObjectInv
<1>9. sessions'[t] = 0 /\ \A u \in Terminals : u # t => sessions'[u] = sessions[u]
  BY <1>2, <1>4, <1>6
<1>10. /\ \A q \in Ids : q # o => session'[q] = session[q]
       /\ o # 0 => session'[o] = Blank
       /\ session' \in [Ids -> Objects]
  BY <1>2, <1>5, <1>6, <1>8
<1>11. call'[h] = c /\ \A g \in Threads : g # h => call'[g] = call[g]
  BY <1>2, <1>6
<1> HIDE DEF c
<1>12. left' \in [Terminals -> Seq(Nat)] /\ \A u \in Terminals : u # t => left'[u] = left[u]
  <2>1. o # 0 => session[o].history \in Seq(Nat)
    BY <1>2, <1>5 DEF Objects
  <2> QED BY <1>2, <1>4, <1>6, <2>1
<1>13. file' \in [Terminals -> Seq(Nat)] /\ \A u \in Terminals : u # t => file'[u] = file[u]
  BY <1>2, <1>4, <1>6
<1>14. \A u \in Terminals : u # t /\ sessions[u] # 0 => sessions[u] \in Ids /\ sessions[u] # o
  BY <1>1, <1>2, <1>5 DEF Table
<1>15. \A g \in Threads : /\ call[g].obj # 0 => call[g].obj \in Ids
                          /\ g # h /\ call[g].obj # 0 => call[g].obj # o
                          /\ call[g].of # None => call[g].of \in Terminals
  BY <1>1, <1>2, <1>5 DEF Table, Calls
<1> HIDE DEF t, o, deletes
<1>16. TypeOK'
  <2>1. sessions' \in [Terminals -> Ids \cup {0}] /\ call' \in [Threads -> Calls]
    BY <1>2, <1>6, <1>7
  <2> QED BY <1>1, <1>6, <1>10, <1>12, <1>13, <2>1 DEF TypeOK
<1>17. Sound(session', alive', LetGo', drains')
  <2>1. CASE o = 0
    BY <1>1, <1>6, <2>1
  <2>2. CASE o # 0
    <3>1. /\ Blank.pid # 0 => \A q \in Ids : q # o => session[q].pid # Blank.pid
          /\ \A p \in LetGo : p \in LetGo \/ p = session[o].pid \/ \A q \in Ids : session[q].pid # p
          /\ \A p \in alive : p \in alive \/ p = Blank.pid
          /\ \A d \in drains : d.obj # o => d \in drains
          /\ \A p \in alive : p \in LetGo \/ p = Blank.pid \/ (p \notin LetGo /\ p # session[o].pid)
      BY <1>2, <1>5, <1>8, <2>2
    <3>2. Sound([session EXCEPT ![o] = Blank], alive, LetGo, drains)
      BY <1>1, <1>2, <1>5, <1>8, <2>2, <3>1, SoundChange
    <3> QED BY <1>6, <2>2, <3>2
  <2> QED BY <2>1, <2>2
<1>18. Table(sessions', session', call', Keeps')
  <2>1. \A u \in Terminals : sessions'[u] # 0 => session'[sessions'[u]].of = u
    BY <1>1, <1>9, <1>10, <1>14 DEF Table
  <2>2. ASSUME NEW g \in Threads PROVE CallInv(sessions', session', g, call'[g])
    <3>1. CASE g = h
      <4>1. c.whole => \A u \in Terminals : ThreadOf[u] = h /\ sessions'[u] # 0 => u \in c.rest
        BY <1>3, <1>7, <1>9 DEF CallInv, t
      <4>2. \A u \in c.rest : ThreadOf[u] = h
        BY <1>3, <1>7 DEF CallInv
      <4> QED BY <1>7, <1>11, <3>1, <4>1, <4>2 DEF CallInv, Starting
    <3>2. CASE g # h
      <4>1. CallInv(sessions, session, g, call[g]) /\ call'[g] = call[g]
        BY <1>1, <1>11, <3>2 DEF Table
      <4>2. call[g].obj # 0 => session'[call[g].obj] = session[call[g].obj]
        BY <1>10, <1>15, <3>2
      <4>3. \A u \in Terminals : sessions'[u] \in {0, sessions[u]}
        BY <1>9
      <4>4. call[g].obj # 0 => \A u \in Terminals : sessions'[u] = call[g].obj => u = call[g].of
        BY <4>1, <4>3 DEF CallInv
      <4>5. call[g].at = "close" => call[g].of # None /\ sessions'[call[g].of] \in {0, call[g].obj}
        BY <1>15, <4>1, <4>3 DEF CallInv
      <4>6. call[g].whole => \A u \in Terminals : ThreadOf[u] = g /\ sessions'[u] # 0 =>
                               u \in call[g].rest \/ (call[g].at = "close" /\ u = call[g].of)
        BY <4>1, <4>3 DEF CallInv
      <4> QED BY <4>1, <4>2, <4>4, <4>5, <4>6 DEF CallInv
    <3> QED BY <3>1, <3>2
  <2>3. \A g, i \in Threads : call'[g].obj # 0 /\ call'[g].obj = call'[i].obj => g = i
    BY <1>1, <1>7, <1>11 DEF Table
  <2>4. ASSUME Keeps', NEW q \in Ids, session'[q].pid # 0 PROVE \E u \in Terminals : sessions'[u] = q
    <3>1. Keeps /\ q # 0
      BY <1>2, <1>6, <2>4 DEF Keeps, Without
    <3>2. q # o /\ session[q].pid # 0
      BY <1>8, <1>10, <2>4, <3>1
    <3>3. PICK u \in Terminals : sessions[u] = q
      BY <1>1, <3>1, <3>2 DEF Table
    <3>4. u # t
      BY <3>2, <3>3 DEF o
    <3> QED BY <1>9, <3>3, <3>4
  <2>5. ASSUME Keeps', NEW g \in Threads, call'[g].obj # 0 PROVE sessions'[call'[g].of] = call'[g].obj
    <3>1. Keeps
      BY <1>6, <2>5 DEF Keeps, Without
    <3>2. g # h /\ call'[g] = call[g]
      BY <1>7, <1>11, <2>5
    <3>3. sessions[call[g].of] = call[g].obj /\ call[g].of # None /\ ThreadOf[call[g].of] = g
      BY <1>1, <2>5, <3>1, <3>2 DEF Table, CallInv
    <3>4. call[g].of \in Terminals /\ call[g].of # t
      BY <1>4, <1>15, <3>2, <3>3
    <3> QED BY <1>9, <3>2, <3>3, <3>4
  <2> QED BY <2>1, <2>2, <2>3, <2>4, <2>5 DEF Table
<1>19. (Without({"exit_cleared", "stale_drain"}) => Ends(session, alive))'
  <2> SUFFICES ASSUME Without({"exit_cleared", "stale_drain"})' PROVE Ends(session', alive')
    OBVIOUS
  <2>1. Ends(session, alive)
    BY <1>6 DEF AllInv, Without
  <2>2. \A q \in Ids : session'[q].pid # 0 => session'[q] = session[q]
    BY <1>2, <1>8, <1>10
  <2> QED BY <1>6, <2>1, <2>2 DEF Ends
<1>20. (Without({"stale_drain"}) => Complete(session, call, owed))'
  <2> SUFFICES ASSUME Without({"stale_drain"})' PROVE Complete(session', call', owed')
    OBVIOUS
  <2>1. Complete(session, call, owed)
    BY <1>6 DEF AllInv, Without
  <2>2. \A q \in Ids : session'[q].pid # 0 => session'[q] = session[q]
    BY <1>2, <1>8, <1>10
  <2>3. ASSUME NEW q \in Ids, NEW g \in Threads, call'[g].obj = q, call'[g].at \in Starting
        PROVE  session'[q] = session[q] /\ call'[g] = call[g]
    <3>1. g # h /\ call'[g] = call[g]
      BY <1>7, <1>11, <2>3 DEF Starting
    <3> QED BY <1>2, <1>10, <1>15, <2>3, <3>1
  <2> QED BY <1>6, <2>1, <2>2, <2>3 DEF Complete, Works
<1>21. (Without({"said_while_clearing", "evicted"}) => Showing(sessions, session, call, shown))'
  <2> SUFFICES ASSUME Without({"said_while_clearing", "evicted"})'
               PROVE  Showing(sessions', session', call', shown')
    OBVIOUS
  <2>1. Showing(sessions, session, call, shown)
    BY <1>6 DEF AllInv, Without
  <2>2. \A u \in Terminals : sessions'[u] # 0 => /\ sessions'[u] = sessions[u]
                                                /\ session'[sessions'[u]] = session[sessions[u]]
    BY <1>9, <1>10, <1>14
  <2>3. \A u \in Terminals : ThreadOf[u] \in Threads
    BY TerminalAssumption
  <2>4. \A u \in Terminals : Clearing(call, u) => Clearing(call', u)
    BY <1>3, <1>11, <2>3 DEF Clearing
  <2> QED BY <1>6, <2>1, <2>2, <2>4 DEF Showing
<1>22. (Without({"evicted", "undeleted", "unwritten"}) =>
          Filed(sessions, session, left, waiting, writing, file))'
  <2> SUFFICES ASSUME Without({"evicted", "undeleted", "unwritten"})'
               PROVE  Filed(sessions', session', left', waiting', writing', file')
    OBVIOUS
  <2>1. Filed(sessions, session, left, waiting, writing, file)
    BY <1>6 DEF AllInv, Without
  <2>2. \A u \in Terminals : u # t => Held(sessions', session', left', u) = Held(sessions, session, left, u)
    BY <1>9, <1>10, <1>12, <1>14 DEF Held
  <2>3. waiting[t] = {} /\ \A w \in writing : w.of # t
    BY <1>3 DEF Drained
  <2>4. file[t] = Held(sessions, session, left, t)
    BY <1>4, <2>1, <2>3 DEF Filed
  <2>5. file'[t] = Held(sessions', session', left', t)
    <3>1. Held(sessions', session', left', t) = left'[t]
      BY <1>9 DEF Held
    <3>2. CASE deletes
      BY <1>2, <1>4, <1>6, <3>1, <3>2
    <3>3. CASE ~deletes /\ o # 0
      BY <1>2, <1>4, <1>6, <2>4, <3>1, <3>3 DEF Held, o
    <3>4. CASE ~deletes /\ o = 0
      BY <1>2, <1>4, <1>6, <2>4, <3>1, <3>4 DEF Held, o
    <3> QED BY <3>2, <3>3, <3>4
  <2> QED BY <1>6, <1>13, <2>1, <2>2, <2>3, <2>5 DEF Filed
<1>23. Single(waiting', writing')
  BY <1>1, <1>6
<1> QED BY <1>16, <1>17, <1>18, <1>19, <1>20, <1>21, <1>22, <1>23 DEF AllInv

\* The files of a thread that is closed are deleted, whatever is written.
LEMMA ThreadClosedStep ==
  ASSUME AllInv, NEW h \in Threads, ThreadClosed(h)
  PROVE  AllInv'
<1> DEFINE gone == {t \in Terminals : call[h].delete /\ ThreadOf[t] = h}
<1>1. /\ TypeOK /\ Sound(session, alive, LetGo, drains)
      /\ Table(sessions, session, call, Keeps)
      /\ Single(waiting, writing)
  BY DEF AllInv
<1>2. /\ call \in [Threads -> Calls] /\ left \in [Terminals -> Seq(Nat)] /\ <<>> \in Seq(Nat)
      /\ file \in [Terminals -> Seq(Nat)]
  BY <1>1, EmptySeq DEF TypeOK
<1>3. CallInv(sessions, session, h, call[h]) /\ call[h].at = "next" /\ call[h].rest = {}
  BY <1>1 DEF Table, ThreadClosed
<1>4. /\ UNCHANGED <<sessions, session, LetGo, alive, drains, waiting, writing, shown, owed,
                     said, budget>>
      /\ file' = [t \in Terminals |-> IF t \in gone THEN <<>> ELSE file[t]]
      /\ left' = [t \in Terminals |-> IF t \in gone THEN <<>> ELSE left[t]]
      /\ races' = races \cup Notes(\E t \in gone : ~Drained(t), "undeleted")
      /\ call' = [call EXCEPT ![h] = Free]
  BY DEF ThreadClosed, LetGo
<1>5. \A t \in gone : sessions[t] = 0
  BY <1>3 DEF CallInv
<1> HIDE DEF gone
<1>6. call'[h] = Free /\ \A g \in Threads : g # h => call'[g] = call[g]
  BY <1>2, <1>4
<1>7. \A e : races' \cap e = {} => Without(e)
  BY <1>4 DEF Without
<1>8. TypeOK'
  <2>1. call' \in [Threads -> Calls]
    BY <1>2, <1>4, FreeCall
  <2>2. left' \in [Terminals -> Seq(Nat)] /\ file' \in [Terminals -> Seq(Nat)]
    BY <1>2, <1>4
  <2>3. races' \subseteq Races
    BY <1>1, <1>4 DEF TypeOK, Notes, Races
  <2> QED BY <1>1, <1>4, <2>1, <2>2, <2>3 DEF TypeOK, Races
<1>9. Table(sessions, session, call', Keeps')
  <2>1. \A g \in Threads : CallInv(sessions, session, g, call'[g])
    BY <1>1, <1>6, FreeCall DEF Table
  <2>2. \A g, i \in Threads : call'[g].obj # 0 /\ call'[g].obj = call'[i].obj => g = i
    BY <1>1, <1>6, FreeCall DEF Table
  <2>3. Keeps' => Keeps
    BY <1>7 DEF Keeps, Without
  <2>4. Keeps => \A g \in Threads : call'[g].obj # 0 => sessions[call'[g].of] = call'[g].obj
    BY <1>1, <1>6, FreeCall DEF Table
  <2> QED BY <1>1, <2>1, <2>2, <2>3, <2>4 DEF Table
<1>10. (Without({"exit_cleared", "stale_drain"}))' => Ends(session, alive')
  BY <1>4, <1>7 DEF AllInv, Without
<1>11. (Without({"stale_drain"}))' => Complete(session, call', owed')
  <2>1. \A o \in Ids : Works(o, session, call') => Works(o, session, call)
    BY <1>6, FreeCall DEF Works, Starting
  <2> QED BY <1>4, <1>7, <2>1 DEF AllInv, Without, Complete
<1>12. (Without({"said_while_clearing", "evicted"}))' => Showing(sessions, session, call', shown')
  <2>1. \A u \in Terminals : ThreadOf[u] \in Threads
    BY TerminalAssumption
  <2>2. \A u \in Terminals : Clearing(call, u) => Clearing(call', u)
    BY <1>3, <1>6, <2>1 DEF Clearing
  <2> QED BY <1>4, <1>7, <2>2 DEF AllInv, Without, Showing
<1>13. (Without({"evicted", "undeleted", "unwritten"}))' =>
          Filed(sessions, session, left', waiting', writing', file')
  <2> SUFFICES ASSUME (Without({"evicted", "undeleted", "unwritten"}))'
               PROVE  Filed(sessions, session, left', waiting', writing', file')
    OBVIOUS
  <2>1. Filed(sessions, session, left, waiting, writing, file)
    BY <1>7 DEF AllInv, Without
  <2>2. \A t \in gone : waiting[t] = {} /\ \A w \in writing : w.of # t
    BY <1>4 DEF Without, Notes, Drained
  <2>3. \A t \in Terminals : t \notin gone => left'[t] = left[t] /\ file'[t] = file[t]
    BY <1>4
  <2>4. \A t \in Terminals : t \in gone => left'[t] = <<>> /\ file'[t] = <<>>
    BY <1>4
  <2>5. ASSUME NEW t \in Terminals
        PROVE  /\ \A text \in waiting[t] : text = Held(sessions, session, left', t)
               /\ waiting[t] = {} =>
                    /\ \A w \in writing : w.of = t => w.text = Held(sessions, session, left', t)
                    /\ (\A w \in writing : w.of # t) => file'[t] = Held(sessions, session, left', t)
    <3>1. CASE t \in gone
      BY <1>5, <2>2, <2>4, <3>1 DEF Held
    <3>2. CASE t \notin gone
      <4>1. Held(sessions, session, left', t) = Held(sessions, session, left, t)
        BY <2>3, <3>2 DEF Held
      <4> QED BY <2>1, <2>3, <3>2, <4>1 DEF Filed
    <3> QED BY <3>1, <3>2
  <2> QED BY <1>4, <2>5 DEF Filed
<1> QED BY <1>1, <1>4, <1>8, <1>9, <1>10, <1>11, <1>12, <1>13 DEF AllInv

-----------------------------------------------------------------------------
(* The invariant.                                                            *)

LEMMA InitHolds == Init => AllInv
<1> SUFFICES ASSUME Init PROVE AllInv
  OBVIOUS
<1> USE DEF Init
<1>1. <<>> \in Seq(Nat) /\ Blank \in Objects /\ Blank.pid = 0 /\ 0 \notin Ids /\ Free \in Calls
  BY TerminalAssumption, EmptySeq DEF Blank, New, Objects, Free, Calls
<1>2. TypeOK
  <2>1. /\ session \in [Ids -> Objects] /\ call \in [Threads -> Calls]
        /\ sessions \in [Terminals -> Ids \cup {0}]
    BY <1>1
  <2>2. /\ waiting \in [Terminals -> SUBSET Seq(Nat)] /\ file \in [Terminals -> Seq(Nat)]
        /\ shown \in [Terminals -> Seq(Nat)] /\ left \in [Terminals -> Seq(Nat)]
        /\ owed \in [Ids -> Seq(Nat)]
    BY <1>1
  <2>3. budget \in [Kinds -> Nat]
    BY TerminalAssumption
  <2> QED BY <2>1, <2>2, <2>3 DEF TypeOK, LetGo
<1>3. Sound(session, alive, LetGo, drains)
  <2>1. \A o \in Ids : ObjectInv(Blank, o, alive, LetGo, drains)
    BY DEF Blank, New, ObjectInv
  <2> QED BY <1>1, <2>1 DEF Sound
<1>4. Table(sessions, session, call, Keeps)
  <2>1. \A h \in Threads : CallInv(sessions, session, h, Free) /\ Free.obj = 0
    BY FreeCall
  <2> QED BY <1>1, <2>1 DEF Table
<1>5. Ends(session, alive)
  BY <1>1 DEF Ends
<1>6. Complete(session, call, owed)
  <2>1. Free.at \notin Starting
    BY DEF Free, Starting
  <2> QED BY <1>1, <2>1 DEF Complete, Works
<1>7. Showing(sessions, session, call, shown) /\ Single(waiting, writing)
  BY DEF Showing, Single
<1>8. Filed(sessions, session, left, waiting, writing, file)
  BY DEF Filed, Held
<1> QED BY <1>2, <1>3, <1>4, <1>5, <1>6, <1>7, <1>8 DEF AllInv

LEMMA NextHolds == AllInv /\ [Next]_vars => AllInv'
<1> SUFFICES ASSUME AllInv, [Next]_vars PROVE AllInv'
  OBVIOUS
<1>1. ASSUME NEW t \in Terminals, OpenNew(t) PROVE AllInv'
  BY <1>1, OpenNewStep
<1>2. ASSUME NEW t \in Terminals, Reopen(t) PROVE AllInv'
  <2>1. "opens" \in Kinds
    BY DEF Kinds
  <2> QED BY <1>2, <2>1, RestartStep DEF Reopen
<1>3. ASSUME NEW t \in Terminals, RestartNew(t) PROVE AllInv'
  BY <1>3, RestartNewStep
<1>4. ASSUME NEW t \in Terminals, Restart(t) PROVE AllInv'
  <2>1. "restarts" \in Kinds
    BY DEF Kinds
  <2> QED BY <1>4, <2>1, RestartStep DEF Restart
<1>5. ASSUME NEW t \in Terminals, Clear(t) PROVE AllInv'
  BY <1>5, ClearStep
<1>6. ASSUME NEW t \in Terminals, Close(t) PROVE AllInv'
  BY <1>6, CloseStep
<1>7. ASSUME NEW t \in Terminals, TakeHistory(t) PROVE AllInv'
  BY <1>7, TakeHistoryStep
<1>8. ASSUME NEW h \in Threads,
             StartSession(h) \/ Spawned(h) \/ StartFails(h) \/ Cleared(h)
      PROVE  AllInv'
  BY <1>8, StartSessionStep, SpawnedStep, StartFailsStep, ClearedStep
<1>9. ASSUME NEW h \in Threads,
             CloseThread(h) \/ CloseNext(h) \/ Closed(h) \/ ThreadClosed(h)
      PROVE  AllInv'
  BY <1>9, CloseThreadStep, CloseNextStep, ClosedStep, ThreadClosedStep
<1>10. ASSUME NEW o \in Ids, Output(o) \/ Exit(o) PROVE AllInv'
  BY <1>10, OutputStep, ExitStep
<1>11. ASSUME NEW d \in drains, Delivered(d) \/ ExitDelivered(d) PROVE AllInv'
  BY <1>11, DeliveredStep, ExitDeliveredStep
<1>12. ASSUME NEW p \in Pids, Terminates(p) \/ Kill(p) \/ KillFails(p) PROVE AllInv'
  <2>1. budget \in [Kinds -> Nat] /\ "failures" \in Kinds
    BY DEF AllInv, TypeOK, Kinds
  <2>2. CASE Terminates(p)
    BY <2>1, <2>2, KilledStep DEF Terminates, LetGo
  <2>3. CASE Kill(p)
    BY <2>1, <2>3, KilledStep DEF Kill, LetGo
  <2>4. CASE KillFails(p)
    BY <2>1, <2>4, KilledStep DEF KillFails, LetGo, Spend
  <2> QED BY <1>12, <2>2, <2>3, <2>4
<1>13. CASE WriteHistory
  BY <1>13, WriteHistoryStep
<1>14. CASE UNCHANGED vars
  BY <1>14 DEF vars, table, disk, AllInv, TypeOK, Without, Keeps, LetGo
<1> QED BY <1>1, <1>2, <1>3, <1>4, <1>5, <1>6, <1>7, <1>8, <1>9, <1>10, <1>11, <1>12, <1>13, <1>14
        DEF Next

\* What holds of the terminals: their types, and the parts of the invariant.
THEOREM TerminalsInvariant == Spec => []AllInv
BY InitHolds, NextHolds, PTL DEF Spec

\* Every value has its type.
THEOREM TypesHold == Spec => []TypeOK
<1>1. AllInv => TypeOK
  BY DEF AllInv
<1> QED BY <1>1, TerminalsInvariant, PTL

\* A process belongs to the session of one terminal, or was let go: a fiber
\* kills it or could not (stopProcess, runKillEscalation), if no session is
\* evicted that a call uses.
THEOREM NoProcessIsForgottenHolds == Spec => []NoProcessIsForgotten
<1>1. AllInv => NoProcessIsForgotten
  <2> SUFFICES ASSUME AllInv, Without({"evicted"}), NEW p \in alive
               PROVE  \/ p \in LetGo /\ \A t \in Terminals : ~Holds(t, p)
                      \/ p \notin LetGo /\ \E t \in Terminals : Holds(t, p)
    BY DEF NoProcessIsForgotten
  <2>1. /\ Sound(session, alive, LetGo, drains) /\ Table(sessions, session, call, TRUE)
        /\ sessions \in [Terminals -> Ids \cup {0}] /\ p # 0 /\ 0 \notin Ids
    <3>1. Keeps
      BY DEF Keeps
    <3> QED BY <3>1, TerminalAssumption DEF AllInv, TypeOK, Table
  <2>2. CASE p \in LetGo
    BY <2>1, <2>2 DEF Sound, ObjectInv, Holds
  <2>3. CASE p \notin LetGo
    <3>1. PICK o \in Ids : session[o].pid = p
      BY <2>1, <2>3 DEF Sound
    <3>2. PICK t \in Terminals : sessions[t] = o
      BY <2>1, <3>1 DEF Table
    <3> QED BY <2>1, <2>3, <3>1, <3>2 DEF Holds
  <2> QED BY <2>2, <2>3
<1> QED BY <1>1, TerminalsInvariant, PTL

\* An object that has a queue has a fiber that will take it.
LEMMA QueuesAreAttended ==
  ASSUME Sound(session, alive, LetGo, drains), NEW o \in Ids
  PROVE  Attended(o)
BY DEF Sound, ObjectInv, Attended

\* The end of a process that a session still has is in its queue, and a fiber
\* will take it (enqueueProcessEvent, drainProcessEvents).
THEOREM EndIsNoticedHolds == Spec => []EndIsNoticed
<1>1. AllInv => EndIsNoticed
  <2> SUFFICES ASSUME AllInv, Without({"exit_cleared", "stale_drain"}), NEW o \in Ids,
                      session[o].pid # 0, session[o].pid \notin alive
               PROVE  /\ \E i \in DOMAIN session[o].queue : session[o].queue[i] = exit
                      /\ Attended(o)
    BY DEF EndIsNoticed
  <2>1. Sound(session, alive, LetGo, drains) /\ Ends(session, alive)
    BY DEF AllInv
  <2>2. session[o].queue \in Seq(Nat)
    BY DEF AllInv, TypeOK, Objects
  <2>3. DOMAIN session[o].queue = 1..Len(session[o].queue)
    BY <2>2, LenProperties
  <2> QED BY <2>1, <2>3, QueuesAreAttended DEF Ends
<1> QED BY <1>1, TerminalsInvariant, PTL

\* What a process says is kept in order and once: in the history, or queued
\* for it (drainProcessEvents).
THEOREM HistoryIsCompleteHolds == Spec => []HistoryIsComplete
<1>1. AllInv => HistoryIsComplete
  <2> SUFFICES ASSUME AllInv, Without({"stale_drain"}), NEW o \in Ids, session[o].pid # 0
               PROVE  /\ session[o].history \o Pieces(session[o].queue) = owed[o]
                      /\ Attended(o)
    BY DEF HistoryIsComplete
  <2>1. Sound(session, alive, LetGo, drains) /\ Complete(session, call, owed)
    BY DEF AllInv
  <2> QED BY <2>1, QueuesAreAttended DEF Complete, Works
<1> QED BY <1>1, TerminalsInvariant, PTL

\* A listener sees the history of a running terminal, if its process is
\* silent while clear waits (publishEvent).
THEOREM ShownAsHeldHolds == Spec => []ShownAsHeld
<1>1. AllInv => ShownAsHeld
  <2> SUFFICES ASSUME AllInv, Without({"said_while_clearing", "evicted"}), NEW t \in Terminals,
                      sessions[t] # 0, session[sessions[t]].pid # 0, call[ThreadOf[t]] = Free
               PROVE  shown[t] = session[sessions[t]].history
    BY DEF ShownAsHeld
  <2>1. Showing(sessions, session, call, shown)
    BY DEF AllInv
  <2>2. ~Clearing(call, t)
    BY DEF Clearing, Free
  <2> QED BY <2>1, <2>2 DEF Showing
<1> QED BY <1>1, TerminalsInvariant, PTL

\* When all is written, the file of a terminal holds its history, or what it
\* was when the terminal left sessions (drainKey, deleteHistory).
THEOREM FileIsCurrentHolds == Spec => []FileIsCurrent
<1>1. AllInv => FileIsCurrent
  <2> SUFFICES ASSUME AllInv, Without({"evicted", "undeleted", "unwritten"}), NEW t \in Terminals,
                      Drained(t)
               PROVE  file[t] = IF sessions[t] = 0 THEN left[t] ELSE session[sessions[t]].history
    BY DEF FileIsCurrent
  <2>1. Filed(sessions, session, left, waiting, writing, file)
    BY DEF AllInv
  <2> QED BY <2>1 DEF Filed, Drained, Held
<1> QED BY <1>1, TerminalsInvariant, PTL
=============================================================================
