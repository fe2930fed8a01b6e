-------------------------- MODULE IndexAlias_proofs --------------------------
(***************************************************************************)
(* What search reads while the index is rebuilt, rolled back and cleaned   *)
(* up: proofs about IndexAlias.                                            *)
(***************************************************************************)
EXTENDS IndexAlias, FiniteSetTheorems, TLAPS

-----------------------------------------------------------------------------
(* A set of numbers has a largest and a smallest one. *)

LEMMA LargestIsThere ==
    ASSUME NEW S \in SUBSET Nat, IsFiniteSet(S), S # {}
    PROVE  Max(S) \in S /\ \A n \in S : n <= Max(S)
<1> DEFINE Tops(T) == {x \in T : \A y \in T : x >= y}
<1> DEFINE Bad == {T \in SUBSET S : T # {} /\ Tops(T) = {}}
<1>1. IsWellFoundedOn(StrictSubsetOrdering(S), SUBSET S)
  BY FS_StrictSubsetOrderingWellFounded, FS_FiniteSubsetsOfFinite
<1>2. Bad = {}
  <2> SUFFICES ASSUME Bad # {} PROVE FALSE
    OBVIOUS
  <2>1. Bad \subseteq SUBSET S
    OBVIOUS
  <2> HIDE DEF Bad
  <2>2. PICK T \in Bad : \A U \in Bad : ~(<<U, T>> \in StrictSubsetOrdering(S))
    BY <1>1, <2>1, WFMin
  <2>3. T \in SUBSET S /\ T # {} /\ Tops(T) = {}
    BY <2>2 DEF Bad
  <2>4. PICK x \in T : x \in Nat
    BY <2>3
  <2>5. CASE T = {x}
    BY <2>3, <2>4, <2>5
  <2>6. CASE T # {x}
    <3> DEFINE U == T \ {x}
    <3>1. U \in SUBSET S /\ U # {} /\ U \subseteq T /\ U # T
      BY <2>3, <2>4, <2>6
    <3>2. <<U, T>> \in StrictSubsetOrdering(S)
      BY <2>3, <3>1 DEF StrictSubsetOrdering
    <3>3. U \notin Bad
      BY <2>2, <3>2
    <3>4. Tops(U) # {}
      BY <3>1, <3>3 DEF Bad
    <3>5. PICK m \in U : m \in Nat /\ \A y \in U : m >= y
      BY <2>3, <3>4
    <3>6. CASE x >= m
      <4>1. \A y \in T : x >= y
        BY <2>3, <2>4, <3>5, <3>6
      <4> QED  BY <2>3, <2>4, <4>1
    <3>7. CASE ~(x >= m)
      <4>1. \A y \in T : m >= y
        BY <2>3, <2>4, <3>5, <3>7
      <4> QED  BY <2>3, <3>5, <4>1
    <3> QED  BY <3>6, <3>7
  <2> QED  BY <2>5, <2>6
<1>3. PICK m \in S : \A y \in S : m >= y
  BY <1>2
<1>4. Max(S) \in S /\ \A y \in S : Max(S) >= y
  BY <1>3 DEF Max
<1> QED  BY <1>4

\* Numbers up to a bound: the smallest is as far below it as the largest of what is
\* left over is above nought.
LEMMA SmallestIsThere ==
    ASSUME NEW b \in Nat, NEW S \in SUBSET (0 .. b), S # {}
    PROVE  Min(S) \in S /\ \A n \in S : Min(S) <= n
<1> DEFINE Left == {k \in 0 .. b : b - k \in S}
<1>0. 0 \in Int /\ b \in Int
  OBVIOUS
<1>f. IsFiniteSet(0 .. b)
  BY <1>0, FS_Interval
<1>1. Left \in SUBSET Nat /\ IsFiniteSet(Left)
  <2>1. Left \in SUBSET (0 .. b)
    OBVIOUS
  <2>2. IsFiniteSet(Left)
    BY <1>f, <2>1, FS_Subset
  <2> QED  BY <2>2
<1>2. \A n \in S : b - n \in Left /\ n \in Nat
  OBVIOUS
<1>3. Left # {}
  BY <1>2
<1> HIDE DEF Left
<1>4. PICK m \in Left : \A k \in Left : k <= m
  BY <1>1, <1>3, LargestIsThere
<1>5. b - m \in S /\ m \in 0 .. b
  BY DEF Left
<1>6. \A n \in S : b - m <= n
  BY <1>2, <1>4, <1>5
<1>7. Min(S) \in S /\ \A y \in S : Min(S) =< y
  BY <1>5, <1>6 DEF Min
<1> QED  BY <1>7

LEMMA LargestVersion ==
    ASSUME NEW S \in SUBSET Versions, S # {}
    PROVE  /\ Max(S) \in S /\ \A n \in S : n <= Max(S)
           /\ Min(S) \in S /\ \A n \in S : Min(S) <= n
<1>1. S \in SUBSET (0 .. MaxIndex) /\ MaxIndex \in Nat
  BY IndexAssumption DEF Versions
<1>f. 0 \in Int /\ MaxIndex \in Int
  BY <1>1
<1>2. IsFiniteSet(0 .. MaxIndex)
  BY <1>f, FS_Interval
<1>3. IsFiniteSet(S) /\ S \in SUBSET Nat
  <2>1. IsFiniteSet(S)
    BY <1>1, <1>2, FS_Subset
  <2> QED  BY <1>1, <2>1
<1> QED  BY <1>1, <1>3, LargestIsThere, SmallestIsThere

LEMMA LargestSegment ==
    ASSUME NEW S \in SUBSET Segments, S # {}
    PROVE  Max(S) \in S /\ \A s \in S : s <= Max(S)
<1>1. IsFiniteSet(S) /\ S \in SUBSET Nat
  BY IndexAssumption, FS_Subset
<1> QED  BY <1>1, LargestIsThere

-----------------------------------------------------------------------------
(***************************************************************************)
(* What holds whatever goes wrong: a command has found the alias somewhere *)
(* before it does anything, a rebuild has room for the index it fills, and *)
(* there is something on a page and in a list that is worked off.          *)
(***************************************************************************)

Rebuilding == {"fill", "write", "swap", "drop"}

StepOf(r) ==
    /\ command[r] # "idle" => from[r] \in Versions
    /\ command[r] = "create" => from[r] < MaxIndex
    /\ command[r] \in Rebuilding \cup {"rollback"} => target[r] \in Versions
    /\ command[r] = "write" => OnPage(r) # {}
    /\ command[r] = "delete" => toDelete[r] # {}

IndexForm == IndexTypeOK /\ \A r \in Runners : StepOf(r)

LEMMA VersionNumbers == Versions \subseteq Nat \ {0} /\ NoIndex = 0 /\ MaxIndex \in Nat \ {0} /\ 1 \in Versions
BY IndexAssumption DEF Versions, NoIndex

LEMMA NoRowsTyped == NoRows \in [Segments -> 0 .. MaxEdits] /\ \A s \in Segments : NoRows[s] = 0
BY IndexAssumption DEF NoRows

LEMMA FormInit == IndexInit => IndexForm
<1> SUFFICES ASSUME IndexInit PROVE IndexForm
  OBVIOUS
<1>2. /\ docs \in [Versions -> [Segments -> 0 .. MaxEdits]]
      /\ page \in [Runners -> [Segments -> 0 .. MaxEdits]]
      /\ stored \in [Segments -> 0 .. MaxEdits]
  BY NoRowsTyped DEF IndexInit
<1>3. /\ command \in [Runners -> {"idle", "create", "fill", "write", "swap", "drop",
                                  "list", "rollback", "others", "delete"}]
      /\ from \in [Runners -> Versions \cup {NoIndex}]
      /\ target \in [Runners -> Versions \cup {NoIndex}]
      /\ lastId \in [Runners -> Segments \cup {0}]
      /\ failed \in [Runners -> BOOLEAN]
      /\ toDelete \in [Runners -> SUBSET Versions]
      /\ since \in [Versions -> SUBSET Segments]
  BY DEF IndexInit
<1>4. edits \in 0 .. MaxEdits /\ failures \in 0 .. MaxFailures
  BY IndexAssumption DEF IndexInit
<1>1. IndexTypeOK
  BY <1>2, <1>3, <1>4, VersionNumbers DEF IndexInit, IndexTypeOK
<1> QED  BY <1>1 DEF IndexInit, IndexForm, StepOf, Rebuilding

\* What a runner is about to do.
LEMMA CommandIs ==
    ASSUME IndexTypeOK, NEW r \in Runners, NEW step, Becomes(r, step)
    PROVE  \A q \in Runners : command'[q] = IF q = r THEN step ELSE command[q]
BY DEF IndexTypeOK, Becomes

LEMMA FormSite ==
    ASSUME IndexForm, NEW s \in Segments, SiteStep(s)
    PROVE  IndexForm'
<1>0. IndexTypeOK /\ \A r \in Runners : StepOf(r)
  BY DEF IndexForm
<1>a. CASE EditRow(s)
  <2>1. edits' \in 0 .. MaxEdits
    BY <1>0, <1>a, IndexAssumption DEF EditRow, IndexTypeOK
  <2>2. stored' \in [Segments -> 0 .. MaxEdits]
    BY <1>0, <1>a, <2>1 DEF EditRow, IndexTypeOK
  <2>3. since' \in [Versions -> SUBSET Segments]
    BY <1>0, <1>a DEF EditRow, IndexTypeOK
  <2>4. IndexTypeOK'
    BY <1>0, <1>a, <2>1, <2>2, <2>3 DEF EditRow, IndexTypeOK, search, runners
  <2>5. \A r \in Runners : StepOf(r)'
    BY <1>0, <1>a DEF EditRow, StepOf, runners, OnPage
  <2> QED  BY <2>4, <2>5 DEF IndexForm
<1>b. CASE SyncReads(s)
  <2>1. reads' \subseteq Segments \X (0 .. MaxEdits)
    BY <1>0, <1>b DEF SyncReads, IndexTypeOK
  <2>2. IndexTypeOK'
    BY <1>0, <1>b, <2>1 DEF SyncReads, IndexTypeOK, search, runners, history
  <2>3. \A r \in Runners : StepOf(r)'
    BY <1>0, <1>b DEF SyncReads, StepOf, runners, search, history, OnPage
  <2> QED  BY <2>2, <2>3 DEF IndexForm
<1>c. ASSUME NEW v \in 0 .. MaxEdits, SyncWrites(s, v) PROVE IndexForm'
  <2>1. alias \in Versions
    BY <1>0, <1>c DEF SyncWrites, IndexTypeOK
  <2>2. docs' \in [Versions -> [Segments -> 0 .. MaxEdits]]
    BY <1>0, <1>c, <2>1 DEF SyncWrites, IndexTypeOK
  <2>3. since' \in [Versions -> SUBSET Segments]
    BY <1>0, <1>c, <2>1 DEF SyncWrites, IndexTypeOK
  <2>4. IndexTypeOK'
    BY <1>0, <1>c, <2>2, <2>3 DEF SyncWrites, IndexTypeOK, runners
  <2>5. \A r \in Runners : StepOf(r)'
    BY <1>0, <1>c DEF SyncWrites, StepOf, runners, OnPage
  <2> QED  BY <2>4, <2>5 DEF IndexForm
<1> QED  BY <1>a, <1>b, <1>c DEF SiteStep

\* The step of another runner is as it was.
LEMMA StepsKept ==
    ASSUME IndexForm, NEW r \in Runners,
           \A q \in Runners \ {r} :
             /\ command'[q] = command[q] /\ from'[q] = from[q] /\ target'[q] = target[q]
             /\ page'[q] = page[q] /\ toDelete'[q] = toDelete[q],
           IndexTypeOK', StepOf(r)'
    PROVE  IndexForm'
<1>1. \A q \in Runners \ {r} : OnPage(q)' = OnPage(q)
  BY DEF OnPage
<1>2. \A q \in Runners \ {r} : StepOf(q)'
  BY <1>1 DEF IndexForm, StepOf
<1> QED  BY <1>2 DEF IndexForm

LEMMA FormResolve ==
    ASSUME IndexForm, NEW r \in Runners, resolvePhysicalIndex(r)
    PROVE  IndexForm'
<1>0. IndexTypeOK /\ StepOf(r)
  BY DEF IndexForm
<1>1. PICK step \in {"create", "list", "others"} :
        /\ step = "create" => alias < MaxIndex
        /\ Becomes(r, step)
        /\ mishap' = (mishap \/ ~Alone(r, step))
  BY DEF resolvePhysicalIndex
<1>2. alias \in Versions
  BY <1>0 DEF resolvePhysicalIndex, IndexTypeOK
<1>3. \A q \in Runners : /\ command'[q] = IF q = r THEN step ELSE command[q]
                         /\ from'[q] = IF q = r THEN alias ELSE from[q]
  BY <1>0, <1>1, CommandIs DEF resolvePhysicalIndex, IndexTypeOK
<1>4. command' = [command EXCEPT ![r] = step]
  BY <1>1 DEF Becomes
<1>5. mishap' \in BOOLEAN
  BY <1>1
<1>6. IndexTypeOK'
  BY <1>0, <1>2, <1>4, <1>5 DEF resolvePhysicalIndex, IndexTypeOK, search
<1>7. StepOf(r)'
  BY <1>1, <1>2, <1>3 DEF StepOf, Rebuilding
<1> QED  BY <1>3, <1>6, <1>7, StepsKept DEF resolvePhysicalIndex

LEMMA FormCreate ==
    ASSUME IndexForm, NEW r \in Runners, CreateTarget(r)
    PROVE  IndexForm'
<1> DEFINE new == nextVersionName(from[r])
<1>0. IndexTypeOK /\ StepOf(r)
  BY DEF IndexForm
<1>1. command[r] = "create" /\ new \in Versions
  BY <1>0, IndexAssumption DEF CreateTarget, StepOf, nextVersionName, Versions
<1>2. /\ lastId' \in [Runners -> Segments \cup {0}] /\ failed' \in [Runners -> BOOLEAN]
      /\ UNCHANGED <<stored, reads, from, page, toDelete, edits, failures, served, mishap>>
  BY <1>0 DEF CreateTarget, IndexTypeOK
<1> HIDE DEF new
<1>a. CASE new \in indices
  <2>1. Becomes(r, "idle") /\ UNCHANGED <<indices, mapped, docs, alias, target, since>>
    BY <1>a DEF CreateTarget, search, new
  <2>2. \A q \in Runners : command'[q] = IF q = r THEN "idle" ELSE command[q]
    BY <1>0, <2>1, CommandIs
  <2>3. IndexTypeOK'
    BY <1>0, <1>2, <2>1 DEF Becomes, IndexTypeOK
  <2>4. StepOf(r)'
    BY <2>2 DEF StepOf, Rebuilding
  <2> QED  BY <1>2, <2>1, <2>2, <2>3, <2>4, StepsKept
<1>b. CASE new \notin indices
  <2>1. /\ Becomes(r, "fill") /\ target' = [target EXCEPT ![r] = new]
        /\ indices' = indices \cup {new} /\ mapped' = mapped \cup {new}
        /\ docs' = [docs EXCEPT ![new] = NoRows] /\ since' = [since EXCEPT ![new] = {}]
        /\ alias' = alias
    BY <1>b DEF CreateTarget, new
  <2>2. \A q \in Runners : /\ command'[q] = IF q = r THEN "fill" ELSE command[q]
                           /\ target'[q] = IF q = r THEN new ELSE target[q]
    BY <1>0, <2>1, CommandIs DEF IndexTypeOK
  <2>3. docs' \in [Versions -> [Segments -> 0 .. MaxEdits]] /\ since' \in [Versions -> SUBSET Segments]
    BY <1>0, <1>1, <2>1, NoRowsTyped DEF IndexTypeOK
  <2>4. IndexTypeOK'
    BY <1>0, <1>1, <1>2, <2>1, <2>3 DEF Becomes, IndexTypeOK
  <2>5. StepOf(r)'
    BY <1>0, <1>1, <1>2, <2>2 DEF StepOf, Rebuilding
  <2> QED  BY <1>2, <2>2, <2>4, <2>5, StepsKept
<1> QED  BY <1>a, <1>b

\* Documents are written.
LEMMA Taking ==
    ASSUME IndexTypeOK, NEW i \in Versions, NEW rows_ \in [Segments -> 0 .. MaxEdits],
           NEW set \in SUBSET Segments, Takes(i, rows_, set)
    PROVE  /\ docs' \in [Versions -> [Segments -> 0 .. MaxEdits]]
           /\ \A j \in Versions, s \in Segments :
                docs'[j][s] = IF j = i /\ s \in set THEN rows_[s] ELSE docs[j][s]
           /\ indices' = indices \cup {i} /\ indices' \subseteq Versions
           /\ UNCHANGED <<mapped, alias>>
<1> DEFINE new == [s \in Segments |-> IF s \in set THEN rows_[s] ELSE docs[i][s]]
<1>1. new \in [Segments -> 0 .. MaxEdits]
  BY DEF IndexTypeOK
<1>2. docs' = [docs EXCEPT ![i] = new]
  BY DEF Takes
<1>3. \A s \in Segments : new[s] = IF s \in set THEN rows_[s] ELSE docs[i][s]
  OBVIOUS
<1> HIDE DEF new
<1>4. docs \in [Versions -> [Segments -> 0 .. MaxEdits]]
  BY DEF IndexTypeOK
<1>5. docs' \in [Versions -> [Segments -> 0 .. MaxEdits]]
  BY <1>1, <1>2, <1>4
<1>6. \A j \in Versions, s \in Segments :
        docs'[j][s] = IF j = i /\ s \in set THEN rows_[s] ELSE docs[j][s]
  BY <1>2, <1>3, <1>4
<1> QED  BY <1>5, <1>6 DEF Takes, IndexTypeOK

LEMMA Pages ==
    ASSUME IndexTypeOK, NEW r \in Runners
    PROVE  /\ page[r] \in [Segments -> 0 .. MaxEdits] /\ OnPage(r) \in SUBSET Segments
           /\ Rest(r) \in SUBSET Segments /\ NextPage(r) \in SUBSET Rest(r)
BY DEF IndexTypeOK, OnPage, Rest, NextPage

\* Rows are left, so a page has one: that with the smallest id.
LEMMA PageHasRows ==
    ASSUME IndexTypeOK, NEW r \in Runners, Rest(r) # {}
    PROVE  NextPage(r) # {}
<1>1. IsFiniteSet(Rest(r)) /\ Rest(r) \in SUBSET Nat
  <2>1. IsFiniteSet(Rest(r))
    BY Pages, IndexAssumption, FS_Subset
  <2> QED  BY <2>1, Pages, IndexAssumption
<1>2. PICK b \in Nat : \A s \in Rest(r) : s <= b
  BY <1>1, LargestIsThere
<1>3. Rest(r) \in SUBSET (0 .. b)
  BY <1>1, <1>2
<1> DEFINE first == Min(Rest(r))
<1>4. first \in Rest(r) /\ \A s \in Rest(r) : first <= s
  BY <1>3, SmallestIsThere
<1> HIDE DEF first
<1>5. {q \in Rest(r) : q < first} = {}
  BY <1>1, <1>4
<1>6. Cardinality({q \in Rest(r) : q < first}) = 0
  BY <1>5, FS_EmptySet
<1>7. Cardinality({q \in Rest(r) : q < first}) < PageSize
  BY <1>6, IndexAssumption
<1> QED  BY <1>4, <1>7 DEF NextPage

LEMMA FormReadPage ==
    ASSUME IndexForm, NEW r \in Runners, ReadPage(r)
    PROVE  IndexForm'
<1>0. IndexTypeOK /\ StepOf(r)
  BY DEF IndexForm
<1>1. /\ command[r] = "fill"
      /\ UNCHANGED <<stored, reads, indices, mapped, docs, alias, from, target, lastId, failed, toDelete,
                     edits, failures, since, served, mishap>>
  BY DEF ReadPage, search, history
<1>a. CASE Rest(r) = {}
  <2> DEFINE step == IF failed[r] THEN "drop" ELSE "swap"
  <2>1. Becomes(r, step) /\ page' = page
    BY <1>a DEF ReadPage
  <2>2. \A q \in Runners : command'[q] = IF q = r THEN step ELSE command[q]
    BY <1>0, <2>1, CommandIs
  <2>3. IndexTypeOK'
    BY <1>0, <1>1, <2>1 DEF Becomes, IndexTypeOK
  <2>4. StepOf(r)'
    BY <1>0, <1>1, <2>2 DEF StepOf, Rebuilding
  <2> QED  BY <1>1, <2>1, <2>2, <2>3, <2>4, StepsKept
<1>b. CASE Rest(r) # {}
  <2> DEFINE new == [s \in Segments |-> IF s \in NextPage(r) THEN stored[s] ELSE 0]
  <2>1. Becomes(r, "write") /\ page' = [page EXCEPT ![r] = new]
    BY <1>b DEF ReadPage
  <2>2. new \in [Segments -> 0 .. MaxEdits]
    BY <1>0, IndexAssumption DEF IndexTypeOK
  <2>3. PICK s \in NextPage(r) : s \in Segments /\ stored[s] > 0
    BY <1>0, <1>b, PageHasRows, Pages DEF Rest
  <2>4. new[s] > 0
    BY <2>3
  <2> HIDE DEF new
  <2>5. \A q \in Runners : /\ command'[q] = IF q = r THEN "write" ELSE command[q]
                           /\ page'[q] = IF q = r THEN new ELSE page[q]
    BY <1>0, <2>1, CommandIs DEF IndexTypeOK
  <2>6. IndexTypeOK'
    BY <1>0, <1>1, <2>1, <2>2 DEF Becomes, IndexTypeOK
  <2>7. s \in OnPage(r)'
    BY <2>3, <2>4, <2>5 DEF OnPage
  <2>8. StepOf(r)'
    BY <1>0, <1>1, <2>5, <2>7 DEF StepOf, Rebuilding
  <2> QED  BY <1>1, <2>5, <2>6, <2>8, StepsKept
<1> QED  BY <1>a, <1>b

LEMMA FaultIs ==
    ASSUME IndexTypeOK, Fault
    PROVE  failures' \in 0 .. MaxFailures
BY IndexAssumption DEF IndexTypeOK, Fault

LEMMA FormWritePage ==
    ASSUME IndexForm, NEW r \in Runners, WritePage(r)
    PROVE  IndexForm'
<1>0. IndexTypeOK /\ StepOf(r)
  BY DEF IndexForm
<1>1. /\ command[r] = "write"
      /\ UNCHANGED <<stored, reads, from, target, toDelete, edits, since, served, mishap>>
      /\ Becomes(r, "fill") /\ page' = [page EXCEPT ![r] = NoRows]
      /\ lastId' = [lastId EXCEPT ![r] = Max(OnPage(r))]
  BY DEF WritePage, history
<1>2. target[r] \in Versions /\ OnPage(r) # {}
  BY <1>0, <1>1 DEF StepOf, Rebuilding
<1>3. PICK done \in SUBSET OnPage(r) : Takes(target[r], page[r], done)
  BY DEF WritePage
<1>4. /\ failed' \in [Runners -> BOOLEAN] /\ failures' \in 0 .. MaxFailures
  BY <1>0, FaultIs DEF WritePage, IndexTypeOK
<1>5. Max(OnPage(r)) \in Segments
  BY <1>0, <1>2, Pages, LargestSegment
<1>6. /\ docs' \in [Versions -> [Segments -> 0 .. MaxEdits]]
      /\ indices' \subseteq Versions /\ indices \subseteq indices' /\ UNCHANGED <<mapped, alias>>
  BY <1>0, <1>2, <1>3, Pages, Taking
<1>7. IndexTypeOK'
  BY <1>0, <1>1, <1>4, <1>5, <1>6, NoRowsTyped DEF Becomes, IndexTypeOK
<1>8. \A q \in Runners : /\ command'[q] = IF q = r THEN "fill" ELSE command[q]
                         /\ q # r => page'[q] = page[q]
  BY <1>0, <1>1, CommandIs DEF IndexTypeOK
<1>9. StepOf(r)'
  BY <1>0, <1>1, <1>8 DEF StepOf, Rebuilding
<1> QED  BY <1>1, <1>7, <1>8, <1>9, StepsKept

LEMMA FormFillFails ==
    ASSUME IndexForm, NEW r \in Runners, FillFails(r)
    PROVE  IndexForm'
<1>0. IndexTypeOK /\ StepOf(r)
  BY DEF IndexForm
<1>1. /\ command[r] \in {"fill", "write"} /\ Fault
      /\ UNCHANGED <<stored, reads, from, target, lastId, failed, toDelete, edits, since, served, mishap>>
      /\ Becomes(r, "drop") /\ page' = [page EXCEPT ![r] = NoRows]
  BY DEF FillFails, history
<1>2. target[r] \in Versions
  BY <1>0, <1>1 DEF StepOf, Rebuilding
<1>3. /\ docs' \in [Versions -> [Segments -> 0 .. MaxEdits]]
      /\ indices' \subseteq Versions /\ indices \subseteq indices' /\ UNCHANGED <<mapped, alias>>
  <2>1. CASE command[r] = "write"
    <3>1. PICK done \in {{}, OnPage(r)} : Takes(target[r], page[r], done)
      BY <2>1 DEF FillFails
    <3>2. done \in SUBSET Segments
      BY <1>0, Pages
    <3> QED  BY <1>0, <1>2, <3>1, <3>2, Pages, Taking
  <2>2. CASE command[r] # "write"
    BY <1>0, <2>2 DEF FillFails, search, IndexTypeOK
  <2> QED  BY <2>1, <2>2
<1>4. IndexTypeOK'
  BY <1>0, <1>1, <1>3, FaultIs, NoRowsTyped DEF Becomes, IndexTypeOK
<1>5. \A q \in Runners : /\ command'[q] = IF q = r THEN "drop" ELSE command[q]
                         /\ q # r => page'[q] = page[q]
  BY <1>0, <1>1, CommandIs DEF IndexTypeOK
<1>6. StepOf(r)'
  BY <1>0, <1>1, <1>5 DEF StepOf, Rebuilding
<1> QED  BY <1>1, <1>4, <1>5, <1>6, StepsKept

LEMMA FormSwap ==
    ASSUME IndexForm, NEW r \in Runners, Swap(r) \/ SwapFails(r) \/ rollbackAlias(r)
    PROVE  IndexForm'
<1>0. IndexTypeOK /\ StepOf(r)
  BY DEF IndexForm
<1>1. /\ command[r] \in {"swap", "rollback"}
      /\ UNCHANGED <<stored, reads, indices, mapped, docs, from, target, lastId, page, failed, toDelete,
                     edits, since>>
  BY DEF Swap, SwapFails, rollbackAlias, search, history
<1>2. target[r] \in Versions
  BY <1>0, <1>1 DEF StepOf, Rebuilding
<1>3. PICK step \in {"idle", "drop"} : Becomes(r, step) /\ (step = "drop" => command[r] = "swap")
  BY DEF Swap, SwapFails, rollbackAlias
<1>4. alias' \in indices \cup {NoIndex} /\ served' \subseteq Versions
  BY <1>0, <1>2 DEF Swap, SwapFails, rollbackAlias, MovesAlias, search, history, IndexTypeOK
<1>5. failures' \in 0 .. MaxFailures /\ mishap' \in BOOLEAN
  BY <1>0, FaultIs DEF Swap, SwapFails, rollbackAlias, history, IndexTypeOK
<1>6. IndexTypeOK'
  BY <1>0, <1>1, <1>3, <1>4, <1>5 DEF Becomes, IndexTypeOK
<1>7. \A q \in Runners : command'[q] = IF q = r THEN step ELSE command[q]
  BY <1>0, <1>3, CommandIs
<1>8. StepOf(r)'
  BY <1>0, <1>1, <1>2, <1>3, <1>7 DEF StepOf, Rebuilding
<1> QED  BY <1>1, <1>6, <1>7, <1>8, StepsKept

\* An index goes, with all that was in it.
LEMMA Deleting ==
    ASSUME IndexTypeOK, NEW i \in Versions, DeleteIndex(i)
    PROVE  /\ docs' \in [Versions -> [Segments -> 0 .. MaxEdits]]
           /\ since' \in [Versions -> SUBSET Segments]
           /\ indices' \subseteq Versions /\ mapped' \subseteq indices' /\ served' \subseteq Versions
           /\ alias' \in indices' \cup {NoIndex}
           /\ \A j \in Versions : j # i => docs'[j] = docs[j] /\ since'[j] = since[j]
<1>1. /\ docs \in [Versions -> [Segments -> 0 .. MaxEdits]] /\ since \in [Versions -> SUBSET Segments]
      /\ indices \subseteq Versions /\ mapped \subseteq indices /\ served \subseteq Versions
      /\ alias \in indices \cup {NoIndex}
  BY DEF IndexTypeOK
<1> QED  BY <1>1, NoRowsTyped DEF DeleteIndex

LEMMA FormDrop ==
    ASSUME IndexForm, NEW r \in Runners, Drop(r)
    PROVE  IndexForm'
<1>0. IndexTypeOK /\ StepOf(r)
  BY DEF IndexForm
<1>1. /\ command[r] = "drop" /\ Becomes(r, "idle")
      /\ UNCHANGED <<stored, reads, from, target, lastId, page, failed, toDelete, edits, mishap>>
  BY DEF Drop
<1>2. target[r] \in Versions
  BY <1>0, <1>1 DEF StepOf, Rebuilding
<1>3. \A q \in Runners : command'[q] = IF q = r THEN "idle" ELSE command[q]
  BY <1>0, <1>1, CommandIs
<1>4. StepOf(r)'
  BY <1>3 DEF StepOf, Rebuilding
<1>5. IndexTypeOK'
  <2>1. CASE DeleteIndex(target[r]) /\ UNCHANGED failures
    BY <1>0, <1>1, <1>2, <2>1, Deleting DEF Becomes, IndexTypeOK
  <2>2. CASE Fault /\ UNCHANGED <<search, since, served>>
    BY <1>0, <1>1, <2>2, FaultIs DEF Becomes, IndexTypeOK, search
  <2> QED  BY <2>1, <2>2 DEF Drop
<1> QED  BY <1>1, <1>3, <1>4, <1>5, StepsKept

LEMMA FormLists ==
    ASSUME IndexForm, NEW r \in Runners, ListPrevious(r) \/ ListOthers(r)
    PROVE  IndexForm'
<1>0. IndexTypeOK /\ StepOf(r)
  BY DEF IndexForm
<1>a. CASE ListPrevious(r)
  <2> DEFINE previous == {i \in indices : i < from[r]}
  <2>1. /\ command[r] = "list"
        /\ UNCHANGED <<stored, reads, search, from, lastId, page, failed, toDelete, edits, failures, history>>
    BY <1>a DEF ListPrevious
  <2>2. CASE previous = {}
    <3>1. Becomes(r, "idle") /\ target' = target
      BY <1>a, <2>2 DEF ListPrevious
    <3>2. \A q \in Runners : command'[q] = IF q = r THEN "idle" ELSE command[q]
      BY <1>0, <3>1, CommandIs
    <3>3. IndexTypeOK'
      BY <1>0, <2>1, <3>1 DEF Becomes, IndexTypeOK, search, history
    <3>4. StepOf(r)'
      BY <3>2 DEF StepOf, Rebuilding
    <3> QED  BY <2>1, <3>1, <3>2, <3>3, <3>4, StepsKept
  <2>3. CASE previous # {}
    <3>1. Becomes(r, "rollback") /\ target' = [target EXCEPT ![r] = Max(previous)]
      BY <1>a, <2>3 DEF ListPrevious
    <3>2. previous \in SUBSET Versions
      BY <1>0 DEF IndexTypeOK
    <3>3. Max(previous) \in Versions
      BY <2>3, <3>2, LargestVersion
    <3> HIDE DEF previous
    <3>4. \A q \in Runners : /\ command'[q] = IF q = r THEN "rollback" ELSE command[q]
                             /\ target'[q] = IF q = r THEN Max(previous) ELSE target[q]
      BY <1>0, <3>1, CommandIs DEF IndexTypeOK
    <3>5. IndexTypeOK'
      BY <1>0, <2>1, <3>1, <3>3 DEF Becomes, IndexTypeOK, search, history
    <3>6. StepOf(r)'
      BY <1>0, <2>1, <3>3, <3>4 DEF StepOf, Rebuilding
    <3> QED  BY <2>1, <3>4, <3>5, <3>6, StepsKept
  <2> QED  BY <2>2, <2>3
<1>b. CASE ListOthers(r)
  <2> DEFINE others == indices \ {from[r]}
  <2>1. /\ command[r] = "others" /\ toDelete' = [toDelete EXCEPT ![r] = others]
        /\ UNCHANGED <<stored, reads, search, from, target, lastId, page, failed, edits, failures, history>>
    BY <1>b DEF ListOthers
  <2>2. others \in SUBSET Versions
    BY <1>0 DEF IndexTypeOK
  <2> HIDE DEF others
  <2>3. \A q \in Runners : toDelete'[q] = IF q = r THEN others ELSE toDelete[q]
    BY <1>0, <2>1 DEF IndexTypeOK
  <2> DEFINE step == IF others = {} THEN "idle" ELSE "delete"
  <2>4. Becomes(r, step)
    BY <1>b, <2>3 DEF ListOthers
  <2>5. \A q \in Runners : command'[q] = IF q = r THEN step ELSE command[q]
    BY <1>0, <2>4, CommandIs
  <2>6. IndexTypeOK'
    BY <1>0, <2>1, <2>2, <2>4 DEF Becomes, IndexTypeOK, search, history
  <2>7. StepOf(r)'
    BY <1>0, <2>1, <2>3, <2>5 DEF StepOf, Rebuilding
  <2> QED  BY <2>1, <2>3, <2>5, <2>6, <2>7, StepsKept
<1> QED  BY <1>a, <1>b

\* What a cleanup deletes is the first of its list, and what is left of it.
LEMMA CleanupStep ==
    ASSUME IndexForm, NEW r \in Runners, cleanupOldIndices(r)
    PROVE  \E i \in toDelete[r], left \in SUBSET Versions :
             /\ i \in Versions /\ \A j \in toDelete[r] : i <= j
             /\ command[r] = "delete" /\ DeleteIndex(i)
             /\ left = IF i \in indices THEN toDelete[r] \ {i} ELSE {}
             /\ toDelete' = [toDelete EXCEPT ![r] = left]
             /\ Becomes(r, IF left = {} THEN "idle" ELSE "delete")
             /\ \A q \in Runners :
                  /\ command'[q] = IF q = r THEN IF left = {} THEN "idle" ELSE "delete" ELSE command[q]
                  /\ toDelete'[q] = IF q = r THEN left ELSE toDelete[q]
             /\ UNCHANGED <<stored, reads, from, target, lastId, page, failed, edits, failures, mishap>>
<1>0. IndexTypeOK /\ StepOf(r)
  BY DEF IndexForm
<1> DEFINE i == Min(toDelete[r])
<1>1. command[r] = "delete" /\ toDelete[r] # {} /\ toDelete[r] \in SUBSET Versions
  BY <1>0 DEF cleanupOldIndices, StepOf, IndexTypeOK
<1>2. i \in toDelete[r] /\ \A j \in toDelete[r] : i <= j
  BY <1>1, LargestVersion
<1> DEFINE left == IF i \in indices THEN toDelete[r] \ {i} ELSE {}
<1>3. toDelete' = [toDelete EXCEPT ![r] = left] /\ DeleteIndex(i)
  BY DEF cleanupOldIndices
<1>4. left \in SUBSET Versions
  BY <1>1
<1>5. Becomes(r, IF toDelete'[r] = {} THEN "idle" ELSE "delete")
      /\ UNCHANGED <<stored, reads, from, target, lastId, page, failed, edits, failures, mishap>>
  BY DEF cleanupOldIndices
<1> HIDE DEF i
<1>6. left = IF i \in indices THEN toDelete[r] \ {i} ELSE {}
  OBVIOUS
<1> HIDE DEF left
<1>7. \A q \in Runners : toDelete'[q] = IF q = r THEN left ELSE toDelete[q]
  BY <1>0, <1>3 DEF IndexTypeOK
<1>8. Becomes(r, IF left = {} THEN "idle" ELSE "delete")
  BY <1>5, <1>7
<1>9. \A q \in Runners : command'[q] = IF q = r THEN IF left = {} THEN "idle" ELSE "delete" ELSE command[q]
  BY <1>0, <1>8, CommandIs
<1> QED  BY <1>1, <1>2, <1>3, <1>4, <1>5, <1>6, <1>7, <1>8, <1>9

LEMMA FormCleanup ==
    ASSUME IndexForm, NEW r \in Runners, cleanupOldIndices(r) \/ CommandDies(r)
    PROVE  IndexForm'
<1>0. IndexTypeOK /\ StepOf(r)
  BY DEF IndexForm
<1>a. CASE cleanupOldIndices(r)
  <2>1. PICK i \in toDelete[r], left \in SUBSET Versions :
          /\ i \in Versions
          /\ command[r] = "delete" /\ DeleteIndex(i)
          /\ toDelete' = [toDelete EXCEPT ![r] = left]
          /\ Becomes(r, IF left = {} THEN "idle" ELSE "delete")
          /\ \A q \in Runners :
               /\ command'[q] = IF q = r THEN IF left = {} THEN "idle" ELSE "delete" ELSE command[q]
               /\ toDelete'[q] = IF q = r THEN left ELSE toDelete[q]
          /\ UNCHANGED <<stored, reads, from, target, lastId, page, failed, edits, failures, mishap>>
    BY <1>a, CleanupStep
  <2>2. IndexTypeOK'
    BY <1>0, <2>1, Deleting DEF Becomes, IndexTypeOK
  <2>3. StepOf(r)'
    BY <1>0, <2>1 DEF StepOf, Rebuilding
  <2> QED  BY <2>1, <2>2, <2>3, StepsKept
<1>b. CASE CommandDies(r)
  <2>1. /\ Fault /\ Becomes(r, "idle")
        /\ page' = [page EXCEPT ![r] = NoRows] /\ toDelete' = [toDelete EXCEPT ![r] = {}]
        /\ UNCHANGED <<stored, reads, search, from, target, lastId, failed, edits, history>>
    BY <1>b DEF CommandDies
  <2>2. \A q \in Runners : /\ command'[q] = IF q = r THEN "idle" ELSE command[q]
                           /\ q # r => page'[q] = page[q] /\ toDelete'[q] = toDelete[q]
    BY <1>0, <2>1, CommandIs DEF IndexTypeOK
  <2>3. IndexTypeOK'
    BY <1>0, <2>1, FaultIs, NoRowsTyped DEF Becomes, IndexTypeOK, search, history
  <2>4. StepOf(r)'
    BY <2>2 DEF StepOf, Rebuilding
  <2> QED  BY <2>1, <2>2, <2>3, <2>4, StepsKept
<1> QED  BY <1>a, <1>b

LEMMA FormNext == IndexForm /\ [IndexNext]_ivars => IndexForm'
<1> SUFFICES ASSUME IndexForm, [IndexNext]_ivars PROVE IndexForm'
  OBVIOUS
<1>1. ASSUME NEW s \in Segments, SiteStep(s) PROVE IndexForm'
  BY <1>1, FormSite
<1>2. ASSUME NEW r \in Runners,
             \/ resolvePhysicalIndex(r) \/ CreateTarget(r) \/ ReadPage(r) \/ WritePage(r)
             \/ FillFails(r) \/ Swap(r) \/ SwapFails(r) \/ Drop(r)
             \/ ListPrevious(r) \/ rollbackAlias(r) \/ ListOthers(r) \/ cleanupOldIndices(r)
             \/ CommandDies(r)
      PROVE  IndexForm'
  BY <1>2, FormResolve, FormCreate, FormReadPage, FormWritePage, FormFillFails, FormSwap, FormDrop,
     FormLists, FormCleanup
<1>3. CASE UNCHANGED ivars
  BY <1>3 DEF ivars, search, runners, history, IndexForm, IndexTypeOK, StepOf, OnPage
<1> QED  BY <1>1, <1>2, <1>3 DEF IndexNext

-----------------------------------------------------------------------------
(***************************************************************************)
(* Which index is whose.  What the alias has been on has a schema and      *)
(* stays until a cleanup; the indices below the alias are such, without a  *)
(* gap; between the index a command found the alias on and the one it is   *)
(* on now, all have been served; a rebuild fills the index after that,     *)
(* which nobody else has and nobody has been served; and a rollback goes   *)
(* to the one before it.  A cleanup is alone.                              *)
(***************************************************************************)

OrderOf(r) ==
    /\ command[r] \in {"others", "delete"} =>
         from[r] = alias /\ \A q \in Runners \ {r} : command[q] = "idle"
    /\ command[r] = "delete" => toDelete[r] = indices \ {alias}
    /\ command[r] # "idle" => \A i \in Versions :
         (alias <= i /\ i <= from[r]) \/ (from[r] <= i /\ i <= alias) => i \in served
    /\ command[r] \in Rebuilding =>
         /\ target[r] = from[r] + 1 /\ target[r] \in mapped \ served
         /\ \A q \in Runners \ {r} : command[q] \in Rebuilding => target[q] # target[r]
    /\ command[r] = "rollback" => target[r] + 1 = from[r] /\ target[r] \in served

Order ==
    /\ alias \in served /\ served \subseteq mapped
    /\ \A i \in indices : i < alias => i \in served /\ i + 1 \in served
    /\ \A r \in Runners : OrderOf(r)

LEMMA OrderInit == IndexInit => Order
BY VersionNumbers DEF IndexInit, Order, OrderOf, Rebuilding

LEMMA ServedAre ==
    ASSUME IndexForm, Order
    PROVE  /\ served \subseteq mapped /\ mapped \subseteq indices /\ indices \subseteq Versions
           /\ alias \in served /\ alias \in Versions /\ Versions \subseteq Nat
BY VersionNumbers DEF IndexForm, IndexTypeOK, Order

\* Only r moves, and the indices are as they were.
LEMMA OrderKept ==
    ASSUME IndexForm, Order, NEW r \in Runners, UNCHANGED <<indices, mapped, alias, served>>,
           \A q \in Runners \ {r} :
             /\ command'[q] = command[q] /\ from'[q] = from[q] /\ target'[q] = target[q]
             /\ toDelete'[q] = toDelete[q],
           OrderOf(r)',
           command'[r] # "idle" => \A q \in Runners \ {r} : command[q] \notin {"others", "delete"}
    PROVE  Order'
<1>1. ASSUME NEW q \in Runners \ {r} PROVE OrderOf(q)'
  <2>0. OrderOf(q) /\ q # r
    BY DEF Order
  <2>1. /\ command'[q] = command[q] /\ from'[q] = from[q] /\ target'[q] = target[q]
        /\ toDelete'[q] = toDelete[q]
    OBVIOUS
  <2>2. command'[q] \in {"others", "delete"} =>
          from'[q] = alias' /\ \A p \in Runners \ {q} : command'[p] = "idle"
    BY <2>0, <2>1 DEF OrderOf
  <2>3. command'[q] \in Rebuilding =>
          \A p \in Runners \ {q} : command'[p] \in Rebuilding => target'[p] # target'[q]
    <3> SUFFICES ASSUME command'[q] \in Rebuilding, NEW p \in Runners \ {q}, command'[p] \in Rebuilding
                 PROVE  target'[p] # target'[q]
      OBVIOUS
    <3>1. CASE p = r
      BY <2>0, <3>1 DEF OrderOf
    <3>2. CASE p # r
      BY <2>0, <2>1, <3>2 DEF OrderOf
    <3> QED  BY <3>1, <3>2
  <2> QED  BY <2>0, <2>1, <2>2, <2>3 DEF OrderOf
<1> QED  BY <1>1 DEF Order

\* Nobody cleans up beside a command.
LEMMA NoCleanupBeside ==
    ASSUME Order, NEW r \in Runners, command[r] # "idle"
    PROVE  \A q \in Runners \ {r} : command[q] \notin {"others", "delete"}
BY DEF Order, OrderOf

LEMMA OrderResolve ==
    ASSUME IndexForm, Order, NEW r \in Runners, resolvePhysicalIndex(r), ~mishap'
    PROVE  Order'
<1>0. IndexTypeOK
  BY DEF IndexForm
<1>1. PICK step \in {"create", "list", "others"} : Becomes(r, step) /\ mishap' = (mishap \/ ~Alone(r, step))
  BY DEF resolvePhysicalIndex
<1>2. \A q \in Runners : /\ command'[q] = IF q = r THEN step ELSE command[q]
                         /\ from'[q] = IF q = r THEN alias ELSE from[q]
  BY <1>0, <1>1, CommandIs DEF resolvePhysicalIndex, IndexTypeOK
<1>3. UNCHANGED <<indices, mapped, alias, served, target, toDelete>>
  BY DEF resolvePhysicalIndex, search
<1>4. \A q \in Runners \ {r} : /\ step = "others" => command[q] = "idle"
                               /\ command[q] \notin {"others", "delete"}
  BY <1>1 DEF Alone
<1>5. \A i \in Versions : (alias <= i /\ i <= alias) => i \in served
  BY ServedAre
<1>6. OrderOf(r)'
  BY <1>2, <1>3, <1>4, <1>5 DEF OrderOf, Rebuilding
<1> QED  BY <1>2, <1>3, <1>4, <1>6, OrderKept

LEMMA OrderCreate ==
    ASSUME IndexForm, Order, NEW r \in Runners, CreateTarget(r)
    PROVE  Order'
<1> DEFINE new == nextVersionName(from[r])
<1>0. IndexTypeOK /\ StepOf(r) /\ OrderOf(r)
  BY DEF IndexForm, Order
<1>1. command[r] = "create" /\ new \in Versions /\ new = from[r] + 1 /\ from[r] \in Versions
  BY <1>0, IndexAssumption DEF CreateTarget, StepOf, nextVersionName, Versions
<1>2. \A q \in Runners \ {r} : command[q] \notin {"others", "delete"}
  BY <1>1, NoCleanupBeside
<1>3. UNCHANGED <<from, toDelete, served>>
  BY DEF CreateTarget
<1> HIDE DEF new
<1>a. CASE new \in indices
  <2>1. Becomes(r, "idle") /\ UNCHANGED <<indices, mapped, alias, target>>
    BY <1>a DEF CreateTarget, search, new
  <2>2. \A q \in Runners : command'[q] = IF q = r THEN "idle" ELSE command[q]
    BY <1>0, <2>1, CommandIs
  <2>3. OrderOf(r)'
    BY <2>2 DEF OrderOf, Rebuilding
  <2> QED  BY <1>3, <2>1, <2>2, <2>3, OrderKept
<1>b. CASE new \notin indices
  <2>1. /\ Becomes(r, "fill") /\ target' = [target EXCEPT ![r] = new]
        /\ indices' = indices \cup {new} /\ mapped' = mapped \cup {new} /\ alias' = alias
    BY <1>b DEF CreateTarget, new
  <2>2. \A q \in Runners : /\ command'[q] = IF q = r THEN "fill" ELSE command[q]
                           /\ target'[q] = IF q = r THEN new ELSE target[q]
    BY <1>0, <2>1, CommandIs DEF IndexTypeOK
  <2>3. new \notin served /\ alias \in Nat /\ new \in Nat
    BY <1>b, <1>1, ServedAre
  <2>4. ~(new <= alias)
    <3>0. from[r] \in Nat
      BY <1>1, ServedAre
    <3>1. from[r] <= new
      BY <1>1, <3>0
    <3>2. from[r] <= new /\ new <= alias => new \in served
      BY <1>0, <1>1 DEF OrderOf
    <3> QED  BY <2>3, <3>1, <3>2
  <2>5. \A i \in indices' : i < alias => i \in served /\ i + 1 \in served
    BY <2>1, <2>3, <2>4 DEF Order
  <2>6. OrderOf(r)'
    <3>1. \A q \in Runners \ {r} : command'[q] \in Rebuilding => target'[q] # new
      BY <1>b, <2>2, ServedAre DEF Order, OrderOf
    <3> QED  BY <1>0, <1>1, <1>3, <2>1, <2>2, <2>3, <3>1 DEF OrderOf, Rebuilding
  <2>7. ASSUME NEW q \in Runners \ {r} PROVE OrderOf(q)'
    <3>1. command[q] \in Rebuilding => target[q] # new
      BY <1>b, <1>2, ServedAre DEF Order, OrderOf
    <3>2. OrderOf(q) /\ command[q] \notin {"others", "delete"}
      BY <1>2 DEF Order
    <3>3. command'[q] \in Rebuilding =>
            \A p \in Runners \ {q} : command'[p] \in Rebuilding => target'[p] # target'[q]
      BY <2>2, <3>1, <3>2 DEF OrderOf
    <3> QED  BY <1>3, <2>1, <2>2, <3>2, <3>3 DEF OrderOf
  <2> QED  BY <1>3, <2>1, <2>5, <2>6, <2>7 DEF Order
<1> QED  BY <1>a, <1>b

\* A rebuild goes on, or back to its end.
LEMMA OrderRebuild ==
    ASSUME IndexForm, Order, NEW r \in Runners,
           \/ ReadPage(r) \/ WritePage(r) \/ FillFails(r) \/ SwapFails(r)
           \/ Swap(r) /\ ~MovesAlias(r)
    PROVE  Order'
<1>0. IndexTypeOK /\ StepOf(r) /\ OrderOf(r)
  BY DEF IndexForm, Order
<1>1. command[r] \in Rebuilding /\ command[r] # "drop"
  BY DEF ReadPage, WritePage, FillFails, SwapFails, Swap, Rebuilding
<1>2. PICK step \in Rebuilding : Becomes(r, step)
  BY DEF ReadPage, WritePage, FillFails, SwapFails, Swap, Rebuilding
<1>3. \A q \in Runners : command'[q] = IF q = r THEN step ELSE command[q]
  BY <1>0, <1>2, CommandIs
<1>4. UNCHANGED <<from, target, toDelete>>
  BY DEF ReadPage, WritePage, FillFails, SwapFails, Swap
<1>5. UNCHANGED <<indices, mapped, alias, served>>
  <2>1. CASE WritePage(r) \/ FillFails(r)
    <3>1. target[r] \in indices
      BY <1>0, <1>1, ServedAre DEF OrderOf
    <3>2. (indices' = indices \cup {target[r]} \/ indices' = indices) /\ UNCHANGED <<mapped, alias, served>>
      BY <2>1 DEF WritePage, FillFails, Takes, search, history
    <3> QED  BY <3>1, <3>2
  <2>2. CASE ReadPage(r) \/ SwapFails(r) \/ (Swap(r) /\ ~MovesAlias(r))
    BY <2>2 DEF ReadPage, SwapFails, Swap, search, history
  <2> QED  BY <2>1, <2>2
<1>6. command[r] # "idle" /\ step \notin {"idle", "others", "delete", "rollback"}
  BY <1>1, <1>2 DEF Rebuilding
<1>7. OrderOf(r)'
  <2>1. \A q \in Runners \ {r} : command'[q] \in Rebuilding => target'[q] # target'[r]
    BY <1>0, <1>1, <1>3, <1>4 DEF OrderOf
  <2> QED  BY <1>0, <1>1, <1>3, <1>4, <1>5, <1>6, <2>1 DEF OrderOf
<1> QED  BY <1>3, <1>4, <1>5, <1>6, <1>7, NoCleanupBeside, OrderKept

\* The alias moves: up by one, to an index that is now served, or down by one.
LEMMA OrderMoves ==
    ASSUME IndexForm, Order, NEW r \in Runners, MovesAlias(r), Swap(r) \/ rollbackAlias(r), ~mishap'
    PROVE  Order'
<1>0. IndexTypeOK /\ StepOf(r) /\ OrderOf(r)
  BY DEF IndexForm, Order
<1>1. /\ command[r] = IF Swap(r) THEN "swap" ELSE "rollback"
      /\ command[r] = "swap" => target[r] = alias + 1 /\ served' = served \cup {target[r]}
      /\ command[r] = "rollback" => target[r] + 1 = alias /\ target[r] \in served /\ served' = served
  BY <1>0 DEF Swap, rollbackAlias, MovesAlias, OrderOf, Rebuilding, history
<1>2. /\ Becomes(r, "idle") /\ alias' = target[r]
      /\ UNCHANGED <<indices, mapped, from, target, toDelete>>
  BY DEF Swap, rollbackAlias
<1>3. \A q \in Runners : command'[q] = IF q = r THEN "idle" ELSE command[q]
  BY <1>0, <1>2, CommandIs
<1>4. \A q \in Runners \ {r} : command[q] \notin {"others", "delete"}
  BY <1>1, NoCleanupBeside
<1>5. /\ alias \in Nat /\ alias' \in served' /\ served \subseteq served' /\ target[r] \in Versions
      /\ served' \subseteq served \cup {target[r]}
  BY <1>0, <1>1, <1>2, ServedAre DEF StepOf, Rebuilding
<1>6. served' \subseteq mapped'
  BY <1>0, <1>1, <1>2 DEF Order, OrderOf, Rebuilding
<1>7. \A i \in indices' : i < alias' => i \in served' /\ i + 1 \in served'
  <2> SUFFICES ASSUME NEW i \in indices, i < target[r] PROVE i \in served' /\ i + 1 \in served'
    BY <1>2
  <2>1. i \in Nat /\ target[r] \in Nat
    BY <1>5, ServedAre
  <2>2. CASE i < alias
    BY <1>5, <2>2 DEF Order
  <2>3. CASE ~(i < alias)
    <3>1. i = alias /\ i + 1 = target[r]
      BY <1>1, <1>5, <2>1, <2>3
    <3> QED  BY <1>2, <1>5, <3>1, ServedAre
  <2> QED  BY <2>2, <2>3
<1>8. ASSUME NEW q \in Runners \ {r} PROVE OrderOf(q)'
  <2>0. OrderOf(q) /\ command[q] \notin {"others", "delete"} /\ command'[q] = command[q] /\ StepOf(q)
    BY <1>3, <1>4 DEF Order, IndexForm
  <2>1. ASSUME command[q] # "idle", NEW i \in Versions,
               (alias' <= i /\ i <= from[q]) \/ (from[q] <= i /\ i <= alias')
        PROVE  i \in served'
    <3>1. i \in Nat /\ from[q] \in Nat /\ target[r] \in Nat /\ alias' = target[r]
      BY <1>2, <1>5, <2>0, <2>1, ServedAre DEF StepOf
    <3>2. CASE i = target[r]
      BY <1>2, <1>5, <3>2
    <3>3. CASE i # target[r]
      <4>1. (alias <= i /\ i <= from[q]) \/ (from[q] <= i /\ i <= alias)
        BY <1>1, <1>5, <2>1, <3>1, <3>3
      <4>2. i \in served
        BY <2>0, <2>1, <4>1 DEF OrderOf
      <4> QED  BY <1>5, <4>2
    <3> QED  BY <3>2, <3>3
  <2>2. command[q] \in Rebuilding =>
          /\ target[q] = from[q] + 1 /\ target[q] \in mapped \ served'
          /\ \A p \in Runners \ {q} : command'[p] \in Rebuilding => target[p] # target[q]
    <3> SUFFICES ASSUME command[q] \in Rebuilding
                 PROVE  /\ target[q] = from[q] + 1 /\ target[q] \in mapped \ served'
                        /\ \A p \in Runners \ {q} : command'[p] \in Rebuilding => target[p] # target[q]
      OBVIOUS
    <3>1. /\ target[q] = from[q] + 1 /\ target[q] \in mapped /\ target[q] \notin served
          /\ \A p \in Runners \ {q} : command[p] \in Rebuilding => target[p] # target[q]
      BY <2>0 DEF OrderOf
    <3>2. command[r] = "swap" => target[r] # target[q]
      BY <3>1 DEF Rebuilding
    <3>3. target[q] \notin served'
      BY <1>1, <3>1, <3>2
    <3>4. \A p \in Runners \ {q} : command'[p] \in Rebuilding => target[p] # target[q]
      BY <1>3, <3>1 DEF Rebuilding
    <3> QED  BY <3>1, <3>3, <3>4
  <2>3. command[q] = "rollback" => target[q] + 1 = from[q] /\ target[q] \in served'
    BY <1>5, <2>0 DEF OrderOf
  <2> QED  BY <1>2, <2>0, <2>1, <2>2, <2>3 DEF OrderOf
<1>9. OrderOf(r)'
  BY <1>3 DEF OrderOf, Rebuilding
<1> QED  BY <1>5, <1>6, <1>7, <1>8, <1>9 DEF Order

LEMMA OrderDrop ==
    ASSUME IndexForm, Order, NEW r \in Runners, Drop(r)
    PROVE  Order'
<1>0. IndexTypeOK /\ StepOf(r) /\ OrderOf(r)
  BY DEF IndexForm, Order
<1>1. command[r] = "drop" /\ Becomes(r, "idle") /\ UNCHANGED <<from, target, toDelete>>
  BY DEF Drop
<1>2. \A q \in Runners : command'[q] = IF q = r THEN "idle" ELSE command[q]
  BY <1>0, <1>1, CommandIs
<1>3. OrderOf(r)'
  BY <1>2 DEF OrderOf, Rebuilding
<1>a. CASE UNCHANGED <<search, since, served>>
  BY <1>1, <1>2, <1>3, <1>a, OrderKept DEF search
<1>b. CASE DeleteIndex(target[r])
  <2> DEFINE t == target[r]
  <2>1. t \in mapped /\ t \notin served /\ t # alias
    BY <1>0, <1>1, ServedAre DEF OrderOf, Rebuilding
  <2>2. indices' = indices \ {t} /\ mapped' = mapped \ {t} /\ alias' = alias /\ served' = served
    BY <1>b, <2>1 DEF DeleteIndex
  <2>3. \A q \in Runners \ {r} : command[q] \notin {"others", "delete"}
    BY <1>1, NoCleanupBeside
  <2>4. \A q \in Runners \ {r} : command[q] \in Rebuilding => target[q] # t
    BY <1>0, <1>1 DEF OrderOf, Rebuilding
  <2> HIDE DEF t
  <2>5. alias' \in served' /\ served' \subseteq mapped'
    BY <2>1, <2>2 DEF Order
  <2>6. \A i \in indices' : i < alias' => i \in served' /\ i + 1 \in served'
    BY <2>2 DEF Order
  <2>7. ASSUME NEW q \in Runners \ {r} PROVE OrderOf(q)'
    <3>0. OrderOf(q) /\ command[q] \notin {"others", "delete"}
      BY <2>3 DEF Order
    <3>1. \A p \in Runners \ {q} : command'[p] \in Rebuilding => command[p] \in Rebuilding
      BY <1>2 DEF Rebuilding
    <3> QED  BY <1>1, <1>2, <2>2, <2>4, <3>0, <3>1 DEF OrderOf
  <2> QED  BY <1>3, <2>5, <2>6, <2>7 DEF Order
<1> QED  BY <1>a, <1>b DEF Drop

\* The newest index below that in use is the one before it, and was served.
LEMMA OrderListPrevious ==
    ASSUME IndexForm, Order, NEW r \in Runners, ListPrevious(r)
    PROVE  Order'
<1> DEFINE previous == {i \in indices : i < from[r]}
<1>0. IndexTypeOK /\ StepOf(r) /\ OrderOf(r)
  BY DEF IndexForm, Order
<1>1. /\ command[r] = "list"
      /\ UNCHANGED <<indices, mapped, alias, served, from, toDelete>>
  BY DEF ListPrevious, search, history
<1>2. \A q \in Runners \ {r} : command[q] \notin {"others", "delete"}
  BY <1>1, NoCleanupBeside
<1>a. CASE previous = {}
  <2>1. Becomes(r, "idle") /\ target' = target
    BY <1>a DEF ListPrevious
  <2>2. \A q \in Runners : command'[q] = IF q = r THEN "idle" ELSE command[q]
    BY <1>0, <2>1, CommandIs
  <2>3. OrderOf(r)'
    BY <2>2 DEF OrderOf, Rebuilding
  <2> QED  BY <1>1, <2>1, <2>2, <2>3, OrderKept
<1>b. CASE previous # {}
  <2> DEFINE m == Max(previous)
  <2>1. Becomes(r, "rollback") /\ target' = [target EXCEPT ![r] = m]
    BY <1>b DEF ListPrevious
  <2>2. \A q \in Runners : /\ command'[q] = IF q = r THEN "rollback" ELSE command[q]
                           /\ target'[q] = IF q = r THEN m ELSE target[q]
    BY <1>0, <2>1, CommandIs DEF IndexTypeOK
  <2>3. m \in previous /\ \A i \in previous : i <= m
    BY <1>b, LargestVersion, ServedAre
  <2>4. m \in indices /\ m < from[r] /\ m \in Nat /\ from[r] \in Versions /\ alias \in Nat
    BY <1>0, <1>1, <2>3, ServedAre DEF StepOf
  <2>5. \A i \in indices : i < from[r] => i <= m
    BY <2>3
  <2> HIDE DEF m, previous
  <2>6. from[r] \in Nat /\ from[r] <= MaxIndex /\ m + 1 \in Versions
    BY <2>4, IndexAssumption DEF Versions
  <2>7. m \in served /\ m + 1 \in served
    <3>1. CASE m < alias
      BY <2>4, <3>1 DEF Order
    <3>2. CASE ~(m < alias)
      <4>1. alias <= m /\ m <= from[r] /\ alias <= m + 1 /\ m + 1 <= from[r]
        BY <2>4, <2>6, <3>2
      <4>2. m \in Versions
        BY <2>4, ServedAre
      <4> QED  BY <1>0, <1>1, <2>6, <4>1, <4>2 DEF OrderOf
    <3> QED  BY <3>1, <3>2
  <2>8. m + 1 = from[r]
    <3>1. m + 1 \in indices
      BY <2>7, ServedAre
    <3>2. ~(m + 1 < from[r])
      BY <2>4, <2>5, <3>1
    <3> QED  BY <2>4, <2>6, <3>2
  <2>9. OrderOf(r)'
    BY <1>0, <1>1, <2>2, <2>7, <2>8 DEF OrderOf, Rebuilding
  <2> QED  BY <1>1, <1>2, <2>2, <2>9, OrderKept
<1> QED  BY <1>a, <1>b

LEMMA OrderRollbackMissed ==
    ASSUME IndexForm, Order, NEW r \in Runners, (rollbackAlias(r) /\ ~MovesAlias(r)) \/ CommandDies(r)
    PROVE  Order'
<1>0. IndexTypeOK
  BY DEF IndexForm
<1>1. Becomes(r, "idle") /\ UNCHANGED <<indices, mapped, alias, served, from, target>>
  BY DEF rollbackAlias, CommandDies, search, history
<1>2. \A q \in Runners : /\ command'[q] = IF q = r THEN "idle" ELSE command[q]
                         /\ q # r => toDelete'[q] = toDelete[q]
  BY <1>0, <1>1, CommandIs DEF rollbackAlias, CommandDies, IndexTypeOK
<1>3. OrderOf(r)'
  BY <1>2 DEF OrderOf, Rebuilding
<1> QED  BY <1>1, <1>2, <1>3, OrderKept

LEMMA OrderListOthers ==
    ASSUME IndexForm, Order, NEW r \in Runners, ListOthers(r)
    PROVE  Order'
<1> DEFINE others == indices \ {from[r]}
<1> DEFINE step == IF others = {} THEN "idle" ELSE "delete"
<1>0. IndexTypeOK /\ OrderOf(r)
  BY DEF IndexForm, Order
<1>1. /\ command[r] = "others" /\ toDelete' = [toDelete EXCEPT ![r] = others]
      /\ UNCHANGED <<indices, mapped, alias, served, from, target>>
  BY DEF ListOthers, search, history
<1>2. \A q \in Runners : toDelete'[q] = IF q = r THEN others ELSE toDelete[q]
  BY <1>0, <1>1 DEF IndexTypeOK
<1>3. Becomes(r, step)
  BY <1>2 DEF ListOthers
<1>4. \A q \in Runners : command'[q] = IF q = r THEN step ELSE command[q]
  BY <1>0, <1>3, CommandIs
<1>5. others = indices \ {alias} /\ from[r] = alias /\ \A q \in Runners \ {r} : command[q] = "idle"
  BY <1>0, <1>1 DEF OrderOf
<1>6. OrderOf(r)'
  BY <1>0, <1>1, <1>2, <1>4, <1>5 DEF OrderOf, Rebuilding
<1> QED  BY <1>1, <1>2, <1>4, <1>5, <1>6, OrderKept

\* A cleanup begins with the oldest index, so it leaves no gap.
LEMMA OrderCleanup ==
    ASSUME IndexForm, Order, NEW r \in Runners, cleanupOldIndices(r)
    PROVE  Order'
<1>0. IndexTypeOK /\ StepOf(r) /\ OrderOf(r)
  BY DEF IndexForm, Order
<1>1. PICK i \in toDelete[r], left \in SUBSET Versions :
        /\ i \in Versions /\ \A j \in toDelete[r] : i <= j
        /\ command[r] = "delete" /\ DeleteIndex(i)
        /\ left = IF i \in indices THEN toDelete[r] \ {i} ELSE {}
        /\ \A q \in Runners :
             /\ command'[q] = IF q = r THEN IF left = {} THEN "idle" ELSE "delete" ELSE command[q]
             /\ toDelete'[q] = IF q = r THEN left ELSE toDelete[q]
        /\ UNCHANGED <<from, target>>
  BY CleanupStep
<1>2. /\ from[r] = alias /\ toDelete[r] = indices \ {alias}
      /\ \A q \in Runners \ {r} : command[q] = "idle"
  BY <1>0, <1>1 DEF OrderOf
<1>3. i \in indices /\ i # alias
  BY <1>2
<1>4. indices' = indices \ {i} /\ mapped' = mapped \ {i} /\ alias' = alias /\ served' = served \ {i}
  BY <1>1, <1>3 DEF DeleteIndex
<1>5. left = indices' \ {alias'}
  BY <1>1, <1>2, <1>3, <1>4
<1>6. alias' \in served' /\ served' \subseteq mapped'
  BY <1>3, <1>4 DEF Order
<1>7. \A j \in indices' : j < alias' => j \in served' /\ j + 1 \in served'
  <2> SUFFICES ASSUME NEW j \in indices, j # i, j < alias
               PROVE  j \in served /\ j + 1 \in served /\ j + 1 # i
    BY <1>4
  <2>1. j \in served /\ j + 1 \in served
    BY DEF Order
  <2>2. i \in Nat /\ j \in Nat /\ alias \in Nat
    BY <1>3, ServedAre
  <2>3. i <= j
    BY <1>1, <1>2, <2>2
  <2> QED  BY <2>1, <2>2, <2>3
<1>8. OrderOf(r)'
  <2>1. \A k \in Versions : (alias <= k /\ k <= from[r]) \/ (from[r] <= k /\ k <= alias) => k = alias
    BY <1>2, ServedAre
  <2>2. \A q \in Runners \ {r} : command'[q] = "idle"
    BY <1>1, <1>2
  <2> QED  BY <1>1, <1>2, <1>4, <1>5, <1>6, <2>1, <2>2 DEF OrderOf, Rebuilding
<1>9. \A q \in Runners \ {r} : OrderOf(q)'
  BY <1>1, <1>2 DEF OrderOf, Rebuilding
<1> QED  BY <1>6, <1>7, <1>8, <1>9 DEF Order

LEMMA OrderSite ==
    ASSUME Order, UNCHANGED ivars \/ \E s \in Segments : SiteStep(s)
    PROVE  Order'
<1>1. UNCHANGED <<indices, mapped, alias, served, command, from, target, toDelete>>
  BY DEF SiteStep, EditRow, SyncReads, SyncWrites, ivars, search, runners, history
<1> QED  BY <1>1 DEF Order, OrderOf

LEMMA OrderNext ==
    ASSUME IndexForm, Order, [IndexNext]_ivars, ~mishap'
    PROVE  Order'
<1>1. ASSUME NEW r \in Runners,
             \/ resolvePhysicalIndex(r) \/ CreateTarget(r) \/ ReadPage(r) \/ WritePage(r)
             \/ FillFails(r) \/ Swap(r) \/ SwapFails(r) \/ Drop(r)
             \/ ListPrevious(r) \/ rollbackAlias(r) \/ ListOthers(r) \/ cleanupOldIndices(r)
             \/ CommandDies(r)
      PROVE  Order'
  BY <1>1, OrderResolve, OrderCreate, OrderRebuild, OrderMoves, OrderDrop, OrderListPrevious,
     OrderRollbackMissed, OrderListOthers, OrderCleanup
<1> QED  BY <1>1, OrderSite DEF IndexNext

-----------------------------------------------------------------------------
(***************************************************************************)
(* What is in the indices.  An index that has been served lacks of the     *)
(* rows only what was edited since, or undone by a late job, and so does   *)
(* one that is being filled, up to the last id it has passed, unless a         *)
(* document failed; behind that id it is empty.  The page that was read    *)
(* has every row between that id and its own last one.                     *)
(***************************************************************************)

Lacks(i, s) == docs[i][s] # stored[s] /\ s \notin since[i]

FillOf(r) ==
    /\ command[r] \in {"fill", "write"} =>
         /\ \A s \in Segments : s > lastId[r] => docs[target[r]][s] = 0
         /\ ~failed[r] => \A s \in Segments : s <= lastId[r] => ~Lacks(target[r], s)
    /\ command[r] = "write" =>
         /\ \A s \in OnPage(r) : s > lastId[r]
         /\ \A s \in Segments, q \in OnPage(r) :
              lastId[r] < s /\ s <= q /\ page[r][s] # stored[s] => s \in since[target[r]]
    /\ command[r] = "swap" => \A s \in Segments : ~Lacks(target[r], s)

Filled ==
    /\ \A i \in served, s \in Segments : ~Lacks(i, s)
    /\ \A r \in Runners : FillOf(r)

LEMMA FilledInit == IndexInit => Filled
BY VersionNumbers DEF IndexInit, Filled, FillOf, Lacks, NoRows

\* The index of a rebuild is nobody else's.
LEMMA OwnIndex ==
    ASSUME IndexForm, Order, NEW r \in Runners, command[r] \in Rebuilding
    PROVE  /\ target[r] \in indices /\ target[r] \in Versions /\ target[r] \notin served /\ target[r] # alias
           /\ \A q \in Runners \ {r} : command[q] \in Rebuilding => target[q] # target[r]
BY ServedAre DEF Order, OrderOf

\* A runner other than r keeps what it has filled when its index does.
LEMMA FillKept ==
    ASSUME Filled, NEW q \in Runners,
           /\ command'[q] = command[q] /\ target'[q] = target[q] /\ lastId'[q] = lastId[q]
           /\ page'[q] = page[q] /\ failed'[q] = failed[q] /\ stored' = stored,
           command[q] \in Rebuilding => docs'[target[q]] = docs[target[q]] /\ since'[target[q]] = since[target[q]]
    PROVE  FillOf(q)'
<1>1. OnPage(q)' = OnPage(q)
  BY DEF OnPage
<1> QED  BY <1>1 DEF Filled, FillOf, Lacks, Rebuilding

LEMMA FilledEdit ==
    ASSUME IndexForm, Order, Filled, NEW s \in Segments, EditRow(s)
    PROVE  Filled'
<1>0. stored \in [Segments -> 0 .. MaxEdits]
  BY DEF IndexForm, IndexTypeOK
<1>1. /\ \A i \in indices : since'[i] = since[i] \cup {s}
      /\ \A q \in Segments : q # s => stored'[q] = stored[q]
      /\ UNCHANGED <<docs, indices, mapped, alias, served, command, from, target, lastId, page, failed>>
  BY <1>0, ServedAre DEF EditRow, search, runners
<1>2. \A i \in indices, q \in Segments : ~Lacks(i, q) => ~Lacks(i, q)'
  BY <1>1 DEF Lacks
<1>3. \A i \in served, q \in Segments : ~Lacks(i, q)'
  BY <1>2, ServedAre DEF Filled
<1>4. ASSUME NEW r \in Runners PROVE FillOf(r)'
  <2>1. FillOf(r) /\ OnPage(r)' = OnPage(r)
    BY <1>1 DEF Filled, OnPage
  <2>2. command[r] \in Rebuilding => target[r] \in indices
    BY OwnIndex
  <2>3. ASSUME command[r] = "write", NEW x \in Segments, NEW q \in OnPage(r),
               lastId[r] < x, x <= q, page[r][x] # stored'[x]
        PROVE  x \in since'[target[r]]
    <3>1. since'[target[r]] = since[target[r]] \cup {s}
      BY <1>1, <2>2, <2>3 DEF Rebuilding
    <3>2. x # s => page[r][x] # stored[x]
      BY <1>1, <2>3
    <3>3. x # s => x \in since[target[r]]
      BY <2>1, <2>3, <3>2 DEF FillOf
    <3> QED  BY <3>1, <3>3
  <2>4. command[r] \in Rebuilding => \A x \in Segments : ~Lacks(target[r], x) => ~Lacks(target[r], x)'
    BY <1>1, <1>2, <2>2 DEF Lacks
  <2>5. command[r] \in {"fill", "write"} /\ ~failed[r] =>
          \A x \in Segments : x <= lastId[r] => ~Lacks(target[r], x)'
    BY <2>1, <2>4 DEF FillOf, Rebuilding
  <2>6. command[r] = "swap" => \A x \in Segments : ~Lacks(target[r], x)'
    BY <2>1, <2>4 DEF FillOf, Rebuilding
  <2> QED  BY <1>1, <2>1, <2>3, <2>5, <2>6 DEF FillOf, Lacks
<1> QED  BY <1>1, <1>3, <1>4 DEF Filled

LEMMA FilledReads ==
    ASSUME Filled, NEW s \in Segments, SyncReads(s)
    PROVE  Filled'
<1>1. UNCHANGED <<stored, search, runners, history>>
  BY DEF SyncReads
<1> QED  BY <1>1 DEF search, runners, history, Filled, FillOf, Lacks, OnPage

LEMMA FilledWrites ==
    ASSUME IndexForm, Order, Filled, NEW s \in Segments, NEW v \in 0 .. MaxEdits, SyncWrites(s, v)
    PROVE  Filled'
<1>0. /\ docs \in [Versions -> [Segments -> 0 .. MaxEdits]] /\ since \in [Versions -> SUBSET Segments]
      /\ alias \in Versions
  BY ServedAre DEF IndexForm, IndexTypeOK
<1>1. /\ docs' = [docs EXCEPT ![alias][s] = v]
      /\ since' = [since EXCEPT ![alias] = IF v = stored[s] THEN @ \ {s} ELSE @ \cup {s}]
      /\ UNCHANGED <<stored, served, command, target, lastId, page, failed>>
  BY DEF SyncWrites, runners
<1>2. \A i \in Versions : i # alias => docs'[i] = docs[i] /\ since'[i] = since[i]
  BY <1>0, <1>1
<1>3. /\ docs'[alias][s] = v
      /\ \A q \in Segments : q # s => docs'[alias][q] = docs[alias][q]
      /\ since'[alias] = IF v = stored[s] THEN since[alias] \ {s} ELSE since[alias] \cup {s}
  BY <1>0, <1>1
<1>4. \A i \in served, q \in Segments : ~Lacks(i, q)'
  <2> SUFFICES ASSUME NEW i \in served, NEW q \in Segments PROVE ~Lacks(i, q)'
    OBVIOUS
  <2>1. ~Lacks(i, q) /\ i \in Versions
    BY ServedAre DEF Filled
  <2> QED  BY <1>1, <1>2, <1>3, <2>1 DEF Lacks
<1>5. ASSUME NEW r \in Runners PROVE FillOf(r)'
  <2>1. command[r] \in Rebuilding => docs'[target[r]] = docs[target[r]] /\ since'[target[r]] = since[target[r]]
    BY <1>2, OwnIndex
  <2> QED  BY <1>1, <2>1, FillKept
<1> QED  BY <1>1, <1>4, <1>5 DEF Filled

\* Nothing is written, and nothing is filled by who moves.
LEMMA FilledIdle ==
    ASSUME IndexForm, Filled, NEW r \in Runners,
           UNCHANGED <<stored, docs, since>>, served' \subseteq served,
           \A q \in Runners \ {r} :
             /\ command'[q] = command[q] /\ target'[q] = target[q] /\ lastId'[q] = lastId[q]
             /\ page'[q] = page[q] /\ failed'[q] = failed[q],
           FillOf(r)'
    PROVE  Filled'
<1>1. ASSUME NEW q \in Runners \ {r} PROVE FillOf(q)'
  BY FillKept
<1>2. \A i \in served', s \in Segments : ~Lacks(i, s)'
  BY DEF Filled, Lacks
<1> QED  BY <1>1, <1>2 DEF Filled

LEMMA FilledLists ==
    ASSUME IndexForm, Filled, NEW r \in Runners,
           \/ resolvePhysicalIndex(r) \/ SwapFails(r) \/ ListPrevious(r) \/ rollbackAlias(r)
           \/ ListOthers(r) \/ CommandDies(r) \/ (Swap(r) /\ ~MovesAlias(r))
    PROVE  Filled'
<1>0. IndexTypeOK
  BY DEF IndexForm
<1>1. UNCHANGED <<stored, docs, since, served, lastId, failed>>
  BY DEF resolvePhysicalIndex, SwapFails, ListPrevious, rollbackAlias, ListOthers, CommandDies, Swap,
         search, history
<1>2. PICK step \in {"create", "list", "others", "drop", "idle", "rollback", "delete"} : Becomes(r, step)
  BY DEF resolvePhysicalIndex, SwapFails, ListPrevious, rollbackAlias, ListOthers, CommandDies, Swap
<1>3. \A q \in Runners : command'[q] = IF q = r THEN step ELSE command[q]
  BY <1>0, <1>2, CommandIs
<1>4. \A q \in Runners \ {r} : target'[q] = target[q] /\ page'[q] = page[q]
  BY <1>0 DEF resolvePhysicalIndex, SwapFails, ListPrevious, rollbackAlias, ListOthers, CommandDies, Swap,
              IndexTypeOK
<1>5. FillOf(r)'
  BY <1>3 DEF FillOf
<1> QED  BY <1>1, <1>3, <1>4, <1>5, FilledIdle

LEMMA FilledCreate ==
    ASSUME IndexForm, Order, Filled, NEW r \in Runners, CreateTarget(r)
    PROVE  Filled'
<1> DEFINE new == nextVersionName(from[r])
<1>0. IndexTypeOK /\ StepOf(r)
  BY DEF IndexForm
<1>1. command[r] = "create" /\ new \in Versions
  BY <1>0, IndexAssumption DEF CreateTarget, StepOf, nextVersionName, Versions
<1>2. /\ UNCHANGED <<stored, page, served>>
      /\ lastId' = [lastId EXCEPT ![r] = 0] /\ failed' = [failed EXCEPT ![r] = FALSE]
  BY DEF CreateTarget
<1> HIDE DEF new
<1>a. CASE new \in indices
  <2>1. Becomes(r, "idle") /\ UNCHANGED <<docs, target, since>>
    BY <1>a DEF CreateTarget, search, new
  <2>2. \A q \in Runners : /\ command'[q] = IF q = r THEN "idle" ELSE command[q]
                           /\ q # r => lastId'[q] = lastId[q] /\ failed'[q] = failed[q]
    BY <1>0, <1>2, <2>1, CommandIs DEF IndexTypeOK
  <2>3. FillOf(r)'
    BY <2>2 DEF FillOf
  <2> QED  BY <1>2, <2>1, <2>2, <2>3, FilledIdle
<1>b. CASE new \notin indices
  <2>1. /\ Becomes(r, "fill") /\ target' = [target EXCEPT ![r] = new]
        /\ docs' = [docs EXCEPT ![new] = NoRows] /\ since' = [since EXCEPT ![new] = {}]
    BY <1>b DEF CreateTarget, new
  <2>2. \A q \in Runners : /\ command'[q] = IF q = r THEN "fill" ELSE command[q]
                           /\ target'[q] = IF q = r THEN new ELSE target[q]
                           /\ lastId'[q] = IF q = r THEN 0 ELSE lastId[q]
                           /\ failed'[q] = IF q = r THEN FALSE ELSE failed[q]
    BY <1>0, <1>2, <2>1, CommandIs DEF IndexTypeOK
  <2>3. /\ docs'[new] = NoRows
        /\ \A i \in Versions : i # new => docs'[i] = docs[i] /\ since'[i] = since[i]
    BY <1>0, <1>1, <2>1 DEF IndexTypeOK
  <2>4. \A i \in served, s \in Segments : ~Lacks(i, s)'
    <3> SUFFICES ASSUME NEW i \in served, NEW s \in Segments PROVE ~Lacks(i, s)'
      OBVIOUS
    <3>1. ~Lacks(i, s) /\ i \in Versions /\ i # new
      BY <1>b, ServedAre DEF Filled
    <3> QED  BY <1>2, <2>3, <3>1 DEF Lacks
  <2>5. ASSUME NEW q \in Runners \ {r} PROVE FillOf(q)'
    <3>1. command[q] \in Rebuilding => target[q] # new /\ target[q] \in Versions
      BY <1>b, OwnIndex
    <3> QED  BY <1>2, <2>2, <2>3, <3>1, FillKept
  <2>6. FillOf(r)'
    <3>1. \A s \in Segments : ~(s <= 0) /\ NoRows[s] = 0
      BY IndexAssumption DEF NoRows
    <3> QED  BY <2>2, <2>3, <3>1 DEF FillOf
  <2> QED  BY <1>2, <2>4, <2>5, <2>6 DEF Filled
<1> QED  BY <1>a, <1>b

LEMMA FilledReadPage ==
    ASSUME IndexForm, Order, Filled, NEW r \in Runners, ReadPage(r)
    PROVE  Filled'
<1>0. IndexTypeOK /\ StepOf(r) /\ FillOf(r)
  BY DEF IndexForm, Filled
<1>1. /\ command[r] = "fill"
      /\ UNCHANGED <<stored, docs, target, lastId, failed, since, served>>
  BY DEF ReadPage, search, history
<1>2. \A s \in Segments : s \in Nat /\ lastId[r] \in Nat /\ stored[s] \in Nat
  <2>1. \A s \in Segments : s \in Nat
    BY IndexAssumption
  <2>2. lastId[r] \in Nat
    <3>1. lastId \in [Runners -> Segments \cup {0}]
      BY <1>0 DEF IndexTypeOK
    <3>2. Segments \cup {0} \subseteq Nat
      BY IndexAssumption
    <3> QED  BY <3>1, <3>2
  <2>3. \A s \in Segments : stored[s] \in Nat
    BY <1>0, IndexAssumption DEF IndexTypeOK
  <2> QED  BY <2>1, <2>2, <2>3
<1>a. CASE Rest(r) = {}
  <2> DEFINE step == IF failed[r] THEN "drop" ELSE "swap"
  <2>1. Becomes(r, step) /\ page' = page
    BY <1>a DEF ReadPage
  <2>2. \A q \in Runners : command'[q] = IF q = r THEN step ELSE command[q]
    BY <1>0, <2>1, CommandIs
  <2>3. ~failed[r] => \A s \in Segments : ~Lacks(target[r], s)
    <3> SUFFICES ASSUME ~failed[r], NEW s \in Segments PROVE ~Lacks(target[r], s)
      OBVIOUS
    <3>1. CASE s <= lastId[r]
      BY <1>0, <1>1, <3>1 DEF FillOf
    <3>2. CASE ~(s <= lastId[r])
      <4>1. s > lastId[r]
        BY <1>2, <3>2
      <4>2. stored[s] = 0
        BY <1>a, <1>2, <4>1 DEF Rest
      <4>3. docs[target[r]][s] = 0
        BY <1>0, <1>1, <4>1 DEF FillOf
      <4> QED  BY <4>2, <4>3 DEF Lacks
    <3> QED  BY <3>1, <3>2
  <2>4. FillOf(r)'
    BY <1>0, <1>1, <2>2, <2>3 DEF FillOf, Lacks
  <2> QED  BY <1>1, <2>1, <2>2, <2>4, FilledIdle
<1>b. CASE Rest(r) # {}
  <2> DEFINE new == [s \in Segments |-> IF s \in NextPage(r) THEN stored[s] ELSE 0]
  <2>1. Becomes(r, "write") /\ page' = [page EXCEPT ![r] = new]
    BY <1>b DEF ReadPage
  <2>2. \A s \in Segments : new[s] = IF s \in NextPage(r) THEN stored[s] ELSE 0
    OBVIOUS
  <2> HIDE DEF new
  <2>3. \A q \in Runners : /\ command'[q] = IF q = r THEN "write" ELSE command[q]
                           /\ page'[q] = IF q = r THEN new ELSE page[q]
    BY <1>0, <2>1, CommandIs DEF IndexTypeOK
  <2>4. OnPage(r)' \subseteq NextPage(r)
    BY <2>2, <2>3 DEF OnPage
  <2>5. \A s \in OnPage(r)' : s > lastId[r]
    BY <2>4 DEF NextPage, Rest
  <2>6. ASSUME NEW s \in Segments, NEW q \in OnPage(r)', lastId[r] < s, s <= q PROVE new[s] = stored[s]
    <3>1. CASE s \in NextPage(r)
      BY <2>2, <3>1
    <3>2. CASE s \notin NextPage(r)
      <4>1. q \in NextPage(r) /\ q \in Rest(r) /\ q \in Nat
        BY <1>0, <2>4, Pages, IndexAssumption
      <4>2. ASSUME s \in Rest(r) PROVE FALSE
        <5> DEFINE A == {x \in Rest(r) : x < s}
        <5> DEFINE B == {x \in Rest(r) : x < q}
        <5>1. A \in SUBSET B
          <6>1. \A x \in Rest(r) : x \in Nat
            BY <1>0, Pages, IndexAssumption
          <6>2. s \in Nat /\ s <= q
            BY <1>2, <2>6
          <6>3. \A x \in Rest(r) : x < s => x < q
            BY <4>1, <6>1, <6>2
          <6> QED  BY <6>3
        <5>2. IsFiniteSet(B)
          <6>1. B \in SUBSET Segments
            BY <1>0, Pages
          <6> QED  BY <6>1, IndexAssumption, FS_Subset
        <5>3. Cardinality(A) <= Cardinality(B) /\ IsFiniteSet(A)
          BY <5>1, <5>2, FS_Subset
        <5>4. Cardinality(A) \in Nat /\ Cardinality(B) \in Nat
          BY <5>2, <5>3, FS_CardinalityType
        <5>5. Cardinality(B) < PageSize
          BY <4>1 DEF NextPage
        <5> HIDE DEF A, B
        <5>6. Cardinality(A) < PageSize
          BY <5>3, <5>4, <5>5, IndexAssumption
        <5> QED  BY <3>2, <4>2, <5>6 DEF NextPage, A
      <4>3. stored[s] = 0
        BY <1>2, <2>6, <4>2 DEF Rest
      <4> QED  BY <2>2, <3>2, <4>3
    <3> QED  BY <3>1, <3>2
  <2>7. FillOf(r)'
    <3>1. /\ \A s \in Segments : s > lastId[r] => docs[target[r]][s] = 0
          /\ ~failed[r] => \A s \in Segments : s <= lastId[r] => ~Lacks(target[r], s)
      BY <1>0, <1>1 DEF FillOf
    <3>2. \A s \in Segments, q \in OnPage(r)' :
            lastId[r] < s /\ s <= q => page'[r][s] = stored[s]
      BY <2>3, <2>6
    <3> QED  BY <1>1, <2>3, <2>5, <3>1, <3>2 DEF FillOf, Lacks
  <2> QED  BY <1>1, <2>3, <2>7, FilledIdle
<1> QED  BY <1>a, <1>b

\* Documents written to an index that only r fills.
LEMMA FilledTaking ==
    ASSUME IndexForm, Order, Filled, NEW r \in Runners, command[r] \in {"fill", "write"},
           NEW done \in SUBSET OnPage(r), Takes(target[r], page[r], done),
           UNCHANGED <<stored, since, served>>
    PROVE  /\ \A i \in served, s \in Segments : ~Lacks(i, s)'
           /\ \A q \in Runners \ {r} : command[q] \in Rebuilding => docs'[target[q]] = docs[target[q]]
           /\ \A s \in Segments : docs'[target[r]][s] = IF s \in done THEN page[r][s] ELSE docs[target[r]][s]
<1>0. IndexTypeOK /\ command[r] \in Rebuilding
  BY DEF IndexForm, Rebuilding
<1> DEFINE t == target[r]
<1>1. t \in Versions /\ t \notin served
  BY <1>0, OwnIndex
<1>2. \A j \in Versions, s \in Segments :
        docs'[j][s] = IF j = t /\ s \in done THEN page[r][s] ELSE docs[j][s]
  BY <1>0, <1>1, Pages, Taking
<1>3. \A j \in Versions : j # t => docs'[j] = docs[j]
  BY <1>0, <1>1 DEF Takes, IndexTypeOK
<1> HIDE DEF t
<1>4. \A i \in served, s \in Segments : ~Lacks(i, s)'
  <2> SUFFICES ASSUME NEW i \in served, NEW s \in Segments PROVE ~Lacks(i, s)'
    OBVIOUS
  <2>1. ~Lacks(i, s) /\ i \in Versions /\ i # t
    BY <1>1, ServedAre DEF Filled
  <2> QED  BY <1>3, <2>1 DEF Lacks
<1>5. \A q \in Runners \ {r} : command[q] \in Rebuilding => docs'[target[q]] = docs[target[q]]
  BY <1>0, <1>3, OwnIndex DEF t
<1> QED  BY <1>1, <1>2, <1>4, <1>5 DEF t

LEMMA FilledWritePage ==
    ASSUME IndexForm, Order, Filled, NEW r \in Runners, WritePage(r)
    PROVE  Filled'
<1>0. IndexTypeOK /\ StepOf(r) /\ FillOf(r)
  BY DEF IndexForm, Filled
<1>1. /\ command[r] = "write" /\ Becomes(r, "fill") /\ page' = [page EXCEPT ![r] = NoRows]
      /\ lastId' = [lastId EXCEPT ![r] = Max(OnPage(r))]
      /\ UNCHANGED <<stored, target, since, served>>
  BY DEF WritePage, history
<1>2. PICK done \in SUBSET OnPage(r) :
        /\ Takes(target[r], page[r], done)
        /\ IF done = OnPage(r) THEN failed' = failed ELSE failed' = [failed EXCEPT ![r] = TRUE]
  BY DEF WritePage
<1> DEFINE t == target[r]
<1> DEFINE last == Max(OnPage(r))
<1>3. last \in OnPage(r) /\ \A s \in OnPage(r) : s <= last
  BY <1>0, <1>1, Pages, LargestSegment DEF StepOf
<1>4. /\ \A i \in served, s \in Segments : ~Lacks(i, s)'
      /\ \A q \in Runners \ {r} : command[q] \in Rebuilding => docs'[target[q]] = docs[target[q]]
      /\ \A s \in Segments : docs'[t][s] = IF s \in done THEN page[r][s] ELSE docs[t][s]
  BY <1>1, <1>2, FilledTaking
<1> HIDE DEF last, t
<1>5. \A q \in Runners : /\ command'[q] = IF q = r THEN "fill" ELSE command[q]
                         /\ lastId'[q] = IF q = r THEN last ELSE lastId[q]
                         /\ q # r => page'[q] = page[q] /\ failed'[q] = failed[q]
                         /\ ~failed'[r] => ~failed[r] /\ done = OnPage(r)
  BY <1>0, <1>1, <1>2, CommandIs DEF IndexTypeOK, last
<1>6. ASSUME NEW q \in Runners \ {r} PROVE FillOf(q)'
  BY <1>1, <1>4, <1>5, FillKept
<1>7. /\ \A s \in Segments : s \in Nat
      /\ last \in Nat /\ lastId[r] \in Nat /\ lastId[r] < last /\ OnPage(r) \in SUBSET Segments
  <2>1. \A s \in Segments : s \in Nat
    BY IndexAssumption
  <2>2. lastId[r] \in Nat
    <3>1. lastId \in [Runners -> Segments \cup {0}]
      BY <1>0 DEF IndexTypeOK
    <3>2. Segments \cup {0} \subseteq Nat
      BY IndexAssumption
    <3> QED  BY <3>1, <3>2
  <2>3. OnPage(r) \in SUBSET Segments
    BY <1>0, Pages
  <2>4. last > lastId[r]
    BY <1>0, <1>1, <1>3 DEF FillOf
  <2> QED  BY <1>3, <2>1, <2>2, <2>3, <2>4
<1>8. \A s \in Segments : s > last => docs'[t][s] = 0
  <2> SUFFICES ASSUME NEW s \in Segments, s > last PROVE docs'[t][s] = 0
    OBVIOUS
  <2>1. s \notin OnPage(r) /\ s > lastId[r]
    BY <1>3, <1>7
  <2>2. docs[t][s] = 0
    BY <1>0, <1>1, <2>1 DEF FillOf, t
  <2> QED  BY <1>4, <2>1, <2>2
<1>9. ASSUME ~failed'[r], NEW s \in Segments, s <= last PROVE docs'[t][s] # stored[s] => s \in since[t]
  <2>1. ~failed[r] /\ done = OnPage(r)
    BY <1>5, <1>9
  <2>2. CASE s <= lastId[r]
    <3>1. s \notin OnPage(r)
      BY <1>0, <1>1, <1>7, <2>2 DEF FillOf
    <3>2. ~Lacks(t, s)
      BY <1>0, <1>1, <2>1, <2>2 DEF FillOf, t
    <3> QED  BY <1>4, <2>1, <3>1, <3>2 DEF Lacks
  <2>3. CASE ~(s <= lastId[r])
    <3>1. lastId[r] < s
      BY <1>7, <2>3
    <3>2. page[r][s] # stored[s] => s \in since[t]
      BY <1>0, <1>1, <1>3, <1>9, <3>1 DEF FillOf, t
    <3>3. docs'[t][s] = page[r][s]
      <4>1. CASE s \in OnPage(r)
        BY <1>4, <2>1, <4>1
      <4>2. CASE s \notin OnPage(r)
        <5>1. page[r][s] = 0
          <6>1. page[r][s] \in 0 .. MaxEdits /\ ~(page[r][s] > 0)
            BY <1>0, <4>2 DEF IndexTypeOK, OnPage
          <6> QED  BY <6>1, IndexAssumption
        <5>2. docs[t][s] = 0
          BY <1>0, <1>1, <1>7, <3>1 DEF FillOf, t
        <5> QED  BY <1>4, <2>1, <4>2, <5>1, <5>2
      <4> QED  BY <4>1, <4>2
    <3> QED  BY <3>2, <3>3
  <2> QED  BY <2>2, <2>3
<1>10. FillOf(r)'
  <2>1. ~failed'[r] => \A s \in Segments : s <= last => ~Lacks(t, s)'
    BY <1>1, <1>9 DEF Lacks, t
  <2> QED  BY <1>1, <1>5, <1>8, <2>1 DEF FillOf, t
<1> QED  BY <1>1, <1>4, <1>6, <1>10 DEF Filled

LEMMA FilledFails ==
    ASSUME IndexForm, Order, Filled, NEW r \in Runners, FillFails(r)
    PROVE  Filled'
<1>0. IndexTypeOK
  BY DEF IndexForm
<1>1. /\ command[r] \in {"fill", "write"} /\ Becomes(r, "drop") /\ page' = [page EXCEPT ![r] = NoRows]
      /\ UNCHANGED <<stored, target, lastId, failed, since, served>>
  BY DEF FillFails, history
<1>2. \A q \in Runners : /\ command'[q] = IF q = r THEN "drop" ELSE command[q]
                         /\ q # r => page'[q] = page[q]
  BY <1>0, <1>1, CommandIs DEF IndexTypeOK
<1>3. FillOf(r)'
  BY <1>2 DEF FillOf
<1>a. CASE docs' = docs
  BY <1>1, <1>2, <1>3, <1>a, FilledIdle
<1>b. ASSUME NEW done \in SUBSET OnPage(r), Takes(target[r], page[r], done) PROVE Filled'
  <2>1. /\ \A i \in served, s \in Segments : ~Lacks(i, s)'
        /\ \A q \in Runners \ {r} : command[q] \in Rebuilding => docs'[target[q]] = docs[target[q]]
    BY <1>1, <1>b, FilledTaking
  <2>2. ASSUME NEW q \in Runners \ {r} PROVE FillOf(q)'
    BY <1>1, <1>2, <2>1, FillKept
  <2> QED  BY <1>1, <1>3, <2>1, <2>2 DEF Filled
<1> QED  BY <1>a, <1>b DEF FillFails, search

\* An index that goes live has every row of the time it was begun.
LEMMA FilledSwap ==
    ASSUME IndexForm, Order, Filled, NEW r \in Runners, Swap(r), MovesAlias(r), ~mishap'
    PROVE  Filled'
<1>0. IndexTypeOK /\ FillOf(r)
  BY DEF IndexForm, Filled
<1>1. /\ command[r] = "swap" /\ Becomes(r, "idle") /\ served' = served \cup {target[r]}
      /\ UNCHANGED <<stored, docs, target, lastId, page, failed, since>>
  BY DEF Swap
<1>2. \A q \in Runners : command'[q] = IF q = r THEN "idle" ELSE command[q]
  BY <1>0, <1>1, CommandIs
<1>3. \A s \in Segments : ~Lacks(target[r], s)
  BY <1>0, <1>1 DEF FillOf
<1>4. \A i \in served', s \in Segments : ~Lacks(i, s)'
  BY <1>1, <1>3 DEF Filled, Lacks
<1>5. ASSUME NEW q \in Runners \ {r} PROVE FillOf(q)'
  BY <1>1, <1>2, FillKept
<1>6. FillOf(r)'
  BY <1>2 DEF FillOf
<1> QED  BY <1>4, <1>5, <1>6 DEF Filled

\* An index goes that nobody else fills.
LEMMA FilledDeleting ==
    ASSUME IndexForm, Order, Filled, NEW r \in Runners, NEW i \in Versions, DeleteIndex(i),
           UNCHANGED <<stored, target, lastId, page, failed>>,
           \A q \in Runners \ {r} : command'[q] = command[q] /\ (command[q] \in Rebuilding => target[q] # i),
           command'[r] \in {"idle", "delete"}
    PROVE  Filled'
<1>0. IndexTypeOK
  BY DEF IndexForm
<1>1. \A j \in Versions : j # i => docs'[j] = docs[j] /\ since'[j] = since[j]
  BY <1>0, Deleting
<1>2. served' = served \ {i}
  BY DEF DeleteIndex
<1>3. \A j \in served', s \in Segments : ~Lacks(j, s)'
  <2> SUFFICES ASSUME NEW j \in served', NEW s \in Segments PROVE ~Lacks(j, s)'
    OBVIOUS
  <2>1. ~Lacks(j, s) /\ j \in Versions /\ j # i
    BY <1>2, ServedAre DEF Filled
  <2> QED  BY <1>1, <2>1 DEF Lacks
<1>4. ASSUME NEW q \in Runners \ {r} PROVE FillOf(q)'
  <2>1. command[q] \in Rebuilding => target[q] \in Versions /\ target[q] # i
    BY OwnIndex
  <2>2. command[q] \in Rebuilding => docs'[target[q]] = docs[target[q]] /\ since'[target[q]] = since[target[q]]
    BY <1>1, <2>1
  <2> QED  BY <2>2, FillKept
<1>5. FillOf(r)'
  BY DEF FillOf
<1> QED  BY <1>3, <1>4, <1>5 DEF Filled

LEMMA FilledDrop ==
    ASSUME IndexForm, Order, Filled, NEW r \in Runners, Drop(r) \/ cleanupOldIndices(r)
    PROVE  Filled'
<1>0. IndexTypeOK /\ StepOf(r)
  BY DEF IndexForm
<1>a. CASE Drop(r)
  <2>1. /\ command[r] = "drop" /\ Becomes(r, "idle")
        /\ UNCHANGED <<stored, target, lastId, page, failed>>
    BY <1>a DEF Drop
  <2>2. \A q \in Runners : command'[q] = IF q = r THEN "idle" ELSE command[q]
    BY <1>0, <2>1, CommandIs
  <2>3. CASE UNCHANGED <<search, since, served>>
    <3>1. FillOf(r)'
      BY <2>2 DEF FillOf
    <3> QED  BY <2>1, <2>2, <2>3, <3>1, FilledIdle DEF search
  <2>4. CASE DeleteIndex(target[r])
    <3>1. /\ target[r] \in Versions
          /\ \A q \in Runners \ {r} : command[q] \in Rebuilding => target[q] # target[r]
      BY <2>1, OwnIndex DEF Rebuilding
    <3> QED  BY <2>1, <2>2, <2>4, <3>1, FilledDeleting
  <2> QED  BY <1>a, <2>3, <2>4 DEF Drop
<1>b. CASE cleanupOldIndices(r)
  <2>1. PICK i \in toDelete[r], left \in SUBSET Versions :
          /\ i \in Versions /\ command[r] = "delete" /\ DeleteIndex(i)
          /\ \A q \in Runners :
               command'[q] = IF q = r THEN IF left = {} THEN "idle" ELSE "delete" ELSE command[q]
          /\ UNCHANGED <<stored, target, lastId, page, failed>>
    BY <1>b, CleanupStep
  <2>2. \A q \in Runners \ {r} : command[q] = "idle"
    BY <2>1 DEF Order, OrderOf
  <2>3. \A q \in Runners \ {r} : command'[q] = command[q] /\ (command[q] \in Rebuilding => target[q] # i)
    BY <2>1, <2>2 DEF Rebuilding
  <2>4. command'[r] \in {"idle", "delete"}
    BY <2>1
  <2> QED  BY <2>1, <2>3, <2>4, FilledDeleting
<1> QED  BY <1>a, <1>b

LEMMA FilledNext ==
    ASSUME IndexForm, Order, Filled, [IndexNext]_ivars, ~mishap'
    PROVE  Filled'
<1>1. ASSUME NEW r \in Runners,
             \/ resolvePhysicalIndex(r) \/ CreateTarget(r) \/ ReadPage(r) \/ WritePage(r)
             \/ FillFails(r) \/ Swap(r) \/ SwapFails(r) \/ Drop(r)
             \/ ListPrevious(r) \/ rollbackAlias(r) \/ ListOthers(r) \/ cleanupOldIndices(r)
             \/ CommandDies(r)
      PROVE  Filled'
  BY <1>1, FilledLists, FilledCreate, FilledReadPage, FilledWritePage, FilledFails, FilledSwap, FilledDrop
<1>2. ASSUME NEW s \in Segments, SiteStep(s) PROVE Filled'
  BY <1>2, FilledEdit, FilledReads, FilledWrites DEF SiteStep
<1>3. CASE UNCHANGED ivars
  BY <1>3 DEF ivars, search, runners, history, Filled, FillOf, Lacks, OnPage
<1> QED  BY <1>1, <1>2, <1>3 DEF IndexNext

-----------------------------------------------------------------------------
(* The theorems. *)

IndexInv == IndexForm /\ (~mishap => Order /\ Filled)

\* A mishap is not forgotten.
LEMMA MishapStays == [IndexNext]_ivars /\ IndexForm => (mishap => mishap')
<1> SUFFICES ASSUME [IndexNext]_ivars, IndexForm, mishap PROVE mishap'
  OBVIOUS
<1>1. mishap = TRUE
  BY DEF IndexForm, IndexTypeOK
<1> QED  BY <1>1 DEF IndexNext, ivars, history, SiteStep, EditRow, SyncReads, SyncWrites, resolvePhysicalIndex, CreateTarget, ReadPage,
     WritePage, FillFails, Swap, SwapFails, Drop, ListPrevious, rollbackAlias, ListOthers,
     cleanupOldIndices, CommandDies

LEMMA IndexIsInvariant == IndexSpec => []IndexInv
<1>1. IndexInit => IndexInv
  BY FormInit, OrderInit, FilledInit DEF IndexInv
<1>2. IndexInv /\ [IndexNext]_ivars => IndexInv'
  BY FormNext, OrderNext, FilledNext, MishapStays DEF IndexInv
<1> QED  BY <1>1, <1>2, PTL DEF IndexSpec

\* AliasIsServed (elasticsearch.ts, SegmentIndexer.reindex): the index search is on has
\* the schema, and lacks only what was edited since it was created, or undone by a job
\* that had read the row before an edit.
THEOREM SearchIsServed == IndexSpec => []AliasIsServed
<1>1. IndexInv => AliasIsServed
  BY DEF IndexInv, AliasIsServed, Order, Filled, Lacks
<1> QED  BY <1>1, IndexIsInvariant, PTL

\* RollbackServesWhatWasServed (rollbackAlias): going back never puts the alias on an
\* index that a rebuild left half filled, or is filling.
THEOREM RollbackIsToServed == IndexSpec => RollbackServesWhatWasServed
<1>1. ASSUME IndexInv, [IndexNext]_ivars, NEW r \in Runners,
             command[r] = "rollback", command'[r] = "idle", alias' # alias, ~mishap
      PROVE  alias' \in served
  <2>0. IndexForm /\ Order /\ IndexTypeOK
    BY <1>1 DEF IndexInv, IndexForm
  <2>1. target[r] \in served
    BY <1>1, <2>0 DEF Order, OrderOf
  <2>2. ~UNCHANGED ivars
    BY <1>1 DEF ivars, search
  <2>3. ~\E s \in Segments : SiteStep(s)
    BY <1>1 DEF SiteStep, EditRow, SyncReads, SyncWrites, search, history
  <2>4. PICK q \in Runners :
             \/ resolvePhysicalIndex(q) \/ CreateTarget(q) \/ ReadPage(q) \/ WritePage(q)
             \/ FillFails(q) \/ Swap(q) \/ SwapFails(q) \/ Drop(q)
             \/ ListPrevious(q) \/ rollbackAlias(q) \/ ListOthers(q) \/ cleanupOldIndices(q)
             \/ CommandDies(q)
    BY <1>1, <2>2, <2>3 DEF IndexNext
  <2>5. \E step : Becomes(q, step)
    BY <2>4 DEF resolvePhysicalIndex, CreateTarget, ReadPage, WritePage, FillFails, Swap, SwapFails, Drop,
       ListPrevious, rollbackAlias, ListOthers, cleanupOldIndices, CommandDies
  <2>6. q = r
    BY <1>1, <2>0, <2>5, CommandIs
  <2>7. rollbackAlias(r) \/ CommandDies(r)
    BY <1>1, <2>4, <2>6 DEF resolvePhysicalIndex, CreateTarget, ReadPage, WritePage, FillFails, Swap, SwapFails,
       Drop, ListPrevious, ListOthers, cleanupOldIndices
  <2> QED  BY <1>1, <2>1, <2>7 DEF rollbackAlias, CommandDies, search
<1>2. IndexInv /\ [IndexNext]_ivars =>
        [\A r \in Runners :
           command[r] = "rollback" /\ command'[r] = "idle" /\ alias' # alias /\ ~mishap
           => alias' \in served]_ivars
  BY <1>1
<1> QED  BY <1>2, IndexIsInvariant, PTL DEF IndexSpec, RollbackServesWhatWasServed
=============================================================================
