----------------------- MODULE PrivacyResidue_proofs -----------------------
(***************************************************************************)
(* Proofs about PrivacyResidue, for any set of rows, clients and number of *)
(* crashes: the scrub clears the tables for good although its three        *)
(* statements are no transaction, and it keeps every client's answer.      *)
(***************************************************************************)
EXTENDS PrivacyResidue, TLAPS

USE DEF told

Types ==
  /\ row \in [Row -> {None} \cup UNION {Rows(r) : r \in Row}]
  /\ \A r \in Row : row[r] # None => row[r] \in Rows(r)
  /\ eventText \in SUBSET Row
  /\ pc \in [Scrubber -> {"idle", "tasks", "events", "errors", "complete"}]
  /\ answered \in [Client -> Row \cup {None}] /\ former \in [Client -> Row \cup {None}]

(* The scrub task: it has spent no attempt before it first runs, and never *)
(* more than it may.                                                       *)
TaskInv ==
  /\ task \in [status : {None, "QUEUED"} \cup Statuses, attempts : 0 .. MaxAttempts]
  /\ task.status \in {None, "QUEUED"} => task.attempts = 0
  /\ errorText \in BOOLEAN /\ scrubbed \in BOOLEAN
  /\ report \in {"idle", "warned", "ok"} /\ crashes \in 0 .. MaxCrashes

(* A key belongs to one row, a replaced one to the row it names, and a     *)
(* result to a row that is complete.                                       *)
KeysFit ==
  /\ Unique(row)
  /\ \A r, s \in Row : row[r] # None /\ row[r].key = Scrubbed(s) => r = s
  /\ \A r \in Row : row[r] # None => (row[r].status = "COMPLETED" <=> row[r].result # None)

(* What a client was told of under its own id never gets a hashed key.     *)
FormerKeys ==
  \A c \in Client : former[c] # None =>
    row[former[c]] # None /\ \A d \in Client : row[former[c]].key # Hashed(d)

(* The first half of AnswersKept.                                          *)
AnswersSame == \A c \in Client : AnswerOf(row, c) = answered[c]

(* What the scrub leaves in tasks, and no later statement undoes.          *)
RowsClean == \A r \in Row : row[r] # None => ~Private(row[r]) /\ row[r].key \notin {Raw(c) : c \in Client}

(* What a run of the scrub has cleared up to its next statement.           *)
Cleared ==
  /\ \A s \in Scrubber :
       /\ pc[s] \in {"events", "errors", "complete"} => RowsClean
       /\ pc[s] \in {"errors", "complete"} => eventText = {}
       /\ pc[s] = "complete" => ~errorText
  /\ scrubbed => NothingPrivate

IInv == Types /\ TaskInv /\ KeysFit /\ Cleared /\ AnswersSame /\ FormerKeys

---------------------------------------------------------------------------
(* The keys.                                                               *)

(* Keys of different kinds, or of different clients or rows, differ, and   *)
(* so does a missing one.                                                  *)
LEMMA KeysDiffer ==
  ASSUME NEW c \in Client, NEW d \in Client, NEW r \in Row, NEW s \in Row
  PROVE  /\ Hashed(c) # Raw(d) /\ Hashed(c) # Scrubbed(r) /\ Raw(c) # Scrubbed(r)
         /\ Hashed(c) # None /\ Raw(c) # None /\ Scrubbed(r) # None
         /\ Hashed(c) = Hashed(d) => c = d
         /\ Scrubbed(r) = Scrubbed(s) => r = s
<1>1. Hashed(c) # None /\ Raw(c) # None /\ Scrubbed(r) # None
  BY NullAssumption
<1> QED BY <1>1 DEF Hashed, Raw, Scrubbed

(* The key a scrubbed row gets: a hashed one stays, a missing one is       *)
(* still missing, and any other names its row.                             *)
LEMMA NewKeys ==
  ASSUME NEW r \in Row, row[r].key \in Keys
  PROVE  /\ NewKey(r) \in HashedKeys \cup {None, Scrubbed(r)}
         /\ \A c \in Client : NewKey(r) = Hashed(c) <=> row[r].key = Hashed(c)
         /\ NewKey(r) = None <=> row[r].key = None
<1>1. CASE row[r].key \in HashedKeys \cup {None}
  BY <1>1 DEF NewKey
<1>2. CASE row[r].key \notin HashedKeys \cup {None}
  <2>1. NewKey(r) = Scrubbed(r)
    BY <1>2 DEF NewKey
  <2>2. Scrubbed(r) # None
    BY NullAssumption
  <2>3. \A c \in Client : Scrubbed(r) # Hashed(c)
    BY DEF Scrubbed, Hashed
  <2> QED BY <1>2, <2>1, <2>2, <2>3 DEF HashedKeys
<1> QED BY <1>1, <1>2

(* A row of its type, field by field.                                      *)
LEMMA Fields ==
  ASSUME NEW r \in Row, NEW x \in Rows(r)
  PROVE  /\ x = [key |-> x.key, text |-> x.text, result |-> x.result, status |-> x.status]
         /\ x.key \in Keys /\ x.text \in Texts /\ x.status \in Statuses
         /\ x.result # None => x.result.text \in Texts /\ x.result = Result(x.result.text, r)
         /\ x # None
<1>1. x # None
  BY NullAssumption
<1>2. x.result # None => x.result.text \in Texts /\ x.result = Result(x.result.text, r)
  BY DEF Rows, Result
<1> QED BY <1>1, <1>2 DEF Rows

---------------------------------------------------------------------------
(* What a step does to the rows.                                           *)

LEMMA CleanRow ==
  ASSUME NEW r \in Row, row[r] \in Rows(r)
  PROVE  /\ Cleaned(r) \in Rows(r) /\ Cleaned(r) # None
         /\ Cleaned(r).text = "public" /\ Cleaned(r).key = NewKey(r)
         /\ Cleaned(r).status = row[r].status
         /\ Cleaned(r).result = None <=> row[r].result = None
         /\ Cleaned(r).result # None => Cleaned(r).result = Result("public", r)
<1>1. /\ row[r].key \in Keys /\ row[r].status \in Statuses
      /\ row[r].result # None => row[r].result = Result(row[r].result.text, r)
  BY Fields
<1>2. NewKey(r) \in Keys
  BY <1>1, NewKeys DEF Keys
<1>3. row[r].result # None => row[r].result.order = r
  BY <1>1 DEF Result
<1>4. None # Result("public", r)
  BY NullAssumption DEF Texts
<1>5. Cleaned(r) \in Rows(r)
  BY <1>1, <1>2, <1>3 DEF Rows, Texts, Cleaned
<1>6. Cleaned(r) # None
  BY <1>5, NullAssumption
<1> QED BY <1>3, <1>4, <1>5, <1>6 DEF Cleaned

(* Only a request, its end and the scrub write the rows.                   *)
LEMMA RowMoves ==
  ASSUME [Next]_vars
  PROVE  \/ \E c \in Client \cup {None}, r \in Row : Submit(c, r)
         \/ \E r \in Row : Complete(r) \/ Abandon(r)
         \/ \E s \in Scrubber : ScrubTasks(s)
         \/ UNCHANGED <<row, answered>>
BY DEF told, Next, ScrubStep, ScrubEvents, ScrubErrors, Crash, RecordError, RunScript, Count, Enqueue,
       RunTask, FinishTask, FailTask, vars, tables

LEMMA FormerStays == [Next]_vars => former' = former
BY DEF Next, ScrubStep, ScrubTasks, ScrubEvents, ScrubErrors, Crash, RecordError, RunScript, Count,
       Enqueue, RunTask, FinishTask, FailTask, vars, tables, Submit, Complete, Abandon

(* Text enters no table any more, as what is stored is public; the scrub   *)
(* empties the other two.                                                  *)
LEMMA EventMoves ==
  ASSUME [Next]_vars
  PROVE  (eventText' = eventText \/ eventText' = {}) /\ (errorText' = errorText \/ errorText' = FALSE)
<1>1. ASSUME NEW r \in Row, Complete(r) PROVE UNCHANGED <<eventText, errorText>>
  BY <1>1 DEF Complete, PublicResult
<1>2. ASSUME RecordError PROVE eventText' = eventText /\ (errorText' = errorText \/ errorText' = FALSE)
  BY <1>2 DEF RecordError, SanitizedError
<1> QED BY <1>1, <1>2 DEF Next, ScrubStep, ScrubTasks, ScrubEvents, ScrubErrors, Crash, RunScript, Count,
          Enqueue, RunTask, FinishTask, FailTask, vars, tables, Submit, Abandon

---------------------------------------------------------------------------
(* The initial state.                                                      *)

LEMMA InitTypes == Init => Types /\ KeysFit
<1> SUFFICES ASSUME Init PROVE Types /\ KeysFit
  OBVIOUS
<1>1. \A r \in Row : row[r] # None => row[r] \in LegacyRows(r)
  BY DEF Init
<1>2. row \in [Row -> {None} \cup UNION {Rows(r) : r \in Row}]
  BY DEF Init, LegacyRows
<1>3. pc \in [Scrubber -> {"idle", "tasks", "events", "errors", "complete"}] /\ eventText \in SUBSET Row
  BY ResidueAssumption DEF Init
<1>4. \A c \in Client : AnswerOf(row, c) \in Row \cup {None}
  BY DEF AnswerOf, DoneUnder
<1>9. \A c \in Client : DoneUnder(row, Raw(c)) \in Row \cup {None}
  BY DEF DoneUnder
<1>5. Types
  BY <1>1, <1>2, <1>3, <1>4, <1>9 DEF Types, LegacyRows, Init
<1>6. Unique(row)
  BY DEF Init
<1>7. \A r, s \in Row : row[r] # None => row[r].key # Scrubbed(s)
  <2> SUFFICES ASSUME NEW r \in Row, NEW s \in Row, row[r] # None PROVE row[r].key # Scrubbed(s)
    OBVIOUS
  <2>1. row[r].key \in HashedKeys \cup {Raw(c) : c \in Client} \cup {None}
    BY <1>1 DEF LegacyRows
  <2> QED BY <2>1, NullAssumption DEF HashedKeys, Hashed, Raw, Scrubbed
<1>8. \A r \in Row : row[r] # None => (row[r].status = "COMPLETED" <=> row[r].result # None)
  BY <1>1 DEF LegacyRows
<1> QED BY <1>5, <1>6, <1>7, <1>8 DEF KeysFit

LEMMA InitCleared == Init => Cleared /\ AnswersSame
BY DEF Init, Cleared, AnswersSame, Scrubber

LEMMA InitFormer == Init => FormerKeys
<1> SUFFICES ASSUME Init, NEW c \in Client, former[c] # None
             PROVE  row[former[c]] # None /\ \A d \in Client : row[former[c]].key # Hashed(d)
  BY DEF FormerKeys
<1>1. row[former[c]] # None /\ row[former[c]].key = Raw(c)
  BY DEF Init, DoneUnder
<1> QED BY <1>1 DEF Raw, Hashed

---------------------------------------------------------------------------
(* Types.                                                                  *)

LEMMA TypesStep ==
  ASSUME Types, [Next]_vars
  PROVE  Types'
<1>1. DOMAIN row' = Row /\ \A r \in Row : row'[r] # None => row'[r] \in Rows(r)
  <2>1. ASSUME NEW c \in Client \cup {None}, NEW r \in Row, Submit(c, r)
        PROVE  DOMAIN row' = Row /\ \A q \in Row : row'[q] # None => row'[q] \in Rows(q)
    <3> DEFINE x == [key |-> IF c = None THEN None ELSE Hashed(c), text |-> Sanitized,
                     result |-> None, status |-> "RUNNING"]
    <3>1. x \in Rows(r)
      BY DEF Rows, Keys, HashedKeys, Statuses, Texts, Sanitized
    <3>2. row' = [row EXCEPT ![r] = x]
      BY <2>1 DEF Submit
    <3> HIDE DEF x
    <3> QED BY <3>1, <3>2 DEF Types
  <2>2. ASSUME NEW r \in Row, Complete(r)
        PROVE  DOMAIN row' = Row /\ \A q \in Row : row'[q] # None => row'[q] \in Rows(q)
    <3>1. row[r] \in Rows(r)
      BY <2>2 DEF Complete, Types
    <3>2. row' = [row EXCEPT ![r] = [row[r] EXCEPT !.result = Result(PublicResult, r), !.status = "COMPLETED"]]
      BY <2>2, Zenon DEF Complete
    <3>3. [row[r] EXCEPT !.result = Result(PublicResult, r), !.status = "COMPLETED"] \in Rows(r)
      BY <3>1 DEF Rows, Statuses, Texts, PublicResult
    <3> QED BY <3>2, <3>3 DEF Types
  <2>3. ASSUME NEW r \in Row, Abandon(r)
        PROVE  DOMAIN row' = Row /\ \A q \in Row : row'[q] # None => row'[q] \in Rows(q)
    <3>1. row[r] \in Rows(r)
      BY <2>3 DEF Abandon, Types
    <3>2. [row[r] EXCEPT !.status = "FAILED"] \in Rows(r)
      BY <3>1 DEF Rows, Statuses
    <3> QED BY <2>3, <3>2 DEF Types, Abandon
  <2>4. ASSUME NEW s \in Scrubber, ScrubTasks(s)
        PROVE  DOMAIN row' = Row /\ \A q \in Row : row'[q] # None => row'[q] \in Rows(q)
    BY <2>4, CleanRow DEF ScrubTasks, TaskResidue, Types
  <2> QED BY <2>1, <2>2, <2>3, <2>4, RowMoves DEF Types
<1>2. row' \in [Row -> {None} \cup UNION {Rows(r) : r \in Row}]
  <2>1. \A r \in Row : row'[r] \in {None} \cup UNION {Rows(q) : q \in Row}
    BY <1>1
  <2>2. row' = [r \in Row |-> row'[r]]
    BY RowMoves DEF Submit, Complete, Abandon, ScrubTasks, Types
  <2> HIDE <1>1
  <2> QED BY <2>1, <2>2
<1>3. eventText' \in SUBSET Row
  BY EventMoves DEF Types
<1>4. pc' \in [Scrubber -> {"idle", "tasks", "events", "errors", "complete"}]
  BY DEF Next, ScrubStep, ScrubTasks, ScrubEvents, ScrubErrors, Crash, RecordError, RunScript, Count, Enqueue,
       RunTask, FinishTask, FailTask, vars, tables, Submit, Complete, Abandon, Types, Begin
<1>5. answered' \in [Client -> Row \cup {None}]
  <2>1. ASSUME NEW r \in Row, Complete(r) PROVE answered' \in [Client -> Row \cup {None}]
    BY <2>1 DEF Complete, Types
  <2> QED BY <2>1, RowMoves DEF Submit, Abandon, ScrubTasks, Types
<1> QED BY <1>1, <1>2, <1>3, <1>4, <1>5, FormerStays DEF Types

LEMMA TaskInit == Init => TaskInv
<1> SUFFICES ASSUME Init PROVE TaskInv
  OBVIOUS
<1>1. task = [status |-> None, attempts |-> 0] /\ 0 \in 0 .. MaxAttempts /\ 0 \in 0 .. MaxCrashes
  BY ResidueAssumption DEF Init
<1>2. task \in [status : {None, "QUEUED"} \cup Statuses, attempts : 0 .. MaxAttempts]
  BY <1>1
<1>3. task.attempts = 0
  BY <1>1
<1>4. report \in {"idle", "warned", "ok"} /\ crashes \in 0 .. MaxCrashes
  BY <1>1 DEF Init
<1>5. errorText \in BOOLEAN /\ scrubbed \in BOOLEAN
  BY DEF Init
<1> QED BY <1>2, <1>3, <1>4, <1>5 DEF TaskInv

LEMMA TaskStep ==
  ASSUME TaskInv, [Next]_vars
  PROVE  TaskInv'
<1>1. MaxAttempts \in Nat \ {0} /\ MaxCrashes \in Nat
  BY ResidueAssumption
<1>2. CASE RunTask
  <2>1. task.attempts \in 0 .. MaxAttempts /\ task.attempts + 1 \in 0 .. MaxAttempts
    BY <1>1, <1>2 DEF RunTask, Due, TaskInv
  <2>2. task' = [status |-> "RUNNING", attempts |-> task.attempts + 1]
    BY <1>2 DEF RunTask
  <2>3. task'.status = "RUNNING" /\ "RUNNING" \notin {None, "QUEUED"}
    BY <2>2, NullAssumption DEF Statuses
  <2>4. task' \in [status : {None, "QUEUED"} \cup Statuses, attempts : 0 .. MaxAttempts]
    BY <2>1, <2>2 DEF Statuses
  <2> QED BY <1>2, <2>3, <2>4 DEF RunTask, TaskInv, tables
<1>3. CASE Enqueue
  BY <1>3 DEF Enqueue, TaskInv, tables
<1>4. CASE FinishTask
  <2>1. task'.status = "COMPLETED" /\ "COMPLETED" \notin {None, "QUEUED"}
    BY <1>4, NullAssumption DEF FinishTask, TaskInv, Statuses
  <2>2. task' \in [status : {None, "QUEUED"} \cup Statuses, attempts : 0 .. MaxAttempts]
    BY <1>4 DEF FinishTask, TaskInv, Statuses
  <2> QED BY <1>4, <2>1, <2>2 DEF FinishTask, TaskInv, tables
<1>5. CASE FailTask
  <2>1. task'.status = "FAILED" /\ "FAILED" \notin {None, "QUEUED"}
    BY <1>5, NullAssumption DEF FailTask, TaskInv, Statuses
  <2>2. task' \in [status : {None, "QUEUED"} \cup Statuses, attempts : 0 .. MaxAttempts]
    BY <1>5 DEF FailTask, TaskInv, Statuses
  <2> QED BY <1>5, <2>1, <2>2 DEF FailTask, TaskInv, tables
<1>6. CASE Count
  BY <1>6 DEF Count, TaskInv, tables
<1>7. ASSUME NEW s \in Scrubber, Crash(s) PROVE TaskInv'
  BY <1>1, <1>7 DEF Crash, TaskInv, tables
<1>8. ASSUME NEW s \in Scrubber, ScrubStep(s) PROVE TaskInv'
  BY <1>8 DEF ScrubStep, ScrubTasks, ScrubEvents, ScrubErrors, TaskInv
<1>9. CASE RecordError
  BY <1>9 DEF RecordError, TaskInv
<1>10. CASE RunScript
  BY <1>10 DEF RunScript, TaskInv, tables
<1>11. ASSUME NEW c \in Client \cup {None}, NEW r \in Row, Submit(c, r) PROVE TaskInv'
  BY <1>11 DEF Submit, TaskInv
<1>12. ASSUME NEW r \in Row, Complete(r) \/ Abandon(r) PROVE TaskInv'
  BY <1>12 DEF Complete, Abandon, TaskInv
<1>13. CASE UNCHANGED vars
  BY <1>13 DEF vars, tables, TaskInv
<1> QED BY <1>2, <1>3, <1>4, <1>5, <1>6, <1>7, <1>8, <1>9, <1>10, <1>11, <1>12, <1>13 DEF Next

---------------------------------------------------------------------------
(* Keys.                                                                   *)

(* Whatever happens to the rows, a row that is there keeps its key or gets *)
(* the one of the scrub, and a result comes with its completion alone.     *)
LEMMA KeysStep ==
  ASSUME Types, KeysFit, [Next]_vars
  PROVE  KeysFit'
<1>1. ASSUME NEW c \in Client \cup {None}, NEW r \in Row, Submit(c, r) PROVE KeysFit'
  <2> DEFINE x == [key |-> IF c = None THEN None ELSE Hashed(c), text |-> Sanitized,
                   result |-> None, status |-> "RUNNING"]
  <2>1. row' = [row EXCEPT ![r] = x]
    BY <1>1 DEF Submit
  <2>2. row'[r] = x /\ \A q \in Row \ {r} : row'[q] = row[q]
    BY <2>1 DEF Types
  <2>3. x.key = (IF c = None THEN None ELSE Hashed(c)) /\ x.result = None /\ x.status = "RUNNING"
    OBVIOUS
  <2>4. \A q \in Row \ {r} : row[q] # None /\ x.key # None => row[q].key # x.key
    BY <1>1, <2>3 DEF Submit
  <2>5. \A q \in Row : x.key # Scrubbed(q)
    BY <2>3, NullAssumption DEF Scrubbed, Hashed
  <2> HIDE DEF x
  <2>6. Unique(row')
    BY <2>2, <2>4 DEF Unique, KeysFit
  <2> QED BY <2>2, <2>3, <2>5, <2>6 DEF KeysFit
<1>2. ASSUME NEW r \in Row, Complete(r) PROVE KeysFit'
  <2>1. row[r] \in Rows(r) /\ Result(PublicResult, r) # None
    BY <1>2, NullAssumption DEF Complete, Types, PublicResult, Texts
  <2>2. /\ row'[r] # None /\ row'[r].key = row[r].key /\ row'[r].status = "COMPLETED"
        /\ row'[r].result = Result(PublicResult, r)
    <3>1. row' = [row EXCEPT ![r] = [row[r] EXCEPT !.result = Result(PublicResult, r), !.status = "COMPLETED"]]
      BY <1>2, Zenon DEF Complete
    <3>2. [row[r] EXCEPT !.result = Result(PublicResult, r), !.status = "COMPLETED"] \in Rows(r)
      BY <2>1 DEF Rows, Statuses, Texts, PublicResult
    <3>3. row'[r] = [row[r] EXCEPT !.result = Result(PublicResult, r), !.status = "COMPLETED"]
      BY <3>1 DEF Types
    <3>4. row'[r] # None
      BY <3>2, <3>3, NullAssumption
    <3> QED BY <2>1, <3>3, <3>4 DEF Rows
  <2>3. \A q \in Row \ {r} : row'[q] = row[q]
    BY <1>2 DEF Complete, Types
  <2>4. row[r] # None
    BY <1>2 DEF Complete
  <2> QED BY <2>1, <2>2, <2>3, <2>4 DEF KeysFit, Unique
<1>3. ASSUME NEW r \in Row, Abandon(r) PROVE KeysFit'
  <2>1. row[r] \in Rows(r) /\ row[r] # None /\ row[r].status = "RUNNING"
    BY <1>3 DEF Abandon, Types
  <2>2. /\ row'[r] # None /\ row'[r].key = row[r].key /\ row'[r].status = "FAILED"
        /\ row'[r].result = row[r].result
    <3>1. [row[r] EXCEPT !.status = "FAILED"] \in Rows(r)
      BY <2>1 DEF Rows, Statuses
    <3>2. row'[r] = [row[r] EXCEPT !.status = "FAILED"]
      BY <1>3 DEF Abandon, Types
    <3> QED BY <2>1, <3>1, <3>2, NullAssumption DEF Rows
  <2>3. \A q \in Row \ {r} : row'[q] = row[q]
    BY <1>3 DEF Abandon, Types
  <2> QED BY <2>1, <2>2, <2>3 DEF KeysFit, Unique
<1>4. ASSUME NEW s \in Scrubber, ScrubTasks(s) PROVE KeysFit'
  <2>1. \A r \in Row : row'[r] = IF r \in TaskResidue THEN Cleaned(r) ELSE row[r]
    BY <1>4 DEF ScrubTasks
  <2>2. ASSUME NEW r \in Row
        PROVE  /\ row'[r] # None <=> row[r] # None
               /\ row[r] # None =>
                    /\ row'[r].key = row[r].key \/ row'[r].key = Scrubbed(r)
                    /\ row'[r].status = row[r].status
                    /\ row'[r].result = None <=> row[r].result = None
    <3>1. CASE r \in TaskResidue
      <4>1. row[r] # None /\ row[r] \in Rows(r)
        BY <3>1 DEF TaskResidue, Types
      <4> QED BY <2>1, <3>1, <4>1, CleanRow DEF NewKey
    <3>2. CASE r \notin TaskResidue
      BY <2>1, <3>2
    <3> QED BY <3>1, <3>2
  <2>3. Unique(row')
    <3> SUFFICES ASSUME NEW r \in Row, NEW q \in Row, row'[r] # None, row'[q] # None,
                        row'[r].key = row'[q].key, r # q
                 PROVE  row'[r].key = None
      BY DEF Unique
    <3>1. \A a \in Row, b \in Row : Scrubbed(a) = Scrubbed(b) => a = b
      BY DEF Scrubbed
    <3> QED BY <2>2, <3>1 DEF KeysFit, Unique
  <2>4. \A r, q \in Row : row'[r] # None /\ row'[r].key = Scrubbed(q) => r = q
    <3>1. \A a \in Row, b \in Row : Scrubbed(a) = Scrubbed(b) => a = b
      BY DEF Scrubbed
    <3> QED BY <2>2, <3>1 DEF KeysFit
  <2> QED BY <2>2, <2>3, <2>4 DEF KeysFit
<1>5. CASE UNCHANGED row
  BY <1>5 DEF KeysFit, Unique
<1> QED BY <1>1, <1>2, <1>3, <1>4, <1>5, RowMoves

---------------------------------------------------------------------------
(* What the scrub has cleared.                                             *)

LEMMA ScrubCleansRows ==
  ASSUME Types, NEW s \in Scrubber, ScrubTasks(s)
  PROVE  RowsClean'
<1> SUFFICES ASSUME NEW r \in Row, row'[r] # None
             PROVE  ~Private(row'[r]) /\ row'[r].key \notin {Raw(c) : c \in Client}
  BY DEF RowsClean
<1>1. row'[r] = IF r \in TaskResidue THEN Cleaned(r) ELSE row[r]
  BY DEF ScrubTasks
<1>2. CASE r \in TaskResidue
  <2>1. row[r] # None /\ row[r] \in Rows(r) /\ row[r].key \in Keys
    BY <1>2, Fields DEF TaskResidue, Types
  <2>2. NewKey(r) \notin {Raw(c) : c \in Client}
    BY <2>1, NewKeys, NullAssumption DEF HashedKeys, Hashed, Raw, Scrubbed
  <2>3. Result("public", r).text = "public"
    BY DEF Result
  <2> QED BY <1>1, <1>2, <2>1, <2>2, <2>3, CleanRow DEF Private
<1>3. CASE r \notin TaskResidue
  BY <1>1, <1>3 DEF TaskResidue, HashedKeys, Hashed, Raw
<1> QED BY <1>2, <1>3

LEMMA RowsStayClean ==
  ASSUME Types, RowsClean, [Next]_vars
  PROVE  RowsClean'
<1>1. ASSUME NEW c \in Client \cup {None}, NEW r \in Row, Submit(c, r) PROVE RowsClean'
  <2> DEFINE x == [key |-> IF c = None THEN None ELSE Hashed(c), text |-> Sanitized,
                   result |-> None, status |-> "RUNNING"]
  <2>1. row'[r] = x /\ \A q \in Row \ {r} : row'[q] = row[q]
    BY <1>1 DEF Submit, Types
  <2>2. ~Private(x) /\ x.key \notin {Raw(d) : d \in Client}
    BY NullAssumption DEF Private, Sanitized, Hashed, Raw
  <2> HIDE DEF x
  <2> QED BY <2>1, <2>2 DEF RowsClean
<1>2. ASSUME NEW r \in Row, Complete(r) PROVE RowsClean'
  <2>1. row[r] \in Rows(r) /\ row[r] # None
    BY <1>2 DEF Complete, Types
  <2>2. row'[r].key = row[r].key /\ row'[r].text = row[r].text /\ row'[r].result = Result(PublicResult, r)
    <3>1. row' = [row EXCEPT ![r] = [row[r] EXCEPT !.result = Result(PublicResult, r), !.status = "COMPLETED"]]
      BY <1>2, Zenon DEF Complete
    <3>3. row'[r] = [row[r] EXCEPT !.result = Result(PublicResult, r), !.status = "COMPLETED"]
      BY <3>1 DEF Types
    <3> QED BY <2>1, <3>3 DEF Rows
  <2>3. \A q \in Row \ {r} : row'[q] = row[q]
    BY <1>2 DEF Complete, Types
  <2>4. Result(PublicResult, r).text = "public"
    BY DEF Result, PublicResult
  <2> QED BY <2>1, <2>2, <2>3, <2>4 DEF RowsClean, Private
<1>3. ASSUME NEW r \in Row, Abandon(r) PROVE RowsClean'
  <2>1. row[r] \in Rows(r) /\ row[r] # None
    BY <1>3 DEF Abandon, Types
  <2>2. row'[r].key = row[r].key /\ row'[r].text = row[r].text /\ row'[r].result = row[r].result
    <3>1. row'[r] = [row[r] EXCEPT !.status = "FAILED"]
      BY <1>3 DEF Abandon, Types
    <3> QED BY <2>1, <3>1 DEF Rows
  <2>3. \A q \in Row \ {r} : row'[q] = row[q]
    BY <1>3 DEF Abandon, Types
  <2> QED BY <2>1, <2>2, <2>3 DEF RowsClean, Private
<1>4. CASE UNCHANGED row
  BY <1>4 DEF RowsClean, Private
<1> QED BY <1>1, <1>2, <1>3, <1>4, ScrubCleansRows, RowMoves

(* The rows are cleared first, then the events, then the errors, and what  *)
(* is cleared stays clear.                                                 *)
LEMMA ClearedStep ==
  ASSUME Types, Cleared, [Next]_vars
  PROVE  Cleared'
<1>1. /\ RowsClean => RowsClean'
      /\ eventText = {} => eventText' = {}
      /\ ~errorText => ~errorText'
  <2>1. RowsClean => RowsClean'
    BY RowsStayClean
  <2>2. eventText = {} => eventText' = {}
    BY EventMoves
  <2>3. ~errorText => ~errorText'
    BY EventMoves, Zenon
  <2> QED BY <2>1, <2>2, <2>3
<1>2. NothingPrivate <=> RowsClean /\ eventText = {} /\ ~errorText
  BY DEF NothingPrivate, RowsClean
<1>3. NothingPrivate' <=> RowsClean' /\ eventText' = {} /\ ~errorText'
  BY DEF NothingPrivate, RowsClean
<1>4. ASSUME NEW s \in Scrubber, ScrubTasks(s) PROVE Cleared'
  <2>1. RowsClean' /\ pc' = [pc EXCEPT ![s] = "events"] /\ scrubbed' = scrubbed
    BY <1>4, ScrubCleansRows DEF ScrubTasks
  <2>2. \A q \in Scrubber : pc'[q] = IF q = s THEN "events" ELSE pc[q]
    BY <2>1 DEF Types
  <2> QED BY <1>1, <1>2, <1>3, <2>1, <2>2 DEF Cleared
<1>5. ASSUME NEW s \in Scrubber, ScrubEvents(s) PROVE Cleared'
  <2>1. pc[s] = "events" /\ pc' = [pc EXCEPT ![s] = "errors"] /\ scrubbed' = scrubbed /\ eventText' = {}
    BY <1>5 DEF ScrubEvents
  <2>2. \A q \in Scrubber : pc'[q] = IF q = s THEN "errors" ELSE pc[q]
    BY <2>1 DEF Types
  <2> QED BY <1>1, <1>2, <1>3, <2>1, <2>2 DEF Cleared
<1>6. ASSUME NEW s \in Scrubber, ScrubErrors(s) PROVE Cleared'
  <2>1. /\ pc[s] = "errors" /\ pc' = [pc EXCEPT ![s] = IF s = "worker" THEN "complete" ELSE "idle"]
        /\ eventText' = eventText /\ ~errorText'
    BY <1>6 DEF ScrubErrors
  <2>2. \A q \in Scrubber : pc'[q] = pc[q] \/ (q = s /\ pc'[q] \in {"complete", "idle"})
    BY <2>1 DEF Types
  <2> QED BY <1>1, <1>2, <1>3, <2>1, <2>2 DEF Cleared
<1>7. CASE /\ scrubbed' = scrubbed
           /\ \A s \in Scrubber : pc'[s] = pc[s] \/ pc'[s] \in {"idle", "tasks"}
  BY <1>1, <1>2, <1>3, <1>7 DEF Cleared
<1>8. \/ \E s \in Scrubber : ScrubTasks(s) \/ ScrubEvents(s) \/ ScrubErrors(s)
      \/ /\ scrubbed' = scrubbed
         /\ \A s \in Scrubber : pc'[s] = pc[s] \/ pc'[s] \in {"idle", "tasks"}
  BY DEF Next, ScrubStep, Crash, RecordError, RunScript, Count, Enqueue, RunTask, FinishTask, FailTask,
         vars, tables, Submit, Complete, Abandon, Types, Begin
<1> QED BY <1>4, <1>5, <1>6, <1>7, <1>8

---------------------------------------------------------------------------
(* Answers.                                                                *)

(* The row that answers a client's request.                                *)
Answers(rows, r, c) == rows[r] # None /\ rows[r].key = Hashed(c) /\ rows[r].result # None

LEMMA SameAnswer ==
  ASSUME NEW c \in Client, \A r \in Row : Answers(row', r, c) <=> Answers(row, r, c)
  PROVE  AnswerOf(row', c) = AnswerOf(row, c)
<1>1. {r \in Row : row'[r] # None /\ row'[r].key = Hashed(c) /\ row'[r].result # None}
       = {r \in Row : row[r] # None /\ row[r].key = Hashed(c) /\ row[r].result # None}
  BY DEF Answers
<1>2. ASSUME NEW A, NEW B, A = B
      PROVE  (IF A = {} THEN None ELSE CHOOSE r \in A : TRUE) = (IF B = {} THEN None ELSE CHOOSE r \in B : TRUE)
  BY <1>2
<1> QED BY <1>1, <1>2, Zenon DEF AnswerOf, DoneUnder

LEMMA AnswersStep ==
  ASSUME Types, KeysFit, AnswersSame, [Next]_vars
  PROVE  AnswersSame'
<1>1. ASSUME NEW c \in Client \cup {None}, NEW r \in Row, Submit(c, r) PROVE AnswersSame'
  <2> DEFINE x == [key |-> IF c = None THEN None ELSE Hashed(c), text |-> Sanitized,
                   result |-> None, status |-> "RUNNING"]
  <2>1. row'[r] = x /\ row[r] = None /\ \A q \in Row \ {r} : row'[q] = row[q]
    BY <1>1 DEF Submit, Types
  <2>2. x.result = None
    OBVIOUS
  <2> HIDE DEF x
  <2>3. \A d \in Client, q \in Row : Answers(row', q, d) <=> Answers(row, q, d)
    BY <2>1, <2>2 DEF Answers
  <2>4. answered' = answered
    BY <1>1 DEF Submit
  <2> QED BY <2>3, <2>4, SameAnswer DEF AnswersSame
<1>2. ASSUME NEW r \in Row, Complete(r) PROVE AnswersSame'
  <2>1. row[r] \in Rows(r) /\ row[r] # None /\ row[r].result = None /\ Result(PublicResult, r) # None
    <3>1. row[r].status = "RUNNING" /\ row[r] # None /\ row[r] \in Rows(r)
      BY <1>2 DEF Complete, Types
    <3> QED BY <3>1, NullAssumption DEF PublicResult, Texts, KeysFit
  <2>2. row'[r] # None /\ row'[r].key = row[r].key /\ row'[r].result = Result(PublicResult, r)
    <3>1. row' = [row EXCEPT ![r] = [row[r] EXCEPT !.result = Result(PublicResult, r), !.status = "COMPLETED"]]
      BY <1>2, Zenon DEF Complete
    <3>2. [row[r] EXCEPT !.result = Result(PublicResult, r), !.status = "COMPLETED"] \in Rows(r)
      BY <2>1 DEF Rows, Statuses, Texts, PublicResult
    <3>3. row'[r] = [row[r] EXCEPT !.result = Result(PublicResult, r), !.status = "COMPLETED"]
      BY <3>1 DEF Types
    <3>4. row'[r] # None
      BY <3>2, <3>3, NullAssumption
    <3> QED BY <2>1, <3>3, <3>4 DEF Rows
  <2>3. \A q \in Row \ {r} : row'[q] = row[q]
    BY <1>2 DEF Complete, Types
  <2>4. \A c \in Client : answered'[c] = IF row[r].key = Hashed(c) /\ answered[c] = None THEN r ELSE answered[c]
    BY <1>2 DEF Complete
  <2>5. ASSUME NEW c \in Client, row[r].key = Hashed(c) PROVE AnswerOf(row', c) = answered'[c]
    <3>1. \A q \in Row \ {r} : row[q] # None => row[q].key # Hashed(c)
      BY <2>1, <2>5, NullAssumption DEF KeysFit, Unique
    <3>2. {q \in Row : row[q] # None /\ row[q].key = Hashed(c) /\ row[q].result # None} = {}
      BY <2>1, <3>1
    <3>3. answered[c] = None
      BY <3>2 DEF AnswersSame, AnswerOf, DoneUnder
    <3>4. {q \in Row : row'[q] # None /\ row'[q].key = Hashed(c) /\ row'[q].result # None} = {r}
      BY <2>1, <2>2, <2>3, <2>5, <3>1
    <3>5. AnswerOf(row', c) = r
      BY <3>4 DEF AnswerOf, DoneUnder
    <3> QED BY <2>4, <2>5, <3>3, <3>5
  <2>6. ASSUME NEW c \in Client, row[r].key # Hashed(c) PROVE AnswerOf(row', c) = answered'[c]
    <3>1. \A q \in Row : Answers(row', q, c) <=> Answers(row, q, c)
      BY <2>1, <2>2, <2>3, <2>6 DEF Answers
    <3> QED BY <2>4, <2>6, <3>1, SameAnswer DEF AnswersSame
  <2> QED BY <2>5, <2>6 DEF AnswersSame
<1>3. ASSUME NEW r \in Row, Abandon(r) PROVE AnswersSame'
  <2>1. row[r] \in Rows(r) /\ row[r] # None /\ row[r].result = None
    <3>1. row[r].status = "RUNNING" /\ row[r] # None /\ row[r] \in Rows(r)
      BY <1>3 DEF Abandon, Types
    <3> QED BY <3>1 DEF KeysFit
  <2>2. row'[r] = [row[r] EXCEPT !.status = "FAILED"] /\ \A q \in Row \ {r} : row'[q] = row[q]
    BY <1>3 DEF Abandon, Types
  <2>3. row'[r].result = None
    BY <2>1, <2>2 DEF Rows
  <2>4. \A c \in Client, q \in Row : Answers(row', q, c) <=> Answers(row, q, c)
    BY <2>1, <2>2, <2>3 DEF Answers
  <2>5. answered' = answered
    BY <1>3 DEF Abandon
  <2> QED BY <2>4, <2>5, SameAnswer DEF AnswersSame
<1>4. ASSUME NEW s \in Scrubber, ScrubTasks(s) PROVE AnswersSame'
  <2>1. \A r \in Row : row'[r] = IF r \in TaskResidue THEN Cleaned(r) ELSE row[r]
    BY <1>4 DEF ScrubTasks
  <2>2. ASSUME NEW c \in Client, NEW r \in Row PROVE Answers(row', r, c) <=> Answers(row, r, c)
    <3>1. CASE r \in TaskResidue
      <4>1. row[r] # None /\ row[r] \in Rows(r) /\ row[r].key \in Keys
        BY <3>1, Fields DEF TaskResidue, Types
      <4>2. NewKey(r) = Hashed(c) <=> row[r].key = Hashed(c)
        BY <4>1, NewKeys
      <4> QED BY <2>1, <3>1, <4>1, <4>2, CleanRow DEF Answers
    <3>2. CASE r \notin TaskResidue
      BY <2>1, <3>2 DEF Answers
    <3> QED BY <3>1, <3>2
  <2>3. answered' = answered
    BY <1>4 DEF ScrubTasks
  <2> QED BY <2>2, <2>3, SameAnswer DEF AnswersSame
<1>5. CASE UNCHANGED <<row, answered>>
  BY <1>5 DEF AnswersSame, AnswerOf, DoneUnder
<1> QED BY <1>1, <1>2, <1>3, <1>4, <1>5, RowMoves

(* No step gives a row that has a key another client key, or removes it.   *)
LEMMA FormerStep ==
  ASSUME Types, FormerKeys, [Next]_vars
  PROVE  FormerKeys'
<1> SUFFICES ASSUME NEW c \in Client, former[c] # None
             PROVE  row'[former[c]] # None /\ \A d \in Client : row'[former[c]].key # Hashed(d)
  BY FormerStays DEF FormerKeys
<1>0. PICK r \in Row : r = former[c] /\ row[r] # None /\ row[r] \in Rows(r)
                     /\ \A d \in Client : row[r].key # Hashed(d)
  BY DEF FormerKeys, Types
<1>1. ASSUME NEW d \in Client \cup {None}, NEW q \in Row, Submit(d, q)
      PROVE  row'[r] = row[r]
  BY <1>0, <1>1 DEF Submit, Types
<1>2. ASSUME NEW q \in Row, Complete(q) \/ Abandon(q)
      PROVE  row'[r] # None /\ row'[r].key = row[r].key
  <2>1. CASE q = r
    <3>1. PICK x : row'[r] = [row[r] EXCEPT !.result = x, !.status = "COMPLETED"]
                   \/ row'[r] = [row[r] EXCEPT !.status = "FAILED"]
      BY <1>2, <2>1 DEF Complete, Abandon, Types
    <3>2. row'[r].key = row[r].key
      BY <1>0, <3>1 DEF Rows
    <3>3. row'[r] \in Rows(r)
      <4>1. Result(PublicResult, r) \in {Result(t, r) : t \in Texts}
        BY DEF PublicResult, Texts
      <4> QED BY <1>0, <1>2, <2>1, <4>1 DEF Complete, Abandon, Types, Rows, Statuses
    <3>4. row'[r] # None
      BY <3>3, NullAssumption
    <3> QED BY <3>2, <3>4
  <2>2. CASE q # r
    BY <1>0, <1>2, <2>2 DEF Complete, Abandon, Types
  <2> QED BY <2>1, <2>2
<1>3. ASSUME NEW s \in Scrubber, ScrubTasks(s)
      PROVE  row'[r] # None /\ \A d \in Client : row'[r].key # Hashed(d)
  <2>1. row[r].key \in Keys
    BY <1>0, Fields
  <2>2. row'[r] = IF r \in TaskResidue THEN Cleaned(r) ELSE row[r]
    BY <1>3 DEF ScrubTasks
  <2> QED BY <1>0, <2>1, <2>2, NewKeys, CleanRow
<1> QED BY <1>0, <1>1, <1>2, <1>3, RowMoves

---------------------------------------------------------------------------
(* The invariant of the specification, for any rows, clients and crashes.  *)
LEMMA Inductive == Spec => []IInv
<1>1. Init => IInv
  BY InitTypes, TaskInit, InitCleared, InitFormer DEF IInv
<1>2. IInv /\ [Next]_vars => IInv'
  BY TypesStep, TaskStep, KeysStep, ClearedStep, AnswersStep, FormerStep DEF IInv
<1> QED BY <1>1, <1>2, PTL DEF Spec

(* The tables, the scrub task and its runs keep their types, and no        *)
(* private text is left or comes back once one run of the scrub is through *)
(* (scrub.ts), whatever ran between its statements.                        *)
THEOREM ResidueGoneForGood == Spec => []ScrubbedForGood
<1>1. IInv => ScrubbedForGood
  BY DEF IInv, Types, TaskInv, Cleared, TypeOK, ScrubbedForGood
<1> QED BY <1>1, Inductive, PTL

(* A repeated request gets the order its client was told of under its      *)
(* hashed key, whatever keys the scrub replaces meanwhile, and never one   *)
(* it was told of under its own id (agent.ts, scrub.ts).                   *)
THEOREM SameOrderAnswered == Spec => []AnswersKept
<1>1. ASSUME IInv, NEW c \in Client, AnswerOf(row, c) # None
      PROVE  AnswerOf(row, c) \in Row /\ row[AnswerOf(row, c)].key = Hashed(c)
  BY <1>1 DEF AnswerOf, DoneUnder
<1>2. IInv => AnswersKept
  BY <1>1 DEF IInv, AnswersSame, FormerKeys, AnswersKept
<1> QED BY <1>2, Inductive, PTL
=============================================================================
