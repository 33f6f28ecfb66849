--------------------------- MODULE TicketsProofs ---------------------------
(***************************************************************************)
(* Proofs about TicketIntake, for any number of creators, any limit and    *)
(* any calendar, and about TicketFiles, for any files and any number of    *)
(* uploads and removals in flight.                                         *)
(***************************************************************************)
EXTENDS TicketIntake, TicketFiles, FiniteSetTheorems, TLAPS

\* A month has a first moment.
LEMMA ZeroInTime == 0 \in Time
<1>1. LastDay + 1 \in Nat \ {0} /\ DayLength \in Nat \ {0}
  BY IntakeAssumption
<1>2. \A a, b \in Nat \ {0} : a * b >= 1 /\ a * b \in Int
  OBVIOUS
<1>3. (LastDay + 1) * DayLength >= 1 /\ (LastDay + 1) * DayLength \in Int
  BY <1>1, <1>2
<1> QED
  BY <1>3 DEF Time

\* The types are inductive.
LEMMA TypeInductive == IntakeTypeOK /\ [IntakeNext]_intakeVars => IntakeTypeOK'
<1> SUFFICES ASSUME IntakeTypeOK, [IntakeNext]_intakeVars
             PROVE  IntakeTypeOK'
  OBVIOUS
<1> USE IntakeAssumption DEF IntakeTypeOK, Numbers, Moves
<1>1. ASSUME NEW c \in Creators, AssertCanCreateTicket(c)
      PROVE  IntakeTypeOK'
  BY <1>1 DEF AssertCanCreateTicket
<1>2. ASSUME NEW c \in Creators, CountTickets(c)
      PROVE  IntakeTypeOK'
  <2>1. Cardinality(Numbers) \in Nat
    BY FS_CardinalityType
  <2>2. Cardinality(Numbers) + 1 \in Nat \ {0}
    BY <2>1
  <2> QED
    BY <1>2, <2>2 DEF CountTickets
<1>3. ASSUME NEW c \in Creators, ProbeTaken(c)
      PROVE  IntakeTypeOK'
  BY <1>3 DEF ProbeTaken
<1>4. ASSUME NEW c \in Creators, ProbeFree(c)
      PROVE  IntakeTypeOK'
  BY <1>4 DEF ProbeFree
<1>5. ASSUME NEW c \in Creators, Create(c)
      PROVE  IntakeTypeOK'
  <2>1. Numbers' = Numbers \union {seq[c]}
    BY <1>5 DEF Create
  <2>2. IsFiniteSet(Numbers')
    BY <2>1, FS_AddElement
  <2>3. [made |-> now, deleted |-> FALSE] \in Row
    BY DEF Row
  <2>4. ticket' \in [Numbers' -> Row]
    BY <1>5, <2>1, <2>3 DEF Create
  <2>5. Numbers' \subseteq Nat \ {0}
    BY <2>1
  <2>6. /\ now' \in Time /\ restores' \in 0 .. MaxRestores
        /\ pc' \in [Creators -> {"idle", "count", "probe", "create"}]
        /\ seq' \in [Creators -> Nat \ {0}]
    BY <1>5 DEF Create
  <2> QED
    BY <2>2, <2>4, <2>5, <2>6
<1>6. ASSUME NEW c \in Creators, CreateConflict(c)
      PROVE  IntakeTypeOK'
  BY <1>6 DEF CreateConflict
<1>7. ASSUME NEW n \in Numbers, Remove(n)
      PROVE  IntakeTypeOK'
  <2>1. ticket' \in [Numbers -> Row]
    BY <1>7 DEF Remove, Row
  <2> QED
    BY <1>7, <2>1 DEF Remove
<1>8. ASSUME NEW n \in Numbers, RestoreTicket(n)
      PROVE  IntakeTypeOK'
  <2>1. ticket' \in [Numbers -> Row]
    BY <1>8 DEF RestoreTicket, Row
  <2> QED
    BY <1>8, <2>1 DEF RestoreTicket
<1>9. CASE TimePasses
  BY <1>9 DEF TimePasses
<1>10. CASE NewMonth
  <2>1. \A n \in Numbers : [ticket[n] EXCEPT !.made = Before] \in Row
    BY DEF Row
  <2> QED
    BY <1>10, <2>1, ZeroInTime DEF NewMonth
<1>11. CASE UNCHANGED intakeVars
  BY <1>11 DEF intakeVars
<1> QED
  BY <1>1, <1>2, <1>3, <1>4, <1>5, <1>6, <1>7, <1>8, <1>9, <1>10, <1>11
     DEF IntakeNext, CreatorStep

\* Every reachable state is well typed.
THEOREM TypeCorrect == IntakeSpec => []IntakeTypeOK
<1>1. IntakeInit => IntakeTypeOK
  BY IntakeAssumption, ZeroInTime, FS_EmptySet DEF IntakeInit, IntakeTypeOK, Numbers
<1> QED
  BY <1>1, TypeInductive, PTL DEF IntakeSpec
-----------------------------------------------------------------------------
\* No request tries a number beyond the first free one: it starts at one more
\* than the count and advances only past numbers that are taken.
SeqBounded == \A c \in Creators : seq[c] <= Cardinality(Numbers) + 1

IInv == IntakeTypeOK /\ NumbersContiguous /\ SeqBounded

\* Adding a number to an interval of numbers that reaches up to it.
LEMMA ExtendInterval ==
  ASSUME NEW S, IsFiniteSet(S), S = 1 .. Cardinality(S),
         NEW k \in Nat \ {0}, k \notin S, k <= Cardinality(S) + 1
  PROVE  /\ S \union {k} = 1 .. Cardinality(S \union {k})
         /\ Cardinality(S \union {k}) = Cardinality(S) + 1
<1>1. Cardinality(S) \in Nat
  BY FS_CardinalityType
<1>2. k = Cardinality(S) + 1
  BY <1>1
<1>3. Cardinality(S \union {k}) = Cardinality(S) + 1
  BY FS_AddElement
<1>4. S \union {k} = 1 .. Cardinality(S) + 1
  BY <1>1, <1>2
<1> QED
  BY <1>3, <1>4

\* Steps that leave the numbers and what the requests try alone.
LEMMA NumbersKept ==
  ASSUME IInv, IntakeTypeOK', Numbers' = Numbers, seq' = seq
  PROVE  IInv'
BY DEF IInv, NumbersContiguous, SeqBounded

LEMMA NumberingInductive == IInv /\ [IntakeNext]_intakeVars => IInv'
<1> SUFFICES ASSUME IInv, [IntakeNext]_intakeVars
             PROVE  IInv'
  OBVIOUS
<1>1. IntakeTypeOK /\ IntakeTypeOK'
  BY TypeInductive DEF IInv
<1>2. Cardinality(Numbers) \in Nat /\ IsFiniteSet(Numbers)
  BY <1>1, FS_CardinalityType DEF IntakeTypeOK
<1>3. ASSUME NEW c \in Creators, CountTickets(c)
      PROVE  IInv'
  <2>1. Numbers' = Numbers
    BY <1>3 DEF CountTickets, Numbers
  <2>2. \A d \in Creators : seq'[d] <= Cardinality(Numbers) + 1
    BY <1>1, <1>2, <1>3 DEF CountTickets, IntakeTypeOK, IInv, SeqBounded
  <2> QED
    BY <1>1, <2>1, <2>2 DEF IInv, NumbersContiguous, SeqBounded
<1>4. ASSUME NEW c \in Creators, ProbeTaken(c)
      PROVE  IInv'
  <2>1. Numbers' = Numbers
    BY <1>4 DEF ProbeTaken, Numbers
  <2>2. seq[c] <= Cardinality(Numbers)
    BY <1>2, <1>4 DEF ProbeTaken, IInv, NumbersContiguous
  <2>3. \A d \in Creators : seq'[d] <= Cardinality(Numbers) + 1
    BY <1>1, <1>2, <1>4, <2>2 DEF ProbeTaken, IntakeTypeOK, IInv, SeqBounded
  <2> QED
    BY <1>1, <2>1, <2>3 DEF IInv, NumbersContiguous, SeqBounded
<1>5. ASSUME NEW c \in Creators, Create(c)
      PROVE  IInv'
  <2>1. Numbers' = Numbers \union {seq[c]} /\ seq' = seq
    BY <1>5 DEF Create, Numbers
  <2>2. seq[c] \in Nat \ {0} /\ seq[c] \notin Numbers
    BY <1>1, <1>5 DEF IntakeTypeOK, Create
  <2>3. /\ Numbers' = 1 .. Cardinality(Numbers')
        /\ Cardinality(Numbers') = Cardinality(Numbers) + 1
    BY <1>2, <2>1, <2>2, ExtendInterval DEF IInv, NumbersContiguous, SeqBounded
  <2>4. \A d \in Creators : seq[d] <= Cardinality(Numbers') + 1
    BY <1>1, <1>2, <2>3 DEF IInv, SeqBounded, IntakeTypeOK
  <2> QED
    BY <1>1, <2>1, <2>3, <2>4 DEF IInv, NumbersContiguous, SeqBounded
<1>6. ASSUME Numbers' = Numbers, seq' = seq
      PROVE  IInv'
  BY <1>1, <1>6, NumbersKept
<1>7. ASSUME NEW c \in Creators,
             AssertCanCreateTicket(c) \/ ProbeFree(c) \/ CreateConflict(c)
      PROVE  IInv'
  BY <1>6, <1>7 DEF AssertCanCreateTicket, ProbeFree, CreateConflict, Numbers
<1>8. ASSUME NEW n \in Numbers, Remove(n) \/ RestoreTicket(n)
      PROVE  IInv'
  BY <1>1, <1>6, <1>8 DEF Remove, RestoreTicket, IntakeTypeOK, Numbers
<1>9. CASE TimePasses \/ NewMonth \/ UNCHANGED intakeVars
  BY <1>6, <1>9 DEF TimePasses, NewMonth, intakeVars, Numbers
<1> QED
  BY <1>3, <1>4, <1>5, <1>7, <1>8, <1>9 DEF IntakeNext, CreatorStep

\* However many requests number tickets at the same time, the numbers of a
\* tenant's tickets have no gap.
THEOREM NoGaps == IntakeSpec => []NumbersContiguous
<1>1. IntakeInit => IInv
  BY IntakeAssumption, ZeroInTime, FS_EmptySet
     DEF IntakeInit, IInv, IntakeTypeOK, Numbers, NumbersContiguous, SeqBounded
<1>2. IInv => NumbersContiguous
  BY DEF IInv
<1> QED
  BY <1>1, <1>2, NumberingInductive, PTL DEF IntakeSpec
-----------------------------------------------------------------------------
(* The monthly limit. *)

\* The tickets that count against the month once its first day is over, and
\* the requests that have passed the check and not finished.
Recent == {n \in Numbers : ~ticket[n].deleted /\ ticket[n].made >= DayLength}

Admitted == {c \in Creators : pc[c] # "idle"}

\* A request that is admitted finds the month below the limit, and all that
\* can be in flight with it are the other creators: each becomes a ticket of
\* the month or nothing, so the sum grows by restores alone.
LimitInv ==
  Cardinality(Recent) + Cardinality(Admitted)
    <= Limit + Cardinality(Creators) - 1 + restores

LEMMA IntakeCardinalities ==
  ASSUME IntakeTypeOK
  PROVE  /\ IsFiniteSet(Recent) /\ Cardinality(Recent) \in Nat
         /\ IsFiniteSet(Admitted) /\ Cardinality(Admitted) \in Nat
         /\ Cardinality(Creators) \in Nat
<1>1. Recent \subseteq Numbers /\ Admitted \subseteq Creators
  BY DEF Recent, Admitted
<1> QED
  BY <1>1, IntakeAssumption, FS_Subset, FS_CardinalityType DEF IntakeTypeOK

\* The window of the check opens in the first day of the month, so that what
\* was made later is counted.
LEMMA WindowOpensFirstDay ==
  ASSUME IntakeTypeOK
  PROVE  WindowStart < DayLength /\ WindowStart \in Nat
<1>1. now \in Nat /\ DayLength \in Nat \ {0}
  BY IntakeAssumption DEF IntakeTypeOK, Time
<1> HIDE DEF IntakeTypeOK
<1>2. now % DayLength \in 0 .. DayLength - 1
  BY <1>1
<1> QED
  BY <1>1, <1>2 DEF WindowStart

\* The check admits a request only when there is room for it.
LEMMA AdmissionHasRoom ==
  ASSUME IntakeTypeOK, UnderLimit
  PROVE  Cardinality(Recent) <= Limit - 1
<1> DEFINE Counted == {n \in Numbers : ~ticket[n].deleted /\ ticket[n].made >= WindowStart}
<1>1. Recent \subseteq Counted
  <2>1. \A n \in Numbers : ticket[n].made \in Int
    BY DEF IntakeTypeOK, Row, Time, Before
  <2>2. DayLength \in Nat /\ WindowStart \in Nat /\ WindowStart < DayLength
    BY WindowOpensFirstDay, IntakeAssumption
  <2> QED
    BY <2>1, <2>2 DEF Recent
<1>2. IsFiniteSet(Counted)
  BY FS_Subset DEF IntakeTypeOK
<1>3. Cardinality(Recent) <= Cardinality(Counted)
  BY <1>1, <1>2, FS_Subset
<1>4. Cardinality(Counted) + 1 <= Limit
  BY DEF UnderLimit, TicketsThisMonth
<1>5. Cardinality(Counted) \in Nat /\ Cardinality(Recent) \in Nat
  BY <1>2, FS_CardinalityType, IntakeCardinalities
<1> QED
  BY <1>3, <1>4, <1>5, IntakeAssumption

\* A request that finishes leaves the set of admitted ones; one that goes on
\* stays in it.
LEMMA AdmittedStep ==
  ASSUME IntakeTypeOK, NEW c \in Creators, NEW from, NEW to, Moves(c, from, to)
  PROVE  /\ from # "idle" /\ to # "idle" => Admitted' = Admitted
         /\ from # "idle" /\ to = "idle"
              => /\ Admitted' = Admitted \ {c}
                 /\ Cardinality(Admitted') = Cardinality(Admitted) - 1
<1>1. pc[c] = from /\ pc' = [pc EXCEPT ![c] = to] /\ pc \in [Creators -> {"idle", "count", "probe", "create"}]
  BY DEF Moves, IntakeTypeOK
<1>2. ASSUME from # "idle", to # "idle"
      PROVE  Admitted' = Admitted
  BY <1>1, <1>2 DEF Admitted
<1>3. ASSUME from # "idle", to = "idle"
      PROVE  /\ Admitted' = Admitted \ {c}
             /\ Cardinality(Admitted') = Cardinality(Admitted) - 1
  <2>1. Admitted' = Admitted \ {c} /\ c \in Admitted
    BY <1>1, <1>3 DEF Admitted
  <2> QED
    BY <2>1, IntakeCardinalities, FS_RemoveElement
<1> QED
  BY <1>2, <1>3

\* A step that leaves the month's tickets and the requests as they are, or
\* takes some away.
LEMMA LimitKept ==
  ASSUME IntakeTypeOK, IntakeTypeOK', LimitInv,
         Recent' \subseteq Recent, Admitted' \subseteq Admitted,
         restores' = restores
  PROVE  LimitInv'
<1>1. /\ Cardinality(Recent') <= Cardinality(Recent)
      /\ Cardinality(Admitted') <= Cardinality(Admitted)
  BY IntakeCardinalities, FS_Subset
<1>2. /\ Cardinality(Recent) \in Nat /\ Cardinality(Recent') \in Nat
      /\ Cardinality(Admitted) \in Nat /\ Cardinality(Admitted') \in Nat
      /\ Cardinality(Creators) \in Nat
  BY IntakeCardinalities, FS_Subset, FS_CardinalityType
<1> QED
  BY <1>1, <1>2, IntakeAssumption DEF LimitInv, IntakeTypeOK

LEMMA LimitInductive ==
  IntakeTypeOK /\ LimitInv /\ [IntakeNext]_intakeVars => LimitInv'
<1> SUFFICES ASSUME IntakeTypeOK, LimitInv, [IntakeNext]_intakeVars
             PROVE  LimitInv'
  OBVIOUS
<1> USE IntakeAssumption
<1>1. IntakeTypeOK'
  BY TypeInductive
<1>2. /\ Cardinality(Recent) \in Nat /\ IsFiniteSet(Recent)
      /\ Cardinality(Admitted) \in Nat /\ IsFiniteSet(Admitted)
      /\ Cardinality(Creators) \in Nat /\ restores \in Nat
  BY IntakeCardinalities DEF IntakeTypeOK
<1>3. ASSUME NEW c \in Creators, AssertCanCreateTicket(c)
      PROVE  LimitInv'
  <2>1. Recent' = Recent /\ restores' = restores
    BY <1>3 DEF AssertCanCreateTicket, Moves, Recent, Numbers
  <2>2. Admitted' \subseteq Creators
    BY DEF Admitted
  <2>3. Cardinality(Admitted') <= Cardinality(Creators) /\ Cardinality(Admitted') \in Nat
    BY <2>2, FS_Subset, FS_CardinalityType
  <2>4. Cardinality(Recent) <= Limit - 1
    BY <1>3, AdmissionHasRoom DEF AssertCanCreateTicket
  <2> QED
    BY <1>2, <2>1, <2>3, <2>4 DEF LimitInv
<1>4. ASSUME NEW c \in Creators, CountTickets(c) \/ ProbeTaken(c) \/ ProbeFree(c)
      PROVE  LimitInv'
  <2>1. UNCHANGED <<ticket, restores>>
    BY <1>4 DEF CountTickets, ProbeTaken, ProbeFree, Moves
  <2>2. Admitted' = Admitted
    BY <1>4, AdmittedStep DEF CountTickets, ProbeTaken, ProbeFree
  <2>3. Recent' = Recent
    BY <2>1 DEF Recent, Numbers
  <2> QED
    BY <1>1, <2>1, <2>2, <2>3, LimitKept
<1>5. ASSUME NEW c \in Creators, Create(c)
      PROVE  LimitInv'
  <2>1. Cardinality(Admitted') = Cardinality(Admitted) - 1 /\ restores' = restores
    BY <1>5, AdmittedStep DEF Create, Moves
  <2>2. Recent' \subseteq Recent \union {seq[c]}
    BY <1>5 DEF Create, Recent, Numbers
  <2>3. Cardinality(Recent') <= Cardinality(Recent) + 1
    <3>1. /\ IsFiniteSet(Recent \union {seq[c]})
          /\ Cardinality(Recent \union {seq[c]}) \in {Cardinality(Recent), Cardinality(Recent) + 1}
      BY <1>2, FS_AddElement
    <3>2. Cardinality(Recent') <= Cardinality(Recent \union {seq[c]})
      BY <2>2, <3>1, FS_Subset
    <3>3. Cardinality(Recent') \in Nat
      BY <1>1, IntakeCardinalities, FS_Subset, FS_CardinalityType, <2>2, <3>1
    <3> QED
      BY <1>2, <3>1, <3>2, <3>3
  <2>4. Cardinality(Recent') \in Nat
    BY <1>2, <2>2, FS_AddElement, FS_Subset, FS_CardinalityType
  <2> QED
    BY <1>2, <2>1, <2>3, <2>4 DEF LimitInv
<1>6. ASSUME NEW c \in Creators, CreateConflict(c)
      PROVE  LimitInv'
  <2>1. Admitted' = Admitted \ {c} /\ UNCHANGED <<ticket, restores>>
    BY <1>6, AdmittedStep DEF CreateConflict, Moves
  <2>2. Recent' = Recent
    BY <2>1 DEF Recent, Numbers
  <2> QED
    BY <1>1, <2>1, <2>2, LimitKept
<1>7. ASSUME NEW n \in Numbers, Remove(n)
      PROVE  LimitInv'
  <2>1. Recent' \subseteq Recent /\ UNCHANGED <<pc, restores>>
    BY <1>7 DEF Remove, Recent, Numbers, IntakeTypeOK, Row
  <2>2. Admitted' = Admitted
    BY <2>1 DEF Admitted
  <2> QED
    BY <1>1, <2>1, <2>2, LimitKept
<1>8. ASSUME NEW n \in Numbers, RestoreTicket(n)
      PROVE  LimitInv'
  <2>1. Recent' \subseteq Recent \union {n} /\ restores' = restores + 1
    BY <1>8 DEF RestoreTicket, Recent, Numbers, IntakeTypeOK, Row
  <2>2. Admitted' = Admitted
    BY <1>8 DEF RestoreTicket, Admitted
  <2>3. /\ IsFiniteSet(Recent \union {n})
        /\ Cardinality(Recent \union {n}) \in {Cardinality(Recent), Cardinality(Recent) + 1}
    BY <1>2, FS_AddElement
  <2>4. /\ Cardinality(Recent') <= Cardinality(Recent \union {n})
        /\ Cardinality(Recent') \in Nat
    BY <2>1, <2>3, FS_Subset, FS_CardinalityType
  <2> QED
    BY <1>2, <2>1, <2>2, <2>3, <2>4 DEF LimitInv
<1>9. CASE TimePasses \/ UNCHANGED intakeVars
  <2>1. UNCHANGED <<ticket, pc, restores>>
    BY <1>9 DEF TimePasses, intakeVars
  <2>2. Recent' = Recent /\ Admitted' = Admitted
    BY <2>1 DEF Recent, Numbers, Admitted
  <2> QED
    BY <1>1, <2>1, <2>2, LimitKept
<1>10. CASE NewMonth
  <2>1. Recent' = {}
    BY <1>10 DEF NewMonth, Recent, Numbers, Before, IntakeTypeOK, Row
  <2>2. UNCHANGED <<pc, restores>>
    BY <1>10 DEF NewMonth
  <2>3. Admitted' = Admitted
    BY <2>2 DEF Admitted
  <2> QED
    BY <1>1, <2>1, <2>2, <2>3, LimitKept
<1> QED
  BY <1>3, <1>4, <1>5, <1>6, <1>7, <1>8, <1>9, <1>10 DEF IntakeNext, CreatorStep

\* However many requests check the limit together, the tickets of a month
\* after its first day exceed it at most by those requests and by restores.
THEOREM OvershootIsBounded == IntakeSpec => []OvershootBounded
<1>1. IntakeInit => IntakeTypeOK /\ LimitInv
  <2> SUFFICES ASSUME IntakeInit
               PROVE  IntakeTypeOK /\ LimitInv
    OBVIOUS
  <2>1. IntakeTypeOK
    BY IntakeAssumption, ZeroInTime, FS_EmptySet DEF IntakeInit, IntakeTypeOK, Numbers
  <2>2. Recent = {} /\ Admitted = {} /\ restores = 0
    BY DEF IntakeInit, Recent, Admitted, Numbers
  <2> QED
    BY <2>1, <2>2, IntakeCardinalities, IntakeAssumption, FS_EmptySet DEF LimitInv
<1>2. IntakeTypeOK /\ LimitInv => OvershootBounded
  <2> SUFFICES ASSUME IntakeTypeOK, LimitInv
               PROVE  Cardinality(Recent) <= Limit + Cardinality(Creators) - 1 + restores
    BY DEF OvershootBounded, Recent
  <2>1. restores \in Nat /\ Limit \in Nat
    BY IntakeAssumption DEF IntakeTypeOK
  <2> QED
    BY <2>1, IntakeCardinalities DEF LimitInv
<1> QED
  BY <1>1, <1>2, TypeInductive, LimitInductive, PTL DEF IntakeSpec
-----------------------------------------------------------------------------
(* The files of a ticket. *)

\* What an upload or a removal may still have to do with which files.
Batch == {files \in Seq(Files) : files # <<>> /\ IsInjective(files)}

Loads == [op : {"still"}]
         \cup [op : {"put", "file", "attach", "note", "take", "drop", "detach"},
               files : Batch]

FileTypes == FileTypeOK /\ carrier \in [Carriers -> Loads]

Held(c) == Range(carrier[c].files)

Busy(c, f) == carrier[c].op \notin {"still", "note"} /\ f \in Held(c)

\* A file that nobody has uploaded is nowhere.
FreshInv ==
  \A f \in Files : owner[f] = Stranger =>
    /\ f \notin object \cup upload \cup attached
    /\ \A c \in Carriers : ~Busy(c, f)

\* The files of an upload in flight are its own, and are made one by one.
UploadKnows(c) ==
  carrier[c].op \in {"put", "file", "attach"} =>
    \A f \in Held(c) :
      /\ f \notin attached
      /\ \A d \in Carriers \ {c} : ~Busy(d, f)
      /\ f \in object <=> f = Current(c) /\ carrier[c].op \in {"file", "attach"}
      /\ f \in upload <=> f = Current(c) /\ carrier[c].op = "attach"

\* A removal has one file, and knows what it has taken away of it.
RemovalKnows(c) ==
  /\ carrier[c].op \in {"take", "drop", "detach"} => Held(c) = {Current(c)}
  /\ carrier[c].op \in {"drop", "detach"} => Current(c) \notin object \/ Current(c) \in loose
  /\ carrier[c].op = "detach" => Current(c) \notin upload

FilesInv ==
  /\ FilesMatch
  /\ FreshInv
  /\ \A c \in Carriers : UploadKnows(c) /\ RemovalKnows(c)

\* The head and the tail of a batch.
LEMMA BatchParts ==
  ASSUME NEW files \in Batch
  PROVE  /\ Head(files) \in Files /\ Head(files) \in Range(files)
         /\ Range(files) \subseteq Files
         /\ Len(files) = 1 => Range(files) = {Head(files)}
         /\ Len(files) # 1 => /\ Tail(files) \in Batch
                              /\ Range(Tail(files)) = Range(files) \ {Head(files)}
<1>1. /\ files \in Seq(Files) /\ files # <<>> /\ Len(files) \in Nat \ {0}
      /\ \A i, j \in 1 .. Len(files) : files[i] = files[j] => i = j
  BY DEF Batch, IsInjective
<1>2. /\ Head(files) = files[1] /\ 1 \in DOMAIN files
      /\ \A i \in DOMAIN files : files[i] \in Files
      /\ DOMAIN files = 1 .. Len(files)
  BY <1>1
<1>3. /\ Head(files) \in Files /\ Head(files) \in Range(files)
      /\ Range(files) \subseteq Files
  BY <1>2 DEF Range
<1>4. Len(files) = 1 => Range(files) = {Head(files)}
  BY <1>2 DEF Range
<1>5. ASSUME Len(files) # 1
      PROVE  /\ Tail(files) \in Batch
             /\ Range(Tail(files)) = Range(files) \ {Head(files)}
  <2>1. /\ Tail(files) \in Seq(Files) /\ Len(Tail(files)) = Len(files) - 1
        /\ \A i \in 1 .. Len(files) - 1 : Tail(files)[i] = files[i + 1]
    BY <1>1
  <2>2. DOMAIN Tail(files) = 1 .. Len(files) - 1 /\ Len(files) > 1
    BY <1>1, <1>5, <2>1
  <2>3. IsInjective(Tail(files))
    <3>1. ASSUME NEW i \in 1 .. Len(files) - 1, NEW j \in 1 .. Len(files) - 1,
                 Tail(files)[i] = Tail(files)[j]
          PROVE  i = j
      <4>1. /\ files[i + 1] = files[j + 1]
            /\ i + 1 \in 1 .. Len(files) /\ j + 1 \in 1 .. Len(files)
        BY <1>1, <2>1, <3>1
      <4>2. i + 1 = j + 1
        BY <1>1, <4>1
      <4> QED
        BY <1>1, <4>2
    <3> QED
      BY <2>2, <3>1 DEF IsInjective
  <2>4. Tail(files) # <<>>
    <3>1. Len(Tail(files)) # 0
      BY <1>1, <2>1, <2>2
    <3>2. Len(<<>>) = 0
      OBVIOUS
    <3> QED
      BY <3>1, <3>2
  <2>5. ASSUME NEW f
        PROVE  f \in Range(Tail(files)) <=> f \in Range(files) /\ f # Head(files)
    <3>1. ASSUME f \in Range(Tail(files))
          PROVE  f \in Range(files) /\ f # Head(files)
      <4>1. PICK i \in 1 .. Len(files) - 1 : f = files[i + 1]
        BY <2>1, <2>2, <3>1 DEF Range
      <4>2. i + 1 \in 1 .. Len(files) /\ i + 1 # 1
        BY <1>1, <4>1
      <4> QED
        BY <1>1, <1>2, <4>1, <4>2 DEF Range
    <3>2. ASSUME f \in Range(files), f # Head(files)
          PROVE  f \in Range(Tail(files))
      <4>1. PICK i \in 1 .. Len(files) : f = files[i]
        BY <1>2, <3>2 DEF Range
      <4>2. i - 1 \in 1 .. Len(files) - 1 /\ files[(i - 1) + 1] = f
        BY <1>1, <1>2, <3>2, <4>1
      <4>3. Tail(files)[i - 1] = f
        BY <2>1, <4>2
      <4> QED
        BY <2>2, <4>2, <4>3 DEF Range
    <3> QED
      BY <3>1, <3>2
  <2> QED
    BY <2>1, <2>3, <2>4, <2>5 DEF Batch
<1> QED
  BY <1>3, <1>4, <1>5

LEMMA LoadFacts ==
  ASSUME FileTypes, NEW c \in Carriers, carrier[c].op # "still"
  PROVE  /\ carrier[c].files \in Batch
         /\ Current(c) \in Held(c) /\ Held(c) \subseteq Files
<1>1. carrier[c].files \in Batch
  BY DEF FileTypes, Loads
<1> QED
  BY <1>1, BatchParts DEF Held, Current

\* A request goes on with the files it has.
LEMMA CarryFacts ==
  ASSUME FileTypes, NEW c \in Carriers, carrier[c].op # "still",
         NEW op \in {"put", "file", "attach", "note", "take", "drop", "detach"},
         Carry(c, op)
  PROVE  /\ carrier' \in [Carriers -> Loads]
         /\ carrier'[c].op = op
         /\ Held(c)' = Held(c) /\ Current(c)' = Current(c)
         /\ \A d \in Carriers \ {c} : carrier'[d] = carrier[d]
<1>1. carrier[c].files \in Batch /\ carrier[c] \in Loads /\ carrier \in [Carriers -> Loads]
  BY LoadFacts DEF FileTypes
<1>2. /\ carrier' = [carrier EXCEPT ![c] = [carrier[c] EXCEPT !.op = op]]
      /\ [carrier[c] EXCEPT !.op = op] = [op |-> op, files |-> carrier[c].files]
  BY <1>1 DEF Carry, Loads
<1>3. [op |-> op, files |-> carrier[c].files] \in Loads
  BY <1>1 DEF Loads
<1>4. carrier'[c] = [op |-> op, files |-> carrier[c].files]
  BY <1>1, <1>2
<1> QED
  BY <1>1, <1>2, <1>3, <1>4 DEF Held, Current

\* A request ends.
LEMMA RestFacts ==
  ASSUME FileTypes, NEW c \in Carriers, Rest(c)
  PROVE  /\ carrier' \in [Carriers -> Loads]
         /\ carrier'[c].op = "still"
         /\ \A d \in Carriers \ {c} : carrier'[d] = carrier[d]
BY DEF Rest, FileTypes, Still, Loads

\* What a request read, its files and what it may know, is as the request is.
LEMMA SameLoad ==
  ASSUME NEW d \in Carriers, carrier'[d] = carrier[d]
  PROVE  /\ Held(d)' = Held(d) /\ Current(d)' = Current(d)
         /\ \A f : Busy(d, f)' <=> Busy(d, f)
BY DEF Held, Current, Busy

\* The types are inductive.
LEMMA FileTypesInductive == FileTypes /\ [FileNext]_fileVars => FileTypes'
<1> SUFFICES ASSUME FileTypes, [FileNext]_fileVars
             PROVE  FileTypes'
  OBVIOUS
<1>0. FileTypeOK /\ carrier \in [Carriers -> Loads]
  BY DEF FileTypes
<1>1. ASSUME NEW c \in Carriers, NEW p \in People, NEW files \in Batches,
             BeginUpload(c, p, files)
      PROVE  FileTypes'
  <2>1. files \in Batch
    BY <1>1 DEF BeginUpload, Batches, Batch
  <2>2. [op |-> "put", files |-> files] \in Loads
    BY <2>1 DEF Loads
  <2> QED
    BY <1>0, <1>1, <2>2 DEF BeginUpload, FileTypes, FileTypeOK
<1>2. ASSUME NEW c \in Carriers, NEW p \in People, NEW f \in Files,
             BeginRemoval(c, p, f)
      PROVE  FileTypes'
  <2>1. <<f>> \in Batch
    BY DEF Batch, IsInjective
  <2>2. [op |-> "take", files |-> <<f>>] \in Loads
    BY <2>1 DEF Loads
  <2> QED
    BY <1>0, <1>2, <2>2 DEF BeginRemoval, FileTypes, FileTypeOK
<1>3. ASSUME NEW c \in Carriers, PutObject(c) \/ CreateUpload(c)
      PROVE  FileTypes'
  BY <1>0, <1>3, LoadFacts, CarryFacts
     DEF PutObject, CreateUpload, Carries, FileTypes, FileTypeOK
<1>4. ASSUME NEW c \in Carriers, CreateAttachment(c)
      PROVE  FileTypes'
  <2>1. carrier[c].files \in Batch /\ Current(c) \in Files /\ carrier[c].op = "attach"
    BY <1>4, LoadFacts DEF CreateAttachment, Carries
  <2>2. carrier' \in [Carriers -> Loads]
    <3>1. CASE Len(carrier[c].files) = 1
      <4>1. Carry(c, "note")
        BY <1>4, <3>1 DEF CreateAttachment, Carry
      <4> QED
        BY <2>1, <4>1, CarryFacts
    <3>2. CASE Len(carrier[c].files) # 1
      <4>1. [op |-> "put", files |-> Tail(carrier[c].files)] \in Loads
        BY <2>1, <3>2, BatchParts DEF Loads
      <4> QED
        BY <1>0, <1>4, <3>2, <4>1 DEF CreateAttachment
    <3> QED
      BY <3>1, <3>2
  <2> QED
    BY <1>0, <1>4, <2>1, <2>2 DEF CreateAttachment, FileTypes, FileTypeOK
<1>5. ASSUME NEW c \in Carriers, NEW taken \in BOOLEAN, TakeObject(c, taken)
      PROVE  FileTypes'
  BY <1>0, <1>5, LoadFacts, CarryFacts DEF TakeObject, Carries, FileTypes, FileTypeOK
<1>6. ASSUME NEW c \in Carriers, DropUpload(c)
      PROVE  FileTypes'
  BY <1>0, <1>6, CarryFacts DEF DropUpload, Carries, FileTypes, FileTypeOK
<1>7. ASSUME NEW c \in Carriers, NoteUpload(c) \/ DetachFails(c)
      PROVE  FileTypes'
  BY <1>0, <1>7, RestFacts DEF NoteUpload, DetachFails, FileTypes, FileTypeOK
<1>8. ASSUME NEW c \in Carriers, CutShort(c)
      PROVE  FileTypes'
  BY <1>0, <1>8, RestFacts, LoadFacts DEF CutShort, Carries, FileTypes, FileTypeOK
<1>9. CASE UNCHANGED fileVars
  BY <1>0, <1>9 DEF fileVars, FileTypes, FileTypeOK
<1> QED
  BY <1>1, <1>2, <1>3, <1>4, <1>5, <1>6, <1>7, <1>8, <1>9 DEF FileNext

\* The parts of FilesMatch: the second is about files nobody is busy with.
Settled(f) ==
  f \notin loose /\ (\A c \in Carriers : ~Busy(c, f))
    => (f \in object <=> f \in upload) /\ (f \in upload <=> f \in attached)

LEMMA FilesMatchParts ==
  FilesMatch <=> attached \subseteq upload /\ \A f \in Files : Settled(f)
BY DEF FilesMatch, Untouched, Settled, Busy, Held

LEMMA FilesMatchPartsPrime ==
  FilesMatch' <=> attached' \subseteq upload' /\ \A f \in Files : Settled(f)'
BY DEF FilesMatch, Untouched, Settled, Busy, Held

\* An upload starts with files that nobody has uploaded.
LEMMA BeginUploadStep ==
  ASSUME FileTypes, FilesInv, NEW c \in Carriers, NEW p \in People,
         NEW files \in Batches, BeginUpload(c, p, files)
  PROVE  FilesInv'
<1> USE DEF Busy
<1>1. /\ carrier[c].op = "still"
      /\ \A f \in Range(files) : owner[f] = Stranger
      /\ UNCHANGED <<object, upload, attached, loose>>
  BY DEF BeginUpload, Carries
<1>2. /\ carrier'[c].op = "put" /\ Held(c)' = Range(files)
      /\ \A d \in Carriers \ {c} : carrier'[d] = carrier[d]
  BY DEF BeginUpload, FileTypes, Held
<1>3. \A f \in Files : owner'[f] = IF f \in Range(files) THEN p ELSE owner[f]
  BY DEF BeginUpload
<1>4. Range(files) \subseteq Files /\ p # Stranger
  <2>1. files \in Batch
    BY DEF BeginUpload, Batches, Batch
  <2> QED
    BY <2>1, BatchParts, FilesAssumption
<1>5. \A f \in Range(files) : /\ f \notin object \cup upload \cup attached
                              /\ \A d \in Carriers : ~Busy(d, f)
  BY <1>1, <1>4 DEF FilesInv, FreshInv
<1>6. \A d \in Carriers \ {c} : /\ Held(d)' = Held(d) /\ Current(d)' = Current(d)
                                /\ Held(d)' \subseteq Files \/ carrier[d].op = "still"
  BY <1>2, SameLoad, LoadFacts
<1>7. FreshInv'
  BY <1>1, <1>2, <1>3, <1>4, <1>6 DEF FilesInv, FreshInv
<1>8. UploadKnows(c)' /\ RemovalKnows(c)'
  BY <1>1, <1>2, <1>5, <1>6 DEF UploadKnows, RemovalKnows
<1>9. ASSUME NEW d \in Carriers \ {c}
      PROVE  UploadKnows(d)' /\ RemovalKnows(d)'
  <2>1. UploadKnows(d) /\ RemovalKnows(d)
    BY DEF FilesInv
  <2>2. UploadKnows(d)'
    BY <1>1, <1>2, <1>5, <1>6, <2>1 DEF UploadKnows
  <2>3. RemovalKnows(d)'
    BY <1>1, <1>2, <1>6, <2>1 DEF RemovalKnows
  <2> QED
    BY <2>2, <2>3
<1>10. FilesMatch'
  BY <1>1, <1>2, <1>6, FilesMatchParts, FilesMatchPartsPrime DEF FilesInv, Settled
<1> QED
  BY <1>7, <1>8, <1>9, <1>10 DEF FilesInv

\* A removal starts with a file that is attached.
LEMMA BeginRemovalStep ==
  ASSUME FileTypes, FilesInv, NEW c \in Carriers, NEW p \in People,
         NEW f \in Files, BeginRemoval(c, p, f)
  PROVE  FilesInv'
<1> USE DEF Busy
<1>1. /\ carrier[c].op = "still" /\ f \in attached
      /\ UNCHANGED <<object, upload, attached, owner, loose>>
  BY DEF BeginRemoval, Carries
<1>2. /\ carrier'[c] = [op |-> "take", files |-> <<f>>]
      /\ \A d \in Carriers \ {c} : carrier'[d] = carrier[d]
  BY DEF BeginRemoval, FileTypes
<1>3. carrier'[c].op = "take" /\ Held(c)' = {f} /\ Current(c)' = f
  <2>1. <<f>> \in Batch /\ Len(<<f>>) = 1 /\ Head(<<f>>) = f
    BY DEF Batch, IsInjective
  <2>2. Range(<<f>>) = {f}
    BY <2>1, BatchParts
  <2> QED
    BY <1>2, <2>1, <2>2 DEF Held, Current
<1>4. \A d \in Carriers \ {c} : Held(d)' = Held(d) /\ Current(d)' = Current(d)
  BY <1>2, SameLoad
<1>5. FreshInv'
  BY <1>1, <1>2, <1>3, <1>4 DEF FilesInv, FreshInv
<1>6. UploadKnows(c)' /\ RemovalKnows(c)'
  BY <1>3 DEF UploadKnows, RemovalKnows
<1>7. ASSUME NEW d \in Carriers \ {c}
      PROVE  UploadKnows(d)' /\ RemovalKnows(d)'
  <2>1. UploadKnows(d) /\ RemovalKnows(d)
    BY DEF FilesInv
  <2>2. UploadKnows(d)'
    BY <1>1, <1>2, <1>3, <1>4, <2>1 DEF UploadKnows
  <2>3. RemovalKnows(d)'
    BY <1>1, <1>2, <1>4, <2>1 DEF RemovalKnows
  <2> QED
    BY <2>2, <2>3
<1>8. FilesMatch'
  BY <1>1, <1>2, <1>3, <1>4, FilesMatchParts, FilesMatchPartsPrime DEF FilesInv, Settled
<1> QED
  BY <1>5, <1>6, <1>7, <1>8 DEF FilesInv

\* A request goes on with the file it is busy with: nothing else of the bucket
\* and the rows changes, and that file stays busy.
LEMMA CarryStep ==
  ASSUME FileTypes, FilesInv, NEW c \in Carriers,
         carrier[c].op \notin {"still", "note"},
         NEW op \in {"put", "file", "attach", "take", "drop", "detach"}, Carry(c, op),
         UNCHANGED owner,
         \A f \in Files \ {Current(c)} : /\ f \in object' <=> f \in object
                                         /\ f \in upload' <=> f \in upload
                                         /\ f \in attached' <=> f \in attached
                                         /\ f \in loose' <=> f \in loose,
         Current(c) \in attached' => Current(c) \in upload',
         attached' \subseteq Files,
         UploadKnows(c)', RemovalKnows(c)',
         carrier[c].op \notin {"put", "file", "attach"} =>
           /\ object' \subseteq object /\ upload' \subseteq upload
           /\ loose \subseteq loose'
  PROVE  FilesInv'
<1> USE DEF Busy
<1> DEFINE x == Current(c)
<1>1. /\ carrier'[c].op = op /\ Held(c)' = Held(c) /\ Current(c)' = x
      /\ \A d \in Carriers \ {c} : carrier'[d] = carrier[d]
      /\ x \in Held(c) /\ x \in Files
  BY CarryFacts, LoadFacts
<1>2. \A d \in Carriers \ {c} : Held(d)' = Held(d) /\ Current(d)' = Current(d)
  BY <1>1, SameLoad
<1>3. \A d \in Carriers, f \in Files : Busy(d, f)' <=> Busy(d, f)
  BY <1>1, <1>2
<1>4. Busy(c, x) /\ owner[x] # Stranger
  BY <1>1 DEF FilesInv, FreshInv
<1>5. FreshInv'
  BY <1>3, <1>4 DEF FilesInv, FreshInv
<1>6. ASSUME NEW d \in Carriers \ {c}
      PROVE  UploadKnows(d)' /\ RemovalKnows(d)'
  <2>1. UploadKnows(d) /\ RemovalKnows(d) /\ UploadKnows(c)
    BY DEF FilesInv
  <2>2. carrier[d].op # "still" => Current(d) \in Held(d) /\ Held(d) \subseteq Files
    BY LoadFacts
  <2>3. UploadKnows(d)'
    <3> SUFFICES ASSUME carrier[d].op \in {"put", "file", "attach"}, NEW f \in Held(d)
                 PROVE  /\ f \notin attached'
                        /\ \A e \in Carriers \ {d} : ~Busy(e, f)'
                        /\ f \in object' <=> f = Current(d) /\ carrier[d].op \in {"file", "attach"}
                        /\ f \in upload' <=> f = Current(d) /\ carrier[d].op = "attach"
      BY <1>1, <1>2 DEF UploadKnows
    <3>1. f \in Files /\ f # x
      BY <1>4, <2>1, <2>2 DEF UploadKnows
    <3> QED
      BY <1>3, <2>1, <3>1 DEF UploadKnows
  <2>4. RemovalKnows(d)'
    <3>1. CASE Current(d) = x
      <4>1. CASE carrier[c].op \in {"put", "file", "attach"}
        BY <1>1, <1>2, <2>1, <2>2, <3>1, <4>1 DEF UploadKnows, RemovalKnows
      <4>2. CASE carrier[c].op \notin {"put", "file", "attach"}
        BY <1>1, <1>2, <2>1, <4>2 DEF RemovalKnows
      <4> QED
        BY <4>1, <4>2
    <3>2. CASE Current(d) # x
      BY <1>1, <1>2, <2>1, <2>2, <3>2 DEF RemovalKnows
    <3> QED
      BY <3>1, <3>2
  <2> QED
    BY <2>3, <2>4
<1>7. FilesMatch'
  <2>1. attached' \subseteq upload'
    BY FilesMatchParts DEF FilesInv
  <2>2. ASSUME NEW f \in Files
        PROVE  Settled(f)'
    <3>1. CASE f = x
      BY <1>3, <1>4, <3>1 DEF Settled
    <3>2. CASE f # x
      BY <1>3, <3>2, FilesMatchParts DEF FilesInv, Settled
    <3> QED
      BY <3>1, <3>2
  <2> QED
    BY <2>1, <2>2, FilesMatchPartsPrime
<1> QED
  BY <1>5, <1>6, <1>7 DEF FilesInv

\* A request ends, and what it was busy with is there in full, not at all, or
\* known to be loose.
LEMMA RestStep ==
  ASSUME FileTypes, FilesInv, NEW c \in Carriers, Rest(c),
         UNCHANGED <<object, upload, attached, owner>>,
         loose \subseteq loose', loose' \subseteq Files,
         \A f \in Files : Busy(c, f) /\ f \notin loose' =>
           (f \in object <=> f \in upload) /\ (f \in upload <=> f \in attached)
  PROVE  FilesInv'
<1> USE DEF Busy
<1>1. /\ carrier'[c].op = "still"
      /\ \A d \in Carriers \ {c} : carrier'[d] = carrier[d]
  BY RestFacts
<1>2. \A d \in Carriers \ {c} : Held(d)' = Held(d) /\ Current(d)' = Current(d)
  BY <1>1, SameLoad
<1>3. FreshInv'
  BY <1>1, <1>2 DEF FilesInv, FreshInv
<1>4. UploadKnows(c)' /\ RemovalKnows(c)'
  BY <1>1 DEF UploadKnows, RemovalKnows
<1>5. ASSUME NEW d \in Carriers \ {c}
      PROVE  UploadKnows(d)' /\ RemovalKnows(d)'
  <2>1. UploadKnows(d) /\ RemovalKnows(d)
    BY DEF FilesInv
  <2>2. UploadKnows(d)'
    BY <1>1, <1>2, <2>1 DEF UploadKnows
  <2>3. RemovalKnows(d)'
    BY <1>1, <1>2, <2>1 DEF RemovalKnows
  <2> QED
    BY <2>2, <2>3
<1>6. FilesMatch'
  <2>1. ASSUME NEW f \in Files
        PROVE  Settled(f)'
    BY <1>1, <1>2, FilesMatchParts DEF FilesInv, Settled
  <2> QED
    BY <2>1, FilesMatchParts, FilesMatchPartsPrime DEF FilesInv
<1> QED
  BY <1>3, <1>4, <1>5, <1>6 DEF FilesInv

\* The last write for a file: it is there in full, and the upload goes on with
\* the files it has not begun.
LEMMA CreateAttachmentStep ==
  ASSUME FileTypes, FilesInv, NEW c \in Carriers, CreateAttachment(c)
  PROVE  FilesInv'
<1> USE DEF Busy
<1> DEFINE x == Current(c)
<1>1. /\ carrier[c].op = "attach" /\ carrier[c].files \in Batch
      /\ x \in Held(c) /\ Held(c) \subseteq Files
      /\ attached' = attached \cup {x}
      /\ UNCHANGED <<object, upload, owner, loose>>
  BY LoadFacts DEF CreateAttachment, Carries
<1>2. \A d \in Carriers \ {c} : carrier'[d] = carrier[d]
  BY DEF CreateAttachment, FileTypes
<1>3. /\ carrier'[c].op \in {"put", "note"}
      /\ Held(c)' \subseteq Held(c)
      /\ carrier'[c].op = "put" => Held(c)' = Held(c) \ {x}
      /\ carrier'[c].op = "note" => Held(c) = {x}
  <2>1. CASE Len(carrier[c].files) = 1
    <3>1. Carry(c, "note")
      BY <2>1 DEF CreateAttachment, Carry
    <3>2. carrier'[c].op = "note" /\ Held(c)' = Held(c)
      BY <1>1, <3>1, CarryFacts
    <3>3. Held(c) = {x}
      BY <1>1, <2>1, BatchParts DEF Held, Current
    <3> QED
      BY <3>2, <3>3
  <2>2. CASE Len(carrier[c].files) # 1
    <3>1. carrier'[c] = [op |-> "put", files |-> Tail(carrier[c].files)]
      BY <2>2 DEF CreateAttachment, FileTypes
    <3> QED
      BY <1>1, <2>2, <3>1, BatchParts DEF Held, Current
  <2> QED
    BY <2>1, <2>2
<1>4. \A d \in Carriers \ {c} : Held(d)' = Held(d) /\ Current(d)' = Current(d)
  BY <1>2, SameLoad
<1>5. /\ x \in object /\ x \in upload
      /\ \A f \in Held(c) \ {x} : f \notin object \cup upload \cup attached
      /\ \A d \in Carriers \ {c} : \A f \in Held(c) : ~Busy(d, f)
  BY <1>1 DEF FilesInv, UploadKnows
<1>6. FreshInv'
  <2>1. owner[x] # Stranger
    BY <1>1 DEF FilesInv, FreshInv
  <2> QED
    BY <1>1, <1>2, <1>3, <1>4, <2>1 DEF FilesInv, FreshInv
<1>7. UploadKnows(c)' /\ RemovalKnows(c)'
  <2>1. UploadKnows(c)'
    <3> SUFFICES ASSUME carrier'[c].op = "put", NEW f \in Held(c) \ {x}
                 PROVE  /\ f \notin attached'
                        /\ \A d \in Carriers \ {c} : ~Busy(d, f)'
                        /\ f \notin object' /\ f \notin upload'
      BY <1>3 DEF UploadKnows
    <3> QED
      BY <1>1, <1>2, <1>4, <1>5
  <2> QED
    BY <1>3, <2>1 DEF RemovalKnows
<1>8. ASSUME NEW d \in Carriers \ {c}
      PROVE  UploadKnows(d)' /\ RemovalKnows(d)'
  <2>1. UploadKnows(d) /\ RemovalKnows(d)
    BY DEF FilesInv
  <2>2. UploadKnows(d)'
    <3> SUFFICES ASSUME carrier[d].op \in {"put", "file", "attach"}, NEW f \in Held(d)
                 PROVE  /\ f \notin attached'
                        /\ \A e \in Carriers \ {d} : ~Busy(e, f)'
                        /\ f \in object' <=> f = Current(d) /\ carrier[d].op \in {"file", "attach"}
                        /\ f \in upload' <=> f = Current(d) /\ carrier[d].op = "attach"
      BY <1>2, <1>4 DEF UploadKnows
    <3>1. f # x
      BY <1>1, <2>1 DEF UploadKnows
    <3>2. \A e \in Carriers \ {d} : ~Busy(e, f)'
      BY <1>1, <1>2, <1>3, <1>4, <2>1 DEF UploadKnows
    <3> QED
      BY <1>1, <2>1, <3>1, <3>2 DEF UploadKnows
  <2>3. RemovalKnows(d)'
    BY <1>1, <1>2, <1>4, <2>1 DEF RemovalKnows
  <2> QED
    BY <2>2, <2>3
<1>9. FilesMatch'
  <2>1. attached' \subseteq upload'
    BY <1>1, <1>5, FilesMatchParts DEF FilesInv
  <2>2. ASSUME NEW f \in Files
        PROVE  Settled(f)'
    <3>1. CASE f = x
      BY <1>1, <1>5, <3>1 DEF Settled
    <3>2. CASE f # x
      <4>1. Settled(f)
        BY FilesMatchParts DEF FilesInv
      <4>2. Busy(c, f)' <=> Busy(c, f)
        BY <1>1, <1>3, <3>2
      <4> QED
        BY <1>1, <1>2, <1>4, <3>2, <4>1, <4>2 DEF Settled
    <3> QED
      BY <3>1, <3>2
  <2> QED
    BY <2>1, <2>2, FilesMatchPartsPrime
<1> QED
  BY <1>6, <1>7, <1>8, <1>9 DEF FilesInv

\* The invariant is inductive.
LEMMA FilesInductive == FileTypes /\ FilesInv /\ [FileNext]_fileVars => FilesInv'
<1> SUFFICES ASSUME FileTypes, FilesInv, [FileNext]_fileVars
             PROVE  FilesInv'
  OBVIOUS
<1>0. /\ FileTypeOK /\ attached \subseteq upload
      /\ \A c \in Carriers : UploadKnows(c) /\ RemovalKnows(c)
  BY FilesMatchParts DEF FileTypes, FilesInv
<1>1. ASSUME NEW c \in Carriers, carrier[c].op # "still"
      PROVE  Current(c) \in Held(c) /\ Held(c) \subseteq Files
  BY <1>1, LoadFacts
<1>2. ASSUME NEW c \in Carriers, PutObject(c)
      PROVE  FilesInv'
  <2>1. /\ carrier[c].op = "put" /\ object' = object \cup {Current(c)}
        /\ Carry(c, "file") /\ UNCHANGED <<upload, attached, owner, loose>>
    BY <1>2 DEF PutObject, Carries
  <2>2. /\ carrier'[c].op = "file" /\ Held(c)' = Held(c) /\ Current(c)' = Current(c)
        /\ \A d \in Carriers \ {c} : carrier'[d] = carrier[d]
    BY <2>1, CarryFacts
  <2>3. \A d \in Carriers \ {c}, f \in Files : Busy(d, f)' <=> Busy(d, f)
    BY <2>2, SameLoad
  <2>4. UploadKnows(c)' /\ RemovalKnows(c)'
    BY <1>0, <1>1, <2>1, <2>2, <2>3 DEF UploadKnows, RemovalKnows
  <2>5. attached' \subseteq Files /\ (Current(c) \in attached' => Current(c) \in upload')
    BY <1>0, <2>1 DEF FileTypeOK
  <2> QED
    BY <2>1, <2>4, <2>5, CarryStep
<1>3. ASSUME NEW c \in Carriers, CreateUpload(c)
      PROVE  FilesInv'
  <2>1. /\ carrier[c].op = "file" /\ upload' = upload \cup {Current(c)}
        /\ Carry(c, "attach") /\ UNCHANGED <<object, attached, owner, loose>>
    BY <1>3 DEF CreateUpload, Carries
  <2>2. /\ carrier'[c].op = "attach" /\ Held(c)' = Held(c) /\ Current(c)' = Current(c)
        /\ \A d \in Carriers \ {c} : carrier'[d] = carrier[d]
    BY <2>1, CarryFacts
  <2>3. \A d \in Carriers \ {c}, f \in Files : Busy(d, f)' <=> Busy(d, f)
    BY <2>2, SameLoad
  <2>4. UploadKnows(c)' /\ RemovalKnows(c)'
    BY <1>0, <1>1, <2>1, <2>2, <2>3 DEF UploadKnows, RemovalKnows
  <2>5. attached' \subseteq Files /\ (Current(c) \in attached' => Current(c) \in upload')
    BY <1>0, <2>1 DEF FileTypeOK
  <2> QED
    BY <2>1, <2>4, <2>5, CarryStep
<1>4. ASSUME NEW c \in Carriers, NEW taken \in BOOLEAN, TakeObject(c, taken)
      PROVE  FilesInv'
  <2>1. /\ carrier[c].op = "take" /\ Carry(c, "drop") /\ UNCHANGED <<upload, attached, owner>>
        /\ object' = IF taken THEN object \ {Current(c)} ELSE object
        /\ loose' = IF taken THEN loose ELSE loose \cup {Current(c)}
    BY <1>4 DEF TakeObject, Carries
  <2>2. /\ carrier'[c].op = "drop" /\ Held(c)' = Held(c) /\ Current(c)' = Current(c)
    BY <2>1, CarryFacts
  <2>3. UploadKnows(c)' /\ RemovalKnows(c)'
    BY <1>0, <2>1, <2>2 DEF UploadKnows, RemovalKnows
  <2>4. attached' \subseteq Files /\ (Current(c) \in attached' => Current(c) \in upload')
    BY <1>0, <2>1 DEF FileTypeOK
  <2> QED
    BY <2>1, <2>3, <2>4, CarryStep
<1>5. ASSUME NEW c \in Carriers, DropUpload(c)
      PROVE  FilesInv'
  <2>1. /\ carrier[c].op = "drop" /\ Carry(c, "detach") /\ UNCHANGED <<object, owner, loose>>
        /\ upload' = upload \ {Current(c)} /\ attached' = attached \ {Current(c)}
    BY <1>5 DEF DropUpload, Carries
  <2>2. /\ carrier'[c].op = "detach" /\ Held(c)' = Held(c) /\ Current(c)' = Current(c)
    BY <2>1, CarryFacts
  <2>3. UploadKnows(c)' /\ RemovalKnows(c)'
    BY <1>0, <2>1, <2>2 DEF UploadKnows, RemovalKnows
  <2>4. attached' \subseteq Files /\ Current(c) \notin attached'
    BY <1>0, <2>1 DEF FileTypeOK
  <2> QED
    BY <2>1, <2>3, <2>4, CarryStep
<1>6. ASSUME NEW c \in Carriers, NoteUpload(c)
      PROVE  FilesInv'
  <2>1. /\ carrier[c].op = "note" /\ Rest(c)
        /\ UNCHANGED <<object, upload, attached, owner, loose>>
    BY <1>6 DEF NoteUpload, Carries
  <2>2. \A f \in Files : ~Busy(c, f)
    BY <2>1 DEF Busy
  <2> QED
    BY <1>0, <2>1, <2>2, RestStep DEF FileTypeOK
<1>7. ASSUME NEW c \in Carriers, DetachFails(c)
      PROVE  FilesInv'
  <2>1. /\ carrier[c].op \in {"drop", "detach"} /\ Current(c) \notin upload
        /\ Rest(c) /\ UNCHANGED <<object, upload, attached, owner, loose>>
    BY <1>0, <1>7 DEF DetachFails, Carries, RemovalKnows
  <2>2. \A f \in Files : Busy(c, f) /\ f \notin loose =>
          f \notin object /\ f \notin upload /\ f \notin attached
    BY <1>0, <2>1 DEF Busy, RemovalKnows
  <2> QED
    BY <1>0, <2>1, <2>2, RestStep DEF FileTypeOK
<1>8. ASSUME NEW c \in Carriers, CutShort(c)
      PROVE  FilesInv'
  <2>1. /\ carrier[c].op # "still" /\ Rest(c)
        /\ UNCHANGED <<object, upload, attached, owner>>
        /\ loose' = IF carrier[c].op \in {"note", "detach"} THEN loose
                    ELSE loose \cup {Current(c)}
    BY <1>8 DEF CutShort, Carries
  <2>2. loose \subseteq loose' /\ loose' \subseteq Files
    BY <1>0, <1>1, <2>1 DEF FileTypeOK
  <2>3. carrier[c].op \in {"put", "file", "attach", "note", "take", "drop", "detach"}
    BY <2>1 DEF FileTypes, Loads
  <2>4. ASSUME NEW f \in Files, Busy(c, f), f \notin loose'
        PROVE  f \notin object /\ f \notin upload /\ f \notin attached
    <3>1. CASE carrier[c].op \in {"put", "file", "attach"}
      BY <1>0, <2>1, <2>4, <3>1 DEF Busy, UploadKnows
    <3>2. CASE carrier[c].op = "detach"
      BY <1>0, <2>1, <2>4, <3>2 DEF Busy, RemovalKnows
    <3>3. CASE carrier[c].op \in {"take", "drop"}
      BY <1>0, <2>1, <2>4, <3>3 DEF Busy, RemovalKnows
    <3>4. carrier[c].op # "note"
      BY <2>4 DEF Busy
    <3> QED
      BY <2>3, <3>1, <3>2, <3>3, <3>4
  <2> QED
    BY <2>1, <2>2, <2>4, RestStep
<1>9. CASE UNCHANGED fileVars
  <2>1. \A c \in Carriers : /\ Held(c)' = Held(c) /\ Current(c)' = Current(c)
                            /\ \A f \in Files : Busy(c, f)' <=> Busy(c, f)
    BY <1>9, SameLoad DEF fileVars
  <2>2. UNCHANGED <<object, upload, attached, owner, carrier, loose>>
    BY <1>9 DEF fileVars
  <2>3. FreshInv'
    BY <2>1, <2>2 DEF FilesInv, FreshInv
  <2>4. \A c \in Carriers : UploadKnows(c)' /\ RemovalKnows(c)'
    <3>1. ASSUME NEW c \in Carriers
          PROVE  UploadKnows(c)'
      <4>1. carrier[c].op # "still" => Held(c) \subseteq Files
        BY <1>1
      <4> QED
        BY <1>0, <2>1, <2>2, <4>1 DEF UploadKnows
    <3>2. \A c \in Carriers : RemovalKnows(c)'
      BY <1>0, <2>1, <2>2 DEF RemovalKnows
    <3> QED
      BY <3>1, <3>2
  <2>5. FilesMatch'
    BY <2>1, <2>2, FilesMatchParts, FilesMatchPartsPrime DEF FilesInv, Settled
  <2> QED
    BY <2>3, <2>4, <2>5 DEF FilesInv
<1> QED
  BY <1>2, <1>3, <1>4, <1>5, <1>6, <1>7, <1>8, <1>9, BeginUploadStep, BeginRemovalStep,
     CreateAttachmentStep DEF FileNext

LEMMA FilesInitially == FileInit => FileTypes /\ FilesInv
<1> SUFFICES ASSUME FileInit
             PROVE  FileTypes /\ FilesInv
  OBVIOUS
<1>1. FileTypes
  BY DEF FileInit, FileTypes, FileTypeOK, Loads, Still
<1>2. \A c \in Carriers : carrier[c].op = "still"
  BY DEF FileInit, Still
<1>3. \A c \in Carriers : UploadKnows(c) /\ RemovalKnows(c)
  BY <1>2 DEF UploadKnows, RemovalKnows
<1>4. FreshInv
  BY <1>2 DEF FileInit, FreshInv, Busy
<1>5. FilesMatch
  BY DEF FileInit, FilesMatch
<1> QED
  BY <1>1, <1>3, <1>4, <1>5 DEF FilesInv

\* Every reachable state of a ticket's files is well typed.
THEOREM FileTypeCorrect == FileSpec => []FileTypeOK
<1>1. FileTypes => FileTypeOK
  BY DEF FileTypes
<1> QED
  BY <1>1, FilesInitially, FileTypesInductive, PTL DEF FileSpec

\* Whatever uploads and removals overlap, a file that none of them is busy with
\* is there in full or not at all, unless one was cut short with it.
THEOREM FilesAlwaysMatch == FileSpec => []FilesMatch
<1>1. FilesInv => FilesMatch
  BY DEF FilesInv
<1> QED
  BY <1>1, FilesInitially, FileTypesInductive, FilesInductive, PTL DEF FileSpec
=============================================================================
