----------------------- MODULE DocumentDeletionProofs -----------------------
(***************************************************************************)
(* Proofs about DocumentDeletion, for any documents, transactions and      *)
(* number of faults: no file is lost.  A rename loses what it replaces, so *)
(* the invariant says for each operation why the destinations of the files *)
(* it still has to move are free; and a directory that is being removed    *)
(* holds nothing that no commit was asked for.  And between operations     *)
(* documents are whole: the second invariant says where the files of the   *)
(* document under way are, and that all others are settled.                *)
(***************************************************************************)
EXTENDS DocumentDeletion, TLAPS

AllFiles == Docs \X Kinds \X {"kept", "new"}

Phases == {"idle", "prepare", "undo", "rollback", "unroll", "remove"}

TypeOK ==
  /\ made \subseteq AllFiles /\ place \subseteq made
  /\ staged \in [Txs -> SUBSET made]
  /\ doc \in [Txs -> Docs \cup {None}]
  /\ record \in [Txs -> (SUBSET Kinds) \cup {None}]
  /\ op \in [kind : Phases, tx : Txs \cup {None}, todo : SUBSET Kinds]
  /\ op.kind # "idle" => op.tx \in Txs /\ doc[op.tx] \in Docs

(* The files of a document are made together, its Markdown among them.     *)
Together == \A i \in made : File(i[1], "markdown") \in made

(* A transaction's record names every file it holds.                       *)
Recorded ==
  \A t \in Txs :
    /\ doc[t] = None => staged[t] = {} /\ record[t] = None
    /\ record[t] # None =>
         /\ doc[t] \in Docs /\ record[t] \subseteq Kinds
         /\ \A i \in staged[t] : i[2] \in record[t]

Free(f) == Occupant(f, doc[op.tx]) = {}
Empty(f) == StagedAs(f, op.tx) = {}

(* Why no rename of the operation under way replaces a file.               *)
DestinationsFree ==
  /\ op.kind = "prepare" => \A f \in Kinds : IF f \in op.todo THEN Empty(f) ELSE Empty(f) \/ Free(f)
  /\ op.kind = "prepare" => record[op.tx] = None
  /\ op.kind = "undo" => record[op.tx] = None
  /\ op.kind = "undo" => \A f \in op.todo : Free(f)
  /\ op.kind = "rollback" => record[op.tx] # None /\ op.todo \subseteq record[op.tx]
  /\ op.kind = "rollback" => \A f \in record[op.tx] : IF f \in op.todo THEN Free(f) ELSE Empty(f)
  /\ op.kind = "unroll" => record[op.tx] # None /\ op.todo \subseteq record[op.tx]
  /\ op.kind = "unroll" => \A f \in op.todo : Empty(f)

(* What is removed was condemned.                                          *)
RemovesCondemned == op.kind = "remove" => staged[op.tx] \subseteq condemned

(* No file is at two places.                                               *)
Apart ==
  \A i \in made :
    /\ \A t \in Txs : i \in staged[t] => i \notin place
    /\ \A t, u \in Txs : i \in staged[t] /\ i \in staged[u] => t = u

Kept == \A i \in made \ condemned : i \in place \/ \E t \in Txs : i \in staged[t]

IInv == TypeOK /\ Together /\ Recorded /\ DestinationsFree /\ RemovesCondemned /\ Apart /\ Kept

----------------------------------------------------------------------------
(* What the operators do.                                                  *)

\* The next file is one of those that are to be moved.
LEMMA CurrentIsNext ==
  ASSUME op.todo \subseteq Kinds, op.todo # {}
  PROVE  Current \in op.todo
  <1>1. \E f \in op.todo : \A g \in op.todo \ {f} : Before(f, g)
    <2>1. op.todo \in SUBSET {"markdown", "state", "artifact"}
      BY DEF Kinds
    <2>2. Rank["markdown"] = 1 /\ Rank["state"] = 2 /\ Rank["artifact"] = 3
      BY DEF Rank
    <2>3. CASE op.kind \in {"undo", "unroll"}
      <3>1. \A f, g \in op.todo : Rank[f] > Rank[g] => Before(f, g)
        BY <2>3 DEF Before
      <3>2. CASE "artifact" \in op.todo
        BY <2>1, <2>2, <3>1, <3>2
      <3>3. CASE "artifact" \notin op.todo /\ "state" \in op.todo
        BY <2>1, <2>2, <3>1, <3>3
      <3>4. CASE "artifact" \notin op.todo /\ "state" \notin op.todo
        BY <2>1, <3>4
      <3> QED BY <3>2, <3>3, <3>4
    <2>4. CASE op.kind \notin {"undo", "unroll"}
      <3>1. \A f, g \in op.todo : Rank[f] < Rank[g] => Before(f, g)
        BY <2>4 DEF Before
      <3>2. CASE "markdown" \in op.todo
        BY <2>1, <2>2, <3>1, <3>2
      <3>3. CASE "markdown" \notin op.todo /\ "state" \in op.todo
        BY <2>1, <2>2, <3>1, <3>3
      <3>4. CASE "markdown" \notin op.todo /\ "state" \notin op.todo
        BY <2>1, <3>4
      <3> QED BY <3>2, <3>3, <3>4
    <2> QED BY <2>3, <2>4
  <1> QED BY <1>1 DEF Current

\* Files that change places keep their number when nothing is replaced.
LEMMA StageKeeps ==
  ASSUME TypeOK, Apart, Kept, NEW f \in Kinds, NEW t \in Txs, doc[t] \in Docs,
         StagedAs(f, t) = {}, Stage(f, t), made' = made, condemned' = condemned
  PROVE  /\ place' \subseteq made /\ staged' \in [Txs -> SUBSET made]
         /\ Apart' /\ Kept'
         /\ \A u \in Txs \ {t} : staged'[u] = staged[u]
         /\ staged'[t] = staged[t] \cup Occupant(f, doc[t])
         /\ \A i \in Occupant(f, doc[t]) : i[2] = f
         /\ place' = place \ Occupant(f, doc[t])
  <1>1. /\ place' = place \ Occupant(f, doc[t])
        /\ staged' = [staged EXCEPT ![t] = staged[t] \cup Occupant(f, doc[t])]
    BY DEF Stage
  <1>2. /\ \A u \in Txs \ {t} : staged'[u] = staged[u]
        /\ staged'[t] = staged[t] \cup Occupant(f, doc[t])
    BY <1>1 DEF TypeOK
  <1>3. Occupant(f, doc[t]) \subseteq place /\ \A i \in Occupant(f, doc[t]) : i[2] = f
    BY DEF Occupant
  <1>4. place' \subseteq made /\ staged' \in [Txs -> SUBSET made]
    BY <1>1, <1>3 DEF TypeOK
  <1>5. Apart'
    BY <1>1, <1>2, <1>3 DEF Apart
  <1>6. Kept'
    BY <1>1, <1>2, <1>3 DEF Kept
  <1> QED BY <1>1, <1>2, <1>3, <1>4, <1>5, <1>6

LEMMA UnstageKeeps ==
  ASSUME TypeOK, Apart, Kept, NEW f \in Kinds, NEW t \in Txs, doc[t] \in Docs,
         Occupant(f, doc[t]) = {}, Unstage(f, t), made' = made,
         condemned' = condemned \/ condemned' = condemned \ StagedAs(f, t)
  PROVE  /\ place' \subseteq made /\ staged' \in [Txs -> SUBSET made]
         /\ Apart' /\ Kept'
         /\ \A u \in Txs \ {t} : staged'[u] = staged[u]
         /\ staged'[t] = staged[t] \ StagedAs(f, t)
         /\ \A i \in StagedAs(f, t) : i[2] = f
         /\ place' = place \cup StagedAs(f, t)
  <1>1. /\ place' = place \cup StagedAs(f, t)
        /\ staged' = [staged EXCEPT ![t] = staged[t] \ StagedAs(f, t)]
    BY DEF Unstage
  <1>2. /\ \A u \in Txs \ {t} : staged'[u] = staged[u]
        /\ staged'[t] = staged[t] \ StagedAs(f, t)
    BY <1>1 DEF TypeOK
  <1>3. StagedAs(f, t) \subseteq staged[t] /\ \A i \in StagedAs(f, t) : i[2] = f
    BY DEF StagedAs
  <1>4. place' \subseteq made /\ staged' \in [Txs -> SUBSET made]
    BY <1>1, <1>2, <1>3 DEF TypeOK
  <1>5. Apart'
    BY <1>1, <1>2, <1>3 DEF Apart
  <1>6. Kept'
    BY <1>1, <1>2, <1>3 DEF Kept
  <1> QED BY <1>1, <1>2, <1>3, <1>4, <1>5, <1>6

----------------------------------------------------------------------------
(* Operations that make files, and those that start.                       *)

LEMMA InitIInv == Init => IInv
  <1> SUFFICES ASSUME Init PROVE IInv
    OBVIOUS
  <1>1. made \subseteq AllFiles /\ Together
    BY FirstAssumption DEF Init, NewDocument, File, AllFiles, Kinds, Together
  <1>2. TypeOK
    BY <1>1 DEF Init, TypeOK, Idle, Phases
  <1>3. Recorded
    BY DEF Init, Recorded
  <1>4. DestinationsFree /\ RemovesCondemned
    BY DEF Init, Idle, DestinationsFree, RemovesCondemned
  <1>5. Apart /\ Kept
    BY DEF Init, Apart, Kept
  <1> QED BY <1>1, <1>2, <1>3, <1>4, <1>5 DEF IInv

\* New files disturb nothing.
LEMMA NewFilesKeep ==
  ASSUME IInv, NEW new \in SUBSET AllFiles, new \cap made = {}, Together',
         place' = place \cup new, made' = made \cup new, staged' = staged,
         condemned' = condemned
  PROVE  /\ made' \subseteq AllFiles /\ place' \subseteq made' /\ staged' \in [Txs -> SUBSET made']
         /\ Apart' /\ Kept'
  <1>1. \A t \in Txs : staged[t] \subseteq made
    BY DEF IInv, TypeOK
  <1>2. made' \subseteq AllFiles /\ place' \subseteq made' /\ staged' \in [Txs -> SUBSET made']
    BY DEF IInv, TypeOK
  <1>3. Apart'
    BY <1>1 DEF IInv, Apart
  <1>4. Kept'
    BY <1>1 DEF IInv, Kept
  <1> QED BY <1>2, <1>3, <1>4

LEMMA InitializesKeeps ==
  ASSUME IInv, NEW d \in Docs, Initializes(d), condemned' = condemned
  PROVE  /\ made' \subseteq AllFiles /\ place' \subseteq made' /\ staged' \in [Txs -> SUBSET made']
         /\ Together' /\ Apart' /\ Kept'
  <1>1. {NewState(d)} \in SUBSET AllFiles /\ {NewState(d)} \cap made = {}
    BY DEF Initializes, NewState, AllFiles, Kinds
  <1>2. Together'
    <2>1. File(d, "markdown") \in made /\ made' = made \cup {NewState(d)}
      BY DEF IInv, TypeOK, Initializes
    <2>2. NewState(d)[1] = d
      BY DEF NewState
    <2> QED BY <2>1, <2>2 DEF IInv, Together, File
  <1> QED BY <1>1, <1>2, NewFilesKeep DEF Initializes

LEMMA OpenKeeps == IInv /\ Open => IInv'
  <1> SUFFICES ASSUME IInv, Open PROVE IInv'
    OBVIOUS
  <1>1. PICK d \in Docs : Initializes(d)
    BY DEF Open
  <1>2. UNCHANGED <<staged, doc, record, op, condemned>> /\ op' = Idle
    BY <1>1 DEF Open, Initializes
  <1>3. /\ made' \subseteq AllFiles /\ place' \subseteq made' /\ staged' \in [Txs -> SUBSET made']
        /\ Together' /\ Apart' /\ Kept'
    BY <1>1, <1>2, InitializesKeeps
  <1>4. TypeOK' /\ Recorded'
    BY <1>2, <1>3 DEF IInv, TypeOK, Recorded
  <1>5. DestinationsFree' /\ RemovesCondemned'
    BY <1>2 DEF Idle, DestinationsFree, RemovesCondemned
  <1> QED BY <1>3, <1>4, <1>5 DEF IInv

LEMMA CreateKeeps ==
  ASSUME IInv, NEW d \in Docs, Create(d)
  PROVE  IInv'
  <1>1. PICK new \in NewDocument(d) : place' = place \cup new /\ made' = made \cup new
    BY DEF Create
  <1>2. UNCHANGED <<staged, doc, record, op, condemned>> /\ op' = Idle
    BY DEF Create
  <1>3. new \in SUBSET AllFiles /\ File(d, "markdown") \in new /\ \A i \in new : i[1] = d
    BY DEF NewDocument, File, AllFiles, Kinds
  <1>4. new \cap made = {}
    BY <1>3 DEF Create, IInv, Together
  <1>5. Together'
    BY <1>1, <1>3 DEF IInv, Together, File
  <1>6. /\ made' \subseteq AllFiles /\ place' \subseteq made' /\ staged' \in [Txs -> SUBSET made']
        /\ Apart' /\ Kept'
    BY <1>1, <1>2, <1>3, <1>4, <1>5, NewFilesKeep
  <1>7. TypeOK' /\ Recorded'
    BY <1>2, <1>6 DEF IInv, TypeOK, Recorded
  <1>8. DestinationsFree' /\ RemovesCondemned'
    BY <1>2 DEF Idle, DestinationsFree, RemovesCondemned
  <1> QED BY <1>5, <1>6, <1>7, <1>8 DEF IInv

LEMMA StartPrepareKeeps ==
  ASSUME IInv, NEW t \in Txs, StartPrepare(t)
  PROVE  IInv'
  <1>1. PICK d \in Docs :
          /\ doc' = [doc EXCEPT ![t] = d]
          /\ Initializes(d) \/ UNCHANGED <<files, made>>
    BY DEF StartPrepare
  <1>2. /\ UNCHANGED <<record, condemned>> /\ staged' = staged
        /\ op' = [kind |-> "prepare", tx |-> t, todo |-> Kinds] /\ doc[t] = None
    BY <1>1 DEF StartPrepare, Begin, Initializes, files
  <1>3. /\ made' \subseteq AllFiles /\ place' \subseteq made' /\ staged' \in [Txs -> SUBSET made']
        /\ Together' /\ Apart' /\ Kept'
    <2>1. CASE Initializes(d)
      BY <1>2, <2>1, InitializesKeeps
    <2>2. CASE UNCHANGED <<files, made>>
      BY <1>2, <2>2 DEF IInv, TypeOK, Together, Apart, Kept, files
    <2> QED BY <1>1, <2>1, <2>2
  <1>4. staged[t] = {} /\ record[t] = None
    BY <1>2 DEF IInv, Recorded
  <1>5. doc' \in [Txs -> Docs \cup {None}] /\ doc'[t] = d /\ \A u \in Txs \ {t} : doc'[u] = doc[u]
    BY <1>1 DEF IInv, TypeOK
  <1>6. TypeOK'
    BY <1>2, <1>3, <1>5 DEF IInv, TypeOK, Phases
  <1>7. Recorded'
    BY <1>2, <1>4, <1>5, FirstAssumption DEF IInv, Recorded
  <1>8. DestinationsFree' /\ RemovesCondemned'
    BY <1>2, <1>4 DEF DestinationsFree, RemovesCondemned, Empty, StagedAs
  <1> QED BY <1>3, <1>6, <1>7, <1>8 DEF IInv

LEMMA StartRollbackKeeps ==
  ASSUME IInv, NEW t \in Txs, StartRollback(t)
  PROVE  IInv'
  <1>1. /\ UNCHANGED <<place, staged, doc, record, made, condemned>>
        /\ op' = [kind |-> "rollback", tx |-> t, todo |-> record[t]] /\ record[t] # None
    BY DEF StartRollback, Begin, files
  <1>2. doc[t] \in Docs /\ record[t] \subseteq Kinds
    BY <1>1 DEF IInv, Recorded
  <1>3. TypeOK'
    BY <1>1, <1>2 DEF IInv, TypeOK, Phases
  <1>4. DestinationsFree' /\ RemovesCondemned'
    BY <1>1 DEF StartRollback, DestinationsFree, RemovesCondemned, Free, Occupant
  <1>5. Together' /\ Recorded' /\ Apart' /\ Kept'
    BY <1>1 DEF IInv, Together, Recorded, Apart, Kept
  <1> QED BY <1>3, <1>4, <1>5 DEF IInv

LEMMA StartCommitKeeps ==
  ASSUME IInv, NEW t \in Txs, StartCommit(t)
  PROVE  IInv'
  <1>1. /\ UNCHANGED <<place, staged, doc, record, made>> /\ record[t] # None
        /\ op' = [kind |-> "remove", tx |-> t, todo |-> {}]
        /\ condemned' = condemned \cup staged[t]
    BY DEF StartCommit, Begin, files
  <1>2. doc[t] \in Docs
    BY <1>1 DEF IInv, Recorded
  <1>3. TypeOK'
    BY <1>1, <1>2 DEF IInv, TypeOK, Phases
  <1>4. DestinationsFree' /\ RemovesCondemned'
    BY <1>1 DEF DestinationsFree, RemovesCondemned
  <1>5. Together' /\ Recorded' /\ Apart' /\ Kept'
    BY <1>1 DEF IInv, Together, Recorded, Apart, Kept
  <1> QED BY <1>3, <1>4, <1>5 DEF IInv

----------------------------------------------------------------------------
(* Steps that move nothing.                                                *)

\* An operation turns into another, or ends, with every file where it was.
LEMMA TurnsKeeps ==
  ASSUME IInv, UNCHANGED <<place, staged, doc, record, made, condemned>>,
         op' \in [kind : Phases, tx : Txs \cup {None}, todo : SUBSET Kinds],
         op'.kind # "idle" => op'.tx = op.tx /\ op.kind # "idle",
         DestinationsFree', RemovesCondemned'
  PROVE  IInv'
  <1>1. TypeOK'
    BY DEF IInv, TypeOK
  <1>2. Together' /\ Recorded' /\ Apart' /\ Kept'
    BY DEF IInv, Together, Recorded, Apart, Kept
  <1> QED BY <1>1, <1>2 DEF IInv

LEMMA EndsKeeps ==
  ASSUME IInv, UNCHANGED <<place, staged, doc, record, made, condemned>>, op' = Idle
  PROVE  IInv'
  <1>1. op' \in [kind : Phases, tx : Txs \cup {None}, todo : SUBSET Kinds]
    BY DEF Idle, Phases
  <1>2. DestinationsFree' /\ RemovesCondemned'
    BY DEF Idle, DestinationsFree, RemovesCondemned
  <1> QED BY <1>1, <1>2, TurnsKeeps DEF Idle

LEMMA PrepareSkipsKeeps == IInv /\ PrepareSkips => IInv'
  <1> SUFFICES ASSUME IInv, PrepareSkips PROVE IInv'
    OBVIOUS
  <1>1. /\ UNCHANGED <<place, staged, doc, record, made, condemned>>
        /\ op.kind = "prepare" /\ op' = [op EXCEPT !.kind = "prepare", !.todo = Rest]
        /\ Occupant(Current, doc[op.tx]) = {}
    BY DEF PrepareSkips, Step, Continue, files
  <1>2. /\ op' \in [kind : Phases, tx : Txs \cup {None}, todo : SUBSET Kinds]
        /\ op'.kind = "prepare" /\ op'.tx = op.tx /\ op'.todo = op.todo \ {Current}
    BY <1>1 DEF IInv, TypeOK, Rest, Phases
  <1>3. DestinationsFree' /\ RemovesCondemned'
    BY <1>1, <1>2 DEF IInv, DestinationsFree, RemovesCondemned, Free, Empty, StagedAs, Occupant
  <1> QED BY <1>1, <1>2, <1>3, TurnsKeeps

LEMMA PrepareFailsKeeps == IInv /\ PrepareFails => IInv'
  <1> SUFFICES ASSUME IInv, PrepareFails PROVE IInv'
    OBVIOUS
  <1>1. /\ UNCHANGED <<place, staged, doc, record, made, condemned>>
        /\ op.kind = "prepare" /\ op' = [op EXCEPT !.kind = "undo", !.todo = Moved]
    BY DEF PrepareFails, Continue, files
  <1>2. /\ op' \in [kind : Phases, tx : Txs \cup {None}, todo : SUBSET Kinds]
        /\ op'.kind = "undo" /\ op'.tx = op.tx /\ op'.todo = Moved
    BY <1>1 DEF IInv, TypeOK, Moved, Phases
  <1>3. DestinationsFree' /\ RemovesCondemned'
    BY <1>1, <1>2 DEF IInv, DestinationsFree, RemovesCondemned, Moved, Free, Empty, StagedAs, Occupant
  <1> QED BY <1>1, <1>2, <1>3, TurnsKeeps

LEMMA RollbackFailsKeeps == IInv /\ RollbackFails => IInv'
  <1> SUFFICES ASSUME IInv, RollbackFails PROVE IInv'
    OBVIOUS
  <1>1. /\ UNCHANGED <<place, staged, doc, record, made, condemned>>
        /\ op.kind = "rollback" /\ op' = [op EXCEPT !.kind = "unroll", !.todo = Restored]
    BY DEF RollbackFails, Step, Continue, files
  <1>2. record[op.tx] # None /\ record[op.tx] \subseteq Kinds
    BY <1>1 DEF IInv, TypeOK, DestinationsFree, Recorded
  <1>3. /\ op' \in [kind : Phases, tx : Txs \cup {None}, todo : SUBSET Kinds]
        /\ op'.kind = "unroll" /\ op'.tx = op.tx /\ op'.todo = record[op.tx] \ op.todo
    BY <1>1, <1>2 DEF IInv, TypeOK, Restored, Phases
  <1>4. DestinationsFree' /\ RemovesCondemned'
    BY <1>1, <1>2, <1>3 DEF IInv, DestinationsFree, RemovesCondemned, Free, Empty, StagedAs, Occupant
  <1> QED BY <1>1, <1>3, <1>4, TurnsKeeps

LEMMA RollbackEndsKeeps == IInv /\ RollbackEnds => IInv'
  <1> SUFFICES ASSUME IInv, RollbackEnds PROVE IInv'
    OBVIOUS
  <1>1. /\ UNCHANGED <<place, staged, doc, record, made, condemned>>
        /\ op.kind = "rollback" /\ op.todo = {} /\ op' = [op EXCEPT !.kind = "remove", !.todo = {}]
    BY DEF RollbackEnds, Continue, files
  <1>2. /\ op' \in [kind : Phases, tx : Txs \cup {None}, todo : SUBSET Kinds]
        /\ op'.kind = "remove" /\ op'.tx = op.tx
    BY <1>1 DEF IInv, TypeOK, Phases
  <1>3. staged[op.tx] = {}
    BY <1>1 DEF IInv, TypeOK, DestinationsFree, Recorded, Empty, StagedAs
  <1>4. DestinationsFree' /\ RemovesCondemned'
    BY <1>1, <1>2, <1>3 DEF DestinationsFree, RemovesCondemned
  <1> QED BY <1>1, <1>2, <1>4, TurnsKeeps

LEMMA PrepareRecordsKeeps == IInv /\ PrepareRecords => IInv'
  <1> SUFFICES ASSUME IInv, PrepareRecords PROVE IInv'
    OBVIOUS
  <1>1. /\ UNCHANGED <<place, staged, doc, made, condemned>> /\ op' = Idle
        /\ op.tx \in Txs /\ doc[op.tx] \in Docs
        /\ record' = [record EXCEPT ![op.tx] = {i[2] : i \in staged[op.tx]}]
    BY DEF PrepareRecords, files, IInv, TypeOK
  <1>2. {i[2] : i \in staged[op.tx]} \subseteq Kinds
    BY <1>1 DEF IInv, TypeOK, AllFiles
  <1>3. /\ record' \in [Txs -> (SUBSET Kinds) \cup {None}]
        /\ record'[op.tx] = {i[2] : i \in staged[op.tx]}
        /\ \A t \in Txs \ {op.tx} : record'[t] = record[t]
    BY <1>1, <1>2 DEF IInv, TypeOK
  <1>4. TypeOK'
    BY <1>1, <1>3 DEF IInv, TypeOK, Idle, Phases
  <1>5. Recorded'
    BY <1>1, <1>2, <1>3, FirstAssumption DEF IInv, Recorded
  <1>6. DestinationsFree' /\ RemovesCondemned'
    BY <1>1 DEF Idle, DestinationsFree, RemovesCondemned
  <1>7. Together' /\ Apart' /\ Kept'
    BY <1>1 DEF IInv, Together, Apart, Kept
  <1> QED BY <1>4, <1>5, <1>6, <1>7 DEF IInv

----------------------------------------------------------------------------
(* Steps that move or remove a file.                                       *)

LEMMA PrepareMovesKeeps == IInv /\ PrepareMoves => IInv'
  <1> SUFFICES ASSUME IInv, PrepareMoves PROVE IInv'
    OBVIOUS
  <1>0. PICK t, f : t = op.tx /\ f = Current
    OBVIOUS
  <1>1. /\ UNCHANGED <<doc, record, made, condemned>> /\ op.kind = "prepare" /\ Stage(f, t)
        /\ op' = [op EXCEPT !.kind = "prepare", !.todo = Rest]
        /\ t \in Txs /\ doc[t] \in Docs
    BY <1>0 DEF PrepareMoves, Step, Continue, IInv, TypeOK
  <1>2. f \in op.todo /\ op.todo \subseteq Kinds
    BY <1>0, CurrentIsNext DEF PrepareMoves, Step, IInv, TypeOK
  <1>3. StagedAs(f, t) = {} /\ record[t] = None
    BY <1>0, <1>1, <1>2 DEF IInv, DestinationsFree, Empty
  <1>4. /\ op' \in [kind : Phases, tx : Txs \cup {None}, todo : SUBSET Kinds]
        /\ op'.kind = "prepare" /\ op'.tx = t /\ op'.todo = op.todo \ {f}
    BY <1>0, <1>1, <1>2 DEF IInv, TypeOK, Rest, Phases
  <1>5. /\ place' \subseteq made /\ staged' \in [Txs -> SUBSET made]
        /\ Apart' /\ Kept'
        /\ \A u \in Txs \ {t} : staged'[u] = staged[u]
        /\ staged'[t] = staged[t] \cup Occupant(f, doc[t])
        /\ \A i \in Occupant(f, doc[t]) : i[2] = f
        /\ place' = place \ Occupant(f, doc[t])
    BY <1>0, <1>1, <1>2, <1>3, StageKeeps DEF IInv
  <1>6. TypeOK' /\ Together'
    BY <1>0, <1>1, <1>4, <1>5 DEF IInv, TypeOK, Together
  <1>7. Recorded'
    BY <1>0, <1>1, <1>3, <1>5, FirstAssumption DEF IInv, Recorded
  <1>8. DestinationsFree'
    <2>1. ASSUME NEW g \in Kinds, g # f
          PROVE  StagedAs(g, t)' = StagedAs(g, t) /\ Occupant(g, doc[t])' = Occupant(g, doc[t])
      BY <1>0, <1>1, <1>4, <1>5, <2>1 DEF StagedAs, Occupant
    <2>2. Occupant(f, doc[t])' = {}
      BY <1>0, <1>1, <1>4, <1>5 DEF Occupant
    <2> QED BY <1>0, <1>1, <1>3, <1>4, <2>1, <2>2 DEF IInv, DestinationsFree, Free, Empty
  <1> QED BY <1>0, <1>4, <1>5, <1>6, <1>7, <1>8 DEF IInv, RemovesCondemned

LEMMA UndoKeeps == IInv /\ Undo => IInv'
  <1> SUFFICES ASSUME IInv, Undo PROVE IInv'
    OBVIOUS
  <1>0. PICK t, f : t = op.tx /\ f = Current
    OBVIOUS
  <1>1. /\ UNCHANGED <<doc, record, made, condemned>> /\ op.kind = "undo"
        /\ t \in Txs /\ doc[t] \in Docs /\ record[t] = None
    BY <1>0 DEF Undo, IInv, TypeOK, DestinationsFree
  <1>2. CASE op.todo # {} /\ Unstage(f, t) /\ Continue("undo", Rest)
    <2>1. f \in op.todo /\ op.todo \subseteq Kinds
      BY <1>0, <1>2, CurrentIsNext DEF IInv, TypeOK
    <2>2. /\ op' \in [kind : Phases, tx : Txs \cup {None}, todo : SUBSET Kinds]
          /\ op'.kind = "undo" /\ op'.tx = t /\ op'.todo = op.todo \ {f}
      BY <1>0, <1>2 DEF IInv, TypeOK, Continue, Rest, Phases
    <2>3. Occupant(f, doc[t]) = {}
      BY <1>0, <1>1, <2>1 DEF IInv, DestinationsFree, Free
    <2>4. /\ place' \subseteq made /\ staged' \in [Txs -> SUBSET made]
          /\ Apart' /\ Kept'
          /\ \A u \in Txs \ {t} : staged'[u] = staged[u]
          /\ staged'[t] = staged[t] \ StagedAs(f, t)
          /\ \A i \in StagedAs(f, t) : i[2] = f
          /\ place' = place \cup StagedAs(f, t)
      BY <1>0, <1>1, <1>2, <2>1, <2>3, UnstageKeeps DEF IInv
    <2>5. TypeOK' /\ Together'
      BY <1>0, <1>1, <2>2, <2>4 DEF IInv, TypeOK, Together
    <2>6. Recorded'
      BY <1>0, <1>1, <2>4, FirstAssumption DEF IInv, Recorded
    <2>7. DestinationsFree'
      <3>1. ASSUME NEW g \in op.todo, g # f
            PROVE  Occupant(g, doc[t])' = Occupant(g, doc[t])
        BY <1>0, <1>1, <2>2, <2>4, <3>1 DEF Occupant
      <3> QED BY <1>0, <1>1, <2>2, <3>1 DEF IInv, DestinationsFree, Free
    <2> QED BY <1>0, <2>2, <2>4, <2>5, <2>6, <2>7 DEF IInv, RemovesCondemned
  <1>3. CASE op.todo # {} /\ Continue("undo", Rest) /\ UNCHANGED files
    <2>1. /\ op' \in [kind : Phases, tx : Txs \cup {None}, todo : SUBSET Kinds]
          /\ op'.kind = "undo" /\ op'.tx = t /\ op'.todo \subseteq op.todo
      BY <1>0, <1>3 DEF IInv, TypeOK, Continue, Rest, Phases
    <2>2. DestinationsFree' /\ RemovesCondemned'
      BY <1>0, <1>1, <1>3, <2>1 DEF IInv, DestinationsFree, RemovesCondemned, Free, Occupant, files
    <2> QED BY <1>0, <1>1, <1>3, <2>1, <2>2, TurnsKeeps DEF files
  <1>4. CASE staged[t] = {} /\ Continue("remove", {}) /\ UNCHANGED files
    <2>1. /\ op' \in [kind : Phases, tx : Txs \cup {None}, todo : SUBSET Kinds]
          /\ op'.kind = "remove" /\ op'.tx = t
      BY <1>0, <1>4 DEF IInv, TypeOK, Continue, Phases
    <2>2. DestinationsFree' /\ RemovesCondemned'
      BY <1>0, <1>1, <1>4, <2>1 DEF DestinationsFree, RemovesCondemned, files
    <2> QED BY <1>0, <1>1, <1>4, <2>1, <2>2, TurnsKeeps DEF files
  <1>5. CASE op' = Idle /\ UNCHANGED files
    BY <1>0, <1>1, <1>5, EndsKeeps DEF files
  <1> QED BY <1>0, <1>2, <1>3, <1>4, <1>5 DEF Undo

LEMMA RollbackMovesKeeps == IInv /\ RollbackMoves => IInv'
  <1> SUFFICES ASSUME IInv, RollbackMoves PROVE IInv'
    OBVIOUS
  <1>0. PICK t, f : t = op.tx /\ f = Current
    OBVIOUS
  <1>1. /\ UNCHANGED <<doc, record, made>> /\ op.kind = "rollback" /\ Unstage(f, t)
        /\ op' = [op EXCEPT !.kind = "rollback", !.todo = Rest]
        /\ condemned' = condemned \ StagedAs(f, t)
        /\ t \in Txs /\ doc[t] \in Docs
    BY <1>0 DEF RollbackMoves, Step, Continue, IInv, TypeOK
  <1>2. f \in op.todo /\ op.todo \subseteq Kinds /\ op.todo \subseteq record[t] /\ record[t] # None
    BY <1>0, <1>1, CurrentIsNext DEF RollbackMoves, Step, IInv, TypeOK, DestinationsFree
  <1>3. Occupant(f, doc[t]) = {}
    BY <1>0, <1>1, <1>2 DEF IInv, DestinationsFree, Free
  <1>4. /\ op' \in [kind : Phases, tx : Txs \cup {None}, todo : SUBSET Kinds]
        /\ op'.kind = "rollback" /\ op'.tx = t /\ op'.todo = op.todo \ {f}
    BY <1>0, <1>1, <1>2 DEF IInv, TypeOK, Rest, Phases
  <1>5. /\ place' \subseteq made /\ staged' \in [Txs -> SUBSET made]
        /\ Apart' /\ Kept'
        /\ \A u \in Txs \ {t} : staged'[u] = staged[u]
        /\ staged'[t] = staged[t] \ StagedAs(f, t)
        /\ \A i \in StagedAs(f, t) : i[2] = f
        /\ place' = place \cup StagedAs(f, t)
    BY <1>0, <1>1, <1>2, <1>3, UnstageKeeps DEF IInv
  <1>6. TypeOK' /\ Together'
    BY <1>0, <1>1, <1>4, <1>5 DEF IInv, TypeOK, Together
  <1>7. Recorded'
    BY <1>0, <1>1, <1>5 DEF IInv, Recorded
  <1>8. DestinationsFree'
    <2>1. ASSUME NEW g \in record[t], g # f
          PROVE  StagedAs(g, t)' = StagedAs(g, t) /\ Occupant(g, doc[t])' = Occupant(g, doc[t])
      BY <1>0, <1>1, <1>4, <1>5, <2>1 DEF StagedAs, Occupant
    <2>2. StagedAs(f, t)' = {}
      BY <1>0, <1>5 DEF StagedAs
    <2> QED BY <1>0, <1>1, <1>2, <1>4, <2>1, <2>2 DEF IInv, DestinationsFree, Free, Empty
  <1> QED BY <1>0, <1>4, <1>5, <1>6, <1>7, <1>8 DEF IInv, RemovesCondemned

LEMMA UnrollKeeps == IInv /\ Unroll => IInv'
  <1> SUFFICES ASSUME IInv, Unroll PROVE IInv'
    OBVIOUS
  <1>0. PICK t, f : t = op.tx /\ f = Current
    OBVIOUS
  <1>1. /\ UNCHANGED <<doc, record, made, condemned>> /\ op.kind = "unroll"
        /\ t \in Txs /\ doc[t] \in Docs /\ record[t] # None /\ op.todo \subseteq record[t]
    BY <1>0 DEF Unroll, IInv, TypeOK, DestinationsFree
  <1>2. CASE op.todo # {} /\ Stage(f, t) /\ Continue("unroll", Rest)
    <2>1. f \in op.todo /\ op.todo \subseteq Kinds
      BY <1>0, <1>2, CurrentIsNext DEF IInv, TypeOK
    <2>2. /\ op' \in [kind : Phases, tx : Txs \cup {None}, todo : SUBSET Kinds]
          /\ op'.kind = "unroll" /\ op'.tx = t /\ op'.todo = op.todo \ {f}
      BY <1>0, <1>2 DEF IInv, TypeOK, Continue, Rest, Phases
    <2>3. StagedAs(f, t) = {}
      BY <1>0, <1>1, <2>1 DEF IInv, DestinationsFree, Empty
    <2>4. /\ place' \subseteq made /\ staged' \in [Txs -> SUBSET made]
          /\ Apart' /\ Kept'
          /\ \A u \in Txs \ {t} : staged'[u] = staged[u]
          /\ staged'[t] = staged[t] \cup Occupant(f, doc[t])
          /\ \A i \in Occupant(f, doc[t]) : i[2] = f
          /\ place' = place \ Occupant(f, doc[t])
      BY <1>0, <1>1, <1>2, <2>1, <2>3, StageKeeps DEF IInv
    <2>5. TypeOK' /\ Together'
      BY <1>0, <1>1, <2>2, <2>4 DEF IInv, TypeOK, Together
    <2>6. Recorded'
      BY <1>0, <1>1, <2>1, <2>4 DEF IInv, Recorded
    <2>7. DestinationsFree'
      <3>1. ASSUME NEW g \in op.todo, g # f
            PROVE  StagedAs(g, t)' = StagedAs(g, t)
        BY <1>0, <1>1, <2>2, <2>4, <3>1 DEF StagedAs
      <3> QED BY <1>0, <1>1, <2>2, <3>1 DEF IInv, DestinationsFree, Empty
    <2> QED BY <1>0, <2>2, <2>4, <2>5, <2>6, <2>7 DEF IInv, RemovesCondemned
  <1>3. CASE op.todo # {} /\ Continue("unroll", Rest) /\ UNCHANGED files
    <2>1. /\ op' \in [kind : Phases, tx : Txs \cup {None}, todo : SUBSET Kinds]
          /\ op'.kind = "unroll" /\ op'.tx = t /\ op'.todo \subseteq op.todo
      BY <1>0, <1>3 DEF IInv, TypeOK, Continue, Rest, Phases
    <2>2. DestinationsFree' /\ RemovesCondemned'
      BY <1>0, <1>1, <1>3, <2>1 DEF IInv, DestinationsFree, RemovesCondemned, Empty, StagedAs, files
    <2> QED BY <1>0, <1>1, <1>3, <2>1, <2>2, TurnsKeeps DEF files
  <1>4. CASE op' = Idle /\ UNCHANGED files
    BY <1>0, <1>1, <1>4, EndsKeeps DEF files
  <1> QED BY <1>0, <1>2, <1>3, <1>4 DEF Unroll

LEMMA RemoveEntryKeeps == IInv /\ RemoveEntry => IInv'
  <1> SUFFICES ASSUME IInv, RemoveEntry PROVE IInv'
    OBVIOUS
  <1> DEFINE t == op.tx
  <1>1. /\ UNCHANGED <<place, doc, made, condemned>> /\ op.kind = "remove"
        /\ t \in Txs /\ doc[t] \in Docs /\ staged[t] \subseteq condemned
    BY DEF RemoveEntry, IInv, TypeOK, RemovesCondemned
  <1> HIDE DEF t
  <1>2. CASE /\ \E i \in staged[t] : staged' = [staged EXCEPT ![t] = @ \ {i}]
             /\ UNCHANGED <<record, op>>
    <2>1. PICK i \in staged[t] : staged' = [staged EXCEPT ![t] = @ \ {i}]
      BY <1>2
    <2>2. /\ staged' \in [Txs -> SUBSET made] /\ staged'[t] = staged[t] \ {i}
          /\ \A u \in Txs \ {t} : staged'[u] = staged[u]
      BY <1>1, <2>1 DEF IInv, TypeOK
    <2>3. TypeOK' /\ Together'
      BY <1>1, <1>2, <2>2 DEF IInv, TypeOK, Together
    <2>4. Recorded'
      BY <1>1, <1>2, <2>2, FirstAssumption DEF IInv, Recorded
    <2>5. DestinationsFree' /\ RemovesCondemned'
      BY <1>1, <1>2, <2>2 DEF IInv, DestinationsFree, RemovesCondemned, t
    <2>6. Apart' /\ Kept'
      BY <1>1, <1>2, <2>2 DEF IInv, Apart, Kept
    <2> QED BY <2>3, <2>4, <2>5, <2>6 DEF IInv
  <1>3. CASE record' = [record EXCEPT ![t] = None] /\ UNCHANGED <<staged, op>>
    <2>1. /\ record' \in [Txs -> (SUBSET Kinds) \cup {None}] /\ record'[t] = None
          /\ \A u \in Txs \ {t} : record'[u] = record[u]
      BY <1>1, <1>3 DEF IInv, TypeOK
    <2>2. TypeOK' /\ Together' /\ Apart' /\ Kept'
      BY <1>1, <1>3, <2>1 DEF IInv, TypeOK, Together, Apart, Kept
    <2>3. Recorded'
      BY <1>1, <1>3, <2>1 DEF IInv, Recorded
    <2>4. DestinationsFree' /\ RemovesCondemned'
      BY <1>1, <1>3 DEF IInv, DestinationsFree, RemovesCondemned
    <2> QED BY <2>2, <2>3, <2>4 DEF IInv
  <1>4. CASE op' = Idle /\ UNCHANGED <<staged, record>>
    BY <1>1, <1>4, EndsKeeps
  <1> QED BY <1>2, <1>3, <1>4 DEF RemoveEntry, t

LEMMA CrashKeeps == IInv /\ Crash => IInv'
  BY EndsKeeps DEF Crash, files

LEMMA StutterKeeps == IInv /\ UNCHANGED vars => IInv'
  BY DEF vars, files, IInv, TypeOK, Together, Recorded, DestinationsFree, RemovesCondemned, Apart, Kept,
         Free, Empty, Occupant, StagedAs

----------------------------------------------------------------------------
(* No file is lost.                                                        *)

\* Every reachable state satisfies the invariant.
THEOREM Invariance == Spec => []IInv
  <1>1. IInv /\ [Next]_vars => IInv'
    BY OpenKeeps, CreateKeeps, StartPrepareKeeps, StartRollbackKeeps, StartCommitKeeps,
       PrepareMovesKeeps, PrepareSkipsKeeps, PrepareRecordsKeeps, PrepareFailsKeeps, UndoKeeps,
       RollbackMovesKeeps, RollbackFailsKeeps, RollbackEndsKeeps, UnrollKeeps, RemoveEntryKeeps,
       CrashKeeps, StutterKeeps DEF Next
  <1> QED BY <1>1, InitIInv, PTL DEF Spec

\* Every variable keeps its type.
THEOREM TypeCorrect == Spec => []TypeOK
  BY Invariance, PTL DEF IInv

\* Prepare, commit, rollback and recovery lose no file that no commit was
\* asked to remove, whatever fails or dies and however often.
THEOREM NoFileIsLost == Spec => []NothingLost
  <1>1. IInv => NothingLost
    <2> SUFFICES ASSUME IInv, NEW i \in made \ condemned
                 PROVE  \E p \in Where(i) : Where(i) = {p}
      BY DEF NothingLost
    <2>1. None \notin Txs
      BY FirstAssumption
    <2>2. CASE i \in place
      <3>1. Where(i) = {None}
        BY <2>1, <2>2 DEF Where, IInv, Apart
      <3> QED BY <3>1
    <2>3. CASE i \notin place
      <3>1. PICK t \in Txs : i \in staged[t]
        BY <2>3 DEF IInv, Kept
      <3>2. Where(i) = {t}
        BY <2>1, <2>3, <3>1 DEF Where, IInv, Apart
      <3> QED BY <3>2
    <2> QED BY <2>2, <2>3
  <1> QED BY <1>1, Invariance, PTL

----------------------------------------------------------------------------
(* Nothing but whole documents, as long as no operation died half way and  *)
(* none met two failures.                                                  *)

KindsOf(d) == {i[2] : i \in FilesOf(d)}

Present(d) == FilesOf(d) \subseteq place
Held(d, t) == staged[t] = FilesOf(d) /\ record[t] = KindsOf(d)

(* A condemned file that no rollback can bring back.                       *)
Gone(i) == i \in condemned /\ i \notin place /\ \A t \in Txs : i \in staged[t] => record[t] = None
Lost(d) == \E i \in FilesOf(d) : Gone(i)

Settled(d) ==
  \/ Present(d)
  \/ \E t \in Txs : Held(d, t)
  \/ FilesOf(d) \cap place = {} /\ Lost(d)

(* The document of the operation under way.                                *)
Subject == doc[op.tx]
Whole == place \cup staged[op.tx] = FilesOf(Subject)
Elsewhere == Lost(Subject) \/ \E u \in Txs \ {op.tx} : Held(Subject, u)

Moving == {"prepare", "undo", "rollback", "unroll"}

(* No open ever found a document without its state.                        *)
NoneRemade == \A i \in made : i[3] = "kept" /\ File(i[1], "state") \in made

OneAtThePath == \A i, j \in place : i[1] = j[1]

Records ==
  \A t \in Txs : doc[t] # None =>
    /\ FilesOf(doc[t]) # {} /\ staged[t] \subseteq FilesOf(doc[t])
    /\ record[t] # None => record[t] = KindsOf(doc[t])

(* All documents are settled but the one that is moved, of which nothing   *)
(* is missing, unless it is not this transaction that has it: then the     *)
(* rollback cannot get to its end.                                         *)
Progress ==
  /\ op.kind \notin Moving => \A d \in Docs : Settled(d)
  /\ op.kind \in Moving =>
       place \subseteq FilesOf(Subject) /\ \A d \in Docs \ {Subject} : Settled(d)
  /\ op.kind \in {"undo", "unroll"} => failures # 0
  /\ op.kind = "prepare" => Whole /\ \A f \in Kinds \ op.todo : Free(f)
  /\ op.kind = "undo" => Whole /\ \A i \in staged[op.tx] : i[2] \in op.todo
  /\ op.kind = "rollback" => Whole \/ (Elsewhere /\ \E f \in op.todo : Empty(f))
  /\ op.kind = "unroll" => (Whole \/ Elsewhere) /\ \A i \in place : i[2] \in op.todo

Orderly == sound => NoneRemade /\ OneAtThePath /\ Records /\ Progress

----------------------------------------------------------------------------

\* Documents share no file, and each has one file of a kind.
LEMMA FilesFacts ==
  /\ \A d, e : d # e => FilesOf(d) \cap FilesOf(e) = {}
  /\ \A d : FilesOf(d) \subseteq made
  /\ \A i \in made : i \in FilesOf(i[1])
  BY DEF FilesOf

LEMMA OneOfAKind ==
  ASSUME IInv, NoneRemade
  PROVE  \A d : \A i, j \in FilesOf(d) : i[2] = j[2] => i = j
  <1>1. \A i \in AllFiles : i = <<i[1], i[2], i[3]>>
    BY DEF AllFiles
  <1> QED BY <1>1 DEF IInv, TypeOK, NoneRemade, FilesOf

\* A document that was made has a Markdown and a state, in their places.
LEMMA HasBoth ==
  ASSUME IInv, NoneRemade, NEW d, FilesOf(d) # {}
  PROVE  File(d, "markdown") \in FilesOf(d) /\ File(d, "state") \in FilesOf(d)
  BY DEF IInv, Together, NoneRemade, FilesOf, File

\* With whichever file of a document at the path, all of it is there.
LEMMA PresentIfAny ==
  ASSUME IInv, NEW d, Settled(d), NEW i \in FilesOf(d), i \in place
  PROVE  Present(d)
  BY DEF IInv, Apart, Settled, Held, FilesOf

\* What was settled stays so when no file moves.
LEMMA SettledStays ==
  ASSUME NEW d, Settled(d), UNCHANGED <<place, staged, record, made>>, condemned \subseteq condemned'
  PROVE  Settled(d)'
  BY DEF Settled, Present, Held, Lost, Gone, KindsOf, FilesOf

\* Moving the files of one document leaves the others settled.
LEMMA OthersStay ==
  ASSUME NEW t \in Txs, NEW e, made' = made,
         \A u \in Txs \ {t} : staged'[u] = staged[u] /\ record'[u] = record[u],
         staged[t] \subseteq FilesOf(e), staged'[t] \subseteq FilesOf(e),
         place \subseteq FilesOf(e), place' \subseteq FilesOf(e),
         condemned \ FilesOf(e) \subseteq condemned',
         NEW d, d # e, Settled(d)
  PROVE  Settled(d)'
  <1>1. FilesOf(d)' = FilesOf(d) /\ KindsOf(d)' = KindsOf(d)
    BY DEF FilesOf, KindsOf
  <1>2. FilesOf(d) \cap FilesOf(e) = {}
    BY FilesFacts
  <1>3. CASE FilesOf(d) = {}
    BY <1>1, <1>3 DEF Settled, Present
  <1>4. CASE FilesOf(d) # {}
    <2>1. ~Present(d) /\ ~Held(d, t)
      BY <1>2, <1>4 DEF Present, Held
    <2>2. ASSUME NEW u \in Txs, Held(d, u) PROVE Settled(d)'
      BY <1>1, <2>1, <2>2 DEF Settled, Held
    <2>3. CASE FilesOf(d) \cap place = {} /\ Lost(d)
      <3>1. PICK i \in FilesOf(d) : Gone(i)
        BY <2>3 DEF Lost
      <3>2. Gone(i)'
        BY <1>2, <3>1 DEF Gone
      <3>3. FilesOf(d) \cap place' = {}
        BY <1>2
      <3> QED BY <1>1, <3>1, <3>2, <3>3 DEF Settled, Lost
    <2> QED BY <2>1, <2>2, <2>3 DEF Settled
  <1> QED BY <1>3, <1>4

\* A transaction that does not hold its document can be moved to and fro.
LEMMA ElsewhereStays ==
  ASSUME NEW t \in Txs, t = op.tx, op'.tx = t, UNCHANGED <<doc, record, made>>, record[t] # None,
         \A u \in Txs \ {t} : staged'[u] = staged[u],
         place' \cup staged'[t] = place \cup staged[t],
         condemned \ staged[t] \subseteq condemned', Elsewhere
  PROVE  Elsewhere'
  <1>1. Subject' = Subject /\ FilesOf(Subject)' = FilesOf(Subject)
        /\ KindsOf(Subject)' = KindsOf(Subject)
    BY DEF Subject, FilesOf, KindsOf
  <1>2. ASSUME NEW i \in FilesOf(Subject), Gone(i) PROVE Gone(i)'
    BY <1>2 DEF Gone
  <1>3. ASSUME NEW u \in Txs \ {t}, Held(Subject, u) PROVE Held(Subject, u)'
    BY <1>1, <1>3 DEF Held
  <1> QED BY <1>1, <1>2, <1>3 DEF Elsewhere, Lost

\* A rename that replaces nothing leaves the rest of the picture as it was.
LEMMA MoveKeeps ==
  ASSUME IInv, IInv', Orderly, sound, NEW t \in Txs, t = op.tx, op'.tx = t, op.kind \in Moving,
         UNCHANGED <<doc, record, made>>,
         \A u \in Txs \ {t} : staged'[u] = staged[u],
         place' \cup staged'[t] = place \cup staged[t],
         condemned \ staged[t] \subseteq condemned'
  PROVE  /\ NoneRemade' /\ OneAtThePath' /\ Records'
         /\ place' \subseteq FilesOf(Subject)' /\ \A d \in Docs \ {Subject'} : Settled(d)'
         /\ Whole => Whole'
         /\ record[t] # None /\ Elsewhere => Elsewhere'
  <1>1. /\ doc[t] = Subject /\ Subject \in Docs /\ Subject' = Subject
        /\ \A d : FilesOf(d)' = FilesOf(d) /\ KindsOf(d)' = KindsOf(d)
    BY DEF Subject, FilesOf, KindsOf, Moving, IInv, TypeOK
  <1>2. /\ NoneRemade /\ Records /\ Progress
        /\ place \subseteq FilesOf(Subject) /\ \A d \in Docs \ {Subject} : Settled(d)
    BY DEF Orderly, Progress
  <1>3. staged[t] \subseteq FilesOf(Subject) /\ FilesOf(Subject) # {}
    BY <1>1, <1>2, FirstAssumption DEF Records
  <1>4. place' \subseteq FilesOf(Subject) /\ staged'[t] \subseteq FilesOf(Subject)
    BY <1>2, <1>3
  <1>5. NoneRemade' /\ OneAtThePath'
    BY <1>2, <1>4 DEF NoneRemade, OneAtThePath, FilesOf
  <1>6. Records'
    BY <1>1, <1>2, <1>4 DEF Records
  <1>7. \A d \in Docs \ {Subject} : Settled(d)'
    BY <1>2, <1>3, <1>4, OthersStay
  <1>8. Whole => Whole'
    BY <1>1 DEF Whole
  <1> QED BY <1>1, <1>4, <1>5, <1>6, <1>7, <1>8, ElsewhereStays

\* Where all renamed files go.
LEMMA StageMoves ==
  ASSUME IInv, NEW t \in Txs, NEW f, Stage(f, t), StagedAs(f, t) = {}
  PROVE  /\ place' = place \ Occupant(f, doc[t]) /\ staged'[t] = staged[t] \cup Occupant(f, doc[t])
         /\ \A u \in Txs \ {t} : staged'[u] = staged[u]
         /\ place' \cup staged'[t] = place \cup staged[t]
  BY DEF Stage, IInv, TypeOK, Occupant

LEMMA UnstageMoves ==
  ASSUME IInv, NEW t \in Txs, NEW f, Unstage(f, t), Occupant(f, doc[t]) = {}
  PROVE  /\ place' = place \cup StagedAs(f, t) /\ staged'[t] = staged[t] \ StagedAs(f, t)
         /\ \A u \in Txs \ {t} : staged'[u] = staged[u]
         /\ place' \cup staged'[t] = place \cup staged[t]
  BY DEF Unstage, IInv, TypeOK, StagedAs

\* With documents apart, the occupants of a name are the files of that kind.
LEMMA OccupantIsOfKind ==
  ASSUME NEW d, place \subseteq FilesOf(d), NEW f
  PROVE  Occupant(f, d) = {i \in place : i[2] = f}
  BY DEF Occupant, FilesOf

----------------------------------------------------------------------------
(* Operations that start.                                                  *)

LEMMA InitOrderly == Init => Orderly
  <1> SUFFICES ASSUME Init PROVE Orderly
    OBVIOUS
  <1>1. \A d \in Docs : FilesOf(d) \subseteq place
    BY DEF Init, FilesOf
  <1>2. NoneRemade /\ OneAtThePath
    BY DEF Init, NewDocument, File, NoneRemade, OneAtThePath
  <1>3. Records
    BY DEF Init, Records
  <1>4. Progress
    BY <1>1 DEF Init, Idle, Progress, Settled, Present, Moving
  <1> QED BY <1>2, <1>3, <1>4 DEF Orderly

LEMMA IdleIsSettled ==
  ASSUME Orderly, sound, op = Idle
  PROVE  NoneRemade /\ OneAtThePath /\ Records /\ \A d \in Docs : Settled(d)
  BY DEF Orderly, Progress, Idle, Moving

\* No document without a state is met.
LEMMA NoInitialization ==
  ASSUME IInv, Orderly, sound, op = Idle, NEW d \in Docs, Initializes(d)
  PROVE  FALSE
  <1>1. NoneRemade /\ Settled(d) /\ File(d, "markdown") \in place
    BY IdleIsSettled DEF Initializes
  <1>2. File(d, "markdown") \in FilesOf(d)
    BY <1>1 DEF IInv, TypeOK, FilesOf, File
  <1>3. File(d, "state") \in place
    BY <1>1, <1>2, PresentIfAny, HasBoth DEF Present
  <1> QED BY <1>3 DEF Initializes, File

LEMMA OpenOrderly == IInv /\ Orderly /\ Open => Orderly'
  BY NoInitialization DEF Open, Orderly

\* With no Markdown at the path there is nothing at it.
LEMMA NoMarkdownNoFile ==
  ASSUME IInv, Orderly, sound, op = Idle, NEW d, Occupant("markdown", d) = {}
  PROVE  place = {}
  <1> SUFFICES ASSUME NEW i \in place PROVE FALSE
    OBVIOUS
  <1>1. i \in FilesOf(i[1]) /\ i[1] \in Docs
    BY DEF IInv, TypeOK, AllFiles, FilesOf
  <1>2. NoneRemade /\ Present(i[1])
    BY <1>1, IdleIsSettled, PresentIfAny
  <1>3. File(i[1], "markdown") \in place
    BY <1>1, <1>2, HasBoth DEF Present
  <1> QED BY <1>3 DEF Occupant, File

LEMMA CreateOrderly ==
  ASSUME IInv, Orderly, NEW d \in Docs, Create(d)
  PROVE  Orderly'
  <1> SUFFICES ASSUME sound PROVE Orderly'
    BY DEF Create, Orderly
  <1>1. PICK new \in NewDocument(d) : place' = place \cup new /\ made' = made \cup new
    BY DEF Create
  <1>2. UNCHANGED <<staged, doc, record, op, condemned>> /\ op = Idle /\ place = {}
    BY NoMarkdownNoFile DEF Create
  <1>3. /\ \A i \in new : i[1] = d /\ i[3] = "kept"
        /\ File(d, "state") \in new
    BY DEF NewDocument, File
  <1>4. FilesOf(d) = {} /\ FilesOf(d)' = new /\ \A e : e # d => FilesOf(e)' = FilesOf(e)
    BY <1>1, <1>3 DEF Create, IInv, Together, FilesOf
  <1>5. NoneRemade /\ Records /\ \A e \in Docs : Settled(e)
    BY <1>2, IdleIsSettled
  <1>6. NoneRemade'
    BY <1>1, <1>3, <1>5 DEF NoneRemade, File
  <1>7. OneAtThePath'
    BY <1>1, <1>2, <1>3 DEF OneAtThePath
  <1>8. Records'
    BY <1>2, <1>4, <1>5 DEF Records, KindsOf
  <1>9. ASSUME NEW e \in Docs PROVE Settled(e)'
    <2>1. CASE e = d
      BY <1>1, <1>4, <2>1 DEF Settled, Present
    <2>2. CASE e # d
      <3>1. FilesOf(e)' = FilesOf(e) /\ FilesOf(e) \cap new = {} /\ KindsOf(e)' = KindsOf(e)
        BY <1>3, <1>4, <2>2 DEF FilesOf, KindsOf
      <3>2. \A i \in FilesOf(e) : Gone(i) => Gone(i)'
        BY <1>1, <1>2, <3>1 DEF Gone
      <3> QED BY <1>1, <1>2, <1>5, <3>1, <3>2 DEF Settled, Present, Held, Lost
    <2> QED BY <2>1, <2>2
  <1>10. Progress'
    BY <1>2, <1>9 DEF Progress, Idle, Moving
  <1> QED BY <1>6, <1>7, <1>8, <1>10 DEF Orderly

LEMMA StartPrepareOrderly ==
  ASSUME IInv, Orderly, NEW t \in Txs, StartPrepare(t)
  PROVE  Orderly'
  <1> SUFFICES ASSUME sound PROVE Orderly'
    BY DEF StartPrepare, Orderly
  <1>1. op = Idle /\ doc[t] = None
    BY DEF StartPrepare, Begin
  <1>2. PICK d \in Docs :
          /\ doc' = [doc EXCEPT ![t] = d] /\ Occupant("state", d) # {}
          /\ UNCHANGED <<place, staged, made, record, condemned>>
    BY <1>1, NoInitialization DEF StartPrepare, files
  <1>3. op' = [kind |-> "prepare", tx |-> t, todo |-> Kinds]
    BY DEF StartPrepare, Begin
  <1>4. PICK i \in place : i[1] = d
    BY <1>2 DEF Occupant
  <1>5. NoneRemade /\ OneAtThePath /\ Records /\ \A e \in Docs : Settled(e)
    BY <1>1, IdleIsSettled
  <1>6. i \in FilesOf(d) /\ place \subseteq FilesOf(d)
    BY <1>4, <1>5 DEF OneAtThePath, IInv, TypeOK, FilesOf
  <1>7. place = FilesOf(d)
    BY <1>4, <1>5, <1>6, PresentIfAny DEF Present
  <1>8. staged[t] = {} /\ record[t] = None
    BY <1>1 DEF IInv, Recorded
  <1>9. doc'[t] = d /\ \A u \in Txs \ {t} : doc'[u] = doc[u]
    BY <1>2 DEF IInv, TypeOK
  <1>10. NoneRemade' /\ OneAtThePath'
    BY <1>2, <1>5 DEF NoneRemade, OneAtThePath
  <1>11. \A e : FilesOf(e)' = FilesOf(e) /\ KindsOf(e)' = KindsOf(e)
    BY <1>2 DEF FilesOf, KindsOf
  <1>12. Records'
    BY <1>2, <1>5, <1>6, <1>8, <1>9, <1>11 DEF Records
  <1>13. \A e \in Docs : Settled(e)'
    BY <1>2, <1>5, SettledStays
  <1>14. Progress'
    BY <1>2, <1>3, <1>7, <1>8, <1>9, <1>11, <1>13 DEF Progress, Moving, Subject, Whole
  <1> QED BY <1>10, <1>12, <1>14 DEF Orderly

\* A document at the path would be in the way of a rollback.
LEMMA StartRollbackOrderly ==
  ASSUME IInv, IInv', Orderly, NEW t \in Txs, StartRollback(t)
  PROVE  Orderly'
  <1> SUFFICES ASSUME sound PROVE Orderly'
    BY DEF StartRollback, Orderly
  <1>0. PICK d : d = doc[t]
    OBVIOUS
  <1>1. /\ UNCHANGED <<place, staged, doc, record, made, condemned>> /\ op = Idle /\ record[t] # None
        /\ op' = [kind |-> "rollback", tx |-> t, todo |-> record[t]]
        /\ \A f \in record[t] : Occupant(f, d) = {}
    BY <1>0 DEF StartRollback, Begin, files
  <1>2. NoneRemade /\ OneAtThePath /\ Records /\ \A e \in Docs : Settled(e)
    BY <1>1, IdleIsSettled
  <1>3. d \in Docs /\ d # None
    BY <1>0, <1>1, FirstAssumption DEF IInv, Recorded
  <1>4. FilesOf(d) # {} /\ staged[t] \subseteq FilesOf(d) /\ record[t] = KindsOf(d)
    BY <1>0, <1>1, <1>2, <1>3 DEF Records
  <1>5. "markdown" \in record[t]
    <2>1. File(d, "markdown") \in FilesOf(d) /\ File(d, "markdown")[2] = "markdown"
      BY <1>2, <1>4, HasBoth DEF File
    <2> QED BY <1>4, <2>1 DEF KindsOf
  <1>6. place = {}
    BY <1>1, <1>5, NoMarkdownNoFile
  <1>7. \/ staged[t] = FilesOf(d)
        \/ (Lost(d) \/ \E u \in Txs \ {t} : Held(d, u)) /\ \E f \in record[t] : StagedAs(f, t) = {}
    <2>1. ~Present(d)
      BY <1>4, <1>6 DEF Present
    <2>2. ASSUME NEW u \in Txs \ {t}, Held(d, u) PROVE StagedAs("markdown", t) = {}
      BY <1>4, <2>2 DEF Held, StagedAs, FilesOf, IInv, Apart
    <2>3. ASSUME NEW i \in FilesOf(d), Gone(i) PROVE i[2] \in record[t] /\ StagedAs(i[2], t) = {}
      <3>1. i \notin staged[t] /\ i[2] \in record[t]
        BY <1>1, <1>4, <2>3 DEF Gone, KindsOf
      <3>2. \A j \in staged[t] : j[2] # i[2]
        BY <1>2, <1>4, <3>1, OneOfAKind
      <3> QED BY <3>1, <3>2 DEF StagedAs
    <2> QED BY <1>2, <1>3, <1>5, <2>1, <2>2, <2>3 DEF Settled, Held, Lost
  <1>8. Subject' = d /\ \A e : FilesOf(e)' = FilesOf(e) /\ KindsOf(e)' = KindsOf(e)
    BY <1>0, <1>1 DEF Subject, FilesOf, KindsOf
  <1>9. NoneRemade' /\ OneAtThePath' /\ Records'
    BY <1>1, <1>2, <1>8 DEF NoneRemade, OneAtThePath, Records
  <1>10. \A e \in Docs : Settled(e)'
    BY <1>1, <1>2, SettledStays
  <1>11. \/ Whole'
         \/ Elsewhere' /\ \E f \in op'.todo : Empty(f)'
    <2>1. CASE staged[t] = FilesOf(d)
      BY <1>1, <1>6, <1>8, <2>1 DEF Whole
    <2>2. CASE /\ Lost(d) \/ \E u \in Txs \ {t} : Held(d, u)
               /\ \E f \in record[t] : StagedAs(f, t) = {}
      <3>1. Lost(d) => Lost(d)'
        BY <1>1, <1>8 DEF Lost, Gone
      <3>2. \A u \in Txs : Held(d, u) => Held(d, u)'
        BY <1>1, <1>8 DEF Held
      <3> QED BY <1>1, <1>8, <2>2, <3>1, <3>2 DEF Elsewhere, Lost, Held, Empty, StagedAs
    <2> QED BY <1>7, <2>1, <2>2
  <1>12. Progress'
    BY <1>1, <1>6, <1>10, <1>11 DEF Progress, Moving
  <1> QED BY <1>9, <1>12 DEF Orderly

LEMMA StartCommitOrderly ==
  ASSUME IInv, Orderly, NEW t \in Txs, StartCommit(t)
  PROVE  Orderly'
  <1> SUFFICES ASSUME sound PROVE Orderly'
    BY DEF StartCommit, Orderly
  <1>1. /\ UNCHANGED <<place, staged, doc, record, made>> /\ op = Idle
        /\ op' = [kind |-> "remove", tx |-> t, todo |-> {}] /\ condemned \subseteq condemned'
    BY DEF StartCommit, Begin, files
  <1>2. NoneRemade /\ OneAtThePath /\ Records /\ \A e \in Docs : Settled(e)
    BY <1>1, IdleIsSettled
  <1>3. NoneRemade' /\ OneAtThePath' /\ Records'
    BY <1>1, <1>2 DEF NoneRemade, OneAtThePath, Records, FilesOf, KindsOf
  <1>4. \A e \in Docs : Settled(e)'
    BY <1>1, <1>2, SettledStays
  <1>5. Progress'
    BY <1>1, <1>4 DEF Progress, Moving
  <1> QED BY <1>3, <1>5 DEF Orderly

----------------------------------------------------------------------------
(* The steps that move nothing.                                            *)

\* The operation goes on or ends with every file where it was.
LEMMA TurnsOrderly ==
  ASSUME Orderly, sound, UNCHANGED <<place, staged, doc, record, made, condemned>>, Progress'
  PROVE  Orderly'
  BY DEF Orderly, NoneRemade, OneAtThePath, Records, FilesOf, KindsOf

\* The operation goes on with the same transaction.
LEMMA SameSubject ==
  ASSUME Orderly, sound, UNCHANGED <<place, staged, doc, record, made, condemned>>,
         op'.tx = op.tx, op.kind \in Moving, op'.kind \in Moving
  PROVE  /\ place' \subseteq FilesOf(Subject)' /\ \A d \in Docs \ {Subject'} : Settled(d)'
         /\ (Whole <=> Whole') /\ (Elsewhere => Elsewhere')
         /\ \A f : (Free(f) <=> Free(f)') /\ (Empty(f) <=> Empty(f)')
  <1>1. Subject' = Subject /\ \A e : FilesOf(e)' = FilesOf(e) /\ KindsOf(e)' = KindsOf(e)
    BY DEF Subject, FilesOf, KindsOf
  <1>2. place \subseteq FilesOf(Subject) /\ \A d \in Docs \ {Subject} : Settled(d)
    BY DEF Orderly, Progress
  <1>3. \A d \in Docs \ {Subject} : Settled(d)'
    BY <1>2, SettledStays
  <1>4. Elsewhere => Elsewhere'
    BY <1>1 DEF Elsewhere, Lost, Gone, Held
  <1> QED BY <1>1, <1>2, <1>3, <1>4 DEF Whole, Free, Empty, Occupant, StagedAs

LEMMA PrepareSkipsOrderly == IInv /\ Orderly /\ PrepareSkips => Orderly'
  <1> SUFFICES ASSUME IInv, Orderly, PrepareSkips, sound PROVE Orderly'
    BY DEF PrepareSkips, Succeeds, Orderly
  <1>1. /\ UNCHANGED <<place, staged, doc, record, made, condemned>> /\ op.kind = "prepare"
        /\ op' = [op EXCEPT !.kind = "prepare", !.todo = Rest] /\ Free(Current)
    BY DEF PrepareSkips, Step, Continue, files, Free
  <1>2. op'.kind = "prepare" /\ op'.tx = op.tx /\ op'.todo = op.todo \ {Current}
    BY <1>1 DEF IInv, TypeOK, Rest
  <1>3. Whole /\ \A f \in Kinds \ op.todo : Free(f)
    BY <1>1 DEF Orderly, Progress
  <1>4. /\ place' \subseteq FilesOf(Subject)' /\ \A d \in Docs \ {Subject'} : Settled(d)'
        /\ Whole' /\ \A f : Free(f) <=> Free(f)'
    BY <1>1, <1>2, <1>3, SameSubject DEF Moving
  <1>5. Progress'
    BY <1>1, <1>2, <1>3, <1>4 DEF Progress, Moving
  <1> QED BY <1>1, <1>5, TurnsOrderly

LEMMA PrepareFailsOrderly == IInv /\ Orderly /\ PrepareFails => Orderly'
  <1> SUFFICES ASSUME IInv, Orderly, PrepareFails, sound, failures = 0 PROVE Orderly'
    BY DEF PrepareFails, Fails, Orderly
  <1>1. /\ UNCHANGED <<place, staged, doc, record, made, condemned>> /\ op.kind = "prepare"
        /\ op' = [op EXCEPT !.kind = "undo", !.todo = Moved] /\ failures' # 0
    BY DEF PrepareFails, Fails, Continue, files
  <1>2. op'.kind = "undo" /\ op'.tx = op.tx /\ op'.todo = Moved /\ op.tx \in Txs
    BY <1>1 DEF IInv, TypeOK
  <1>3. \A i \in staged[op.tx] : i[2] \in Moved
    BY <1>2 DEF Moved, StagedAs, IInv, TypeOK, AllFiles
  <1>4. /\ place' \subseteq FilesOf(Subject)' /\ \A d \in Docs \ {Subject'} : Settled(d)'
        /\ Whole'
    BY <1>1, <1>2, SameSubject DEF Moving, Orderly, Progress
  <1>5. \A i \in staged'[op'.tx] : i[2] \in op'.todo
    BY <1>1, <1>2, <1>3
  <1>6. Progress'
    BY <1>1, <1>2, <1>4, <1>5 DEF Progress, Moving
  <1> QED BY <1>1, <1>6, TurnsOrderly

\* A prepare that was recorded has the whole document.
LEMMA PrepareRecordsOrderly == IInv /\ Orderly /\ PrepareRecords => Orderly'
  <1> SUFFICES ASSUME IInv, Orderly, PrepareRecords, sound PROVE Orderly'
    BY DEF PrepareRecords, Succeeds, Orderly
  <1>0. PICK t, d : t = op.tx /\ d = Subject
    OBVIOUS
  <1>1. /\ UNCHANGED <<place, staged, doc, made, condemned>> /\ op' = Idle
        /\ op.kind = "prepare" /\ op.todo = {} /\ t \in Txs /\ d = doc[t] /\ d \in Docs
        /\ record' = [record EXCEPT ![t] = {i[2] : i \in staged[t]}]
    BY <1>0 DEF PrepareRecords, files, IInv, TypeOK, Subject
  <1>2. /\ NoneRemade /\ OneAtThePath /\ Records
        /\ place \subseteq FilesOf(d) /\ (\A e \in Docs \ {d} : Settled(e))
        /\ place \cup staged[t] = FilesOf(d) /\ (\A f \in Kinds : Occupant(f, d) = {})
    BY <1>0, <1>1 DEF Orderly, Progress, Moving, Whole, Free
  <1>3. place = {}
    BY <1>2, OccupantIsOfKind DEF IInv, TypeOK, AllFiles
  <1>4. /\ record'[t] = {i[2] : i \in staged[t]} /\ \A u \in Txs \ {t} : record'[u] = record[u]
    BY <1>1 DEF IInv, TypeOK
  <1>5. \A e : FilesOf(e)' = FilesOf(e) /\ KindsOf(e)' = KindsOf(e)
    BY <1>1 DEF FilesOf, KindsOf
  <1>6. staged[t] = FilesOf(d) /\ record'[t] = KindsOf(d)
    BY <1>2, <1>3, <1>4 DEF KindsOf
  <1>7. NoneRemade' /\ OneAtThePath'
    BY <1>1, <1>2 DEF NoneRemade, OneAtThePath
  <1>8. Records'
    BY <1>1, <1>2, <1>4, <1>5, <1>6 DEF Records
  <1>9. \A e \in Docs \ {d} : Settled(e)'
    BY <1>1, <1>2, <1>4, OthersStay
  <1>10. Settled(d)'
    BY <1>1, <1>5, <1>6 DEF Settled, Held
  <1>11. Progress'
    BY <1>1, <1>9, <1>10 DEF Progress, Idle, Moving
  <1> QED BY <1>7, <1>8, <1>11 DEF Orderly

\* A rollback whose files are not all there fails.
LEMMA RollbackFailsOrderly == IInv /\ Orderly /\ RollbackFails => Orderly'
  <1> SUFFICES ASSUME IInv, Orderly, RollbackFails, sound, failures = 0 PROVE Orderly'
    BY DEF RollbackFails, Fails, Orderly
  <1>1. /\ UNCHANGED <<place, staged, doc, record, made, condemned>> /\ op.kind = "rollback"
        /\ op' = [op EXCEPT !.kind = "unroll", !.todo = Restored] /\ failures' # 0
    BY DEF RollbackFails, Step, Fails, Continue, files
  <1>2. op'.kind = "unroll" /\ op'.tx = op.tx /\ op'.todo = record[op.tx] \ op.todo
    BY <1>1 DEF IInv, TypeOK, Restored
  <1>3. Whole \/ Elsewhere
    BY <1>1 DEF Orderly, Progress
  <1>4. /\ place' \subseteq FilesOf(Subject)' /\ (\A d \in Docs \ {Subject'} : Settled(d)')
        /\ Whole' \/ Elsewhere'
    BY <1>1, <1>2, <1>3, SameSubject DEF Moving
  <1>5. \A i \in place : i[2] \in record[op.tx] \ op.todo
    <2>1. /\ place \subseteq FilesOf(Subject) /\ op.tx \in Txs /\ Subject # None
          /\ \A f \in op.todo : Free(f)
      BY <1>1, FirstAssumption DEF Orderly, Progress, Moving, IInv, TypeOK, Subject, DestinationsFree
    <2>2. record[op.tx] = KindsOf(Subject)
      BY <1>1, <2>1 DEF Orderly, Records, Subject, IInv, DestinationsFree
    <2>3. \A i \in place : i[2] \notin op.todo
      BY <2>1, OccupantIsOfKind DEF Free, Subject
    <2> QED BY <2>1, <2>2, <2>3 DEF KindsOf
  <1>6. Progress'
    BY <1>1, <1>2, <1>4, <1>5 DEF Progress, Moving
  <1> QED BY <1>1, <1>6, TurnsOrderly

\* A rollback that came to its end has brought back the whole document.
LEMMA RollbackEndsOrderly == IInv /\ Orderly /\ RollbackEnds => Orderly'
  <1> SUFFICES ASSUME IInv, Orderly, RollbackEnds, sound PROVE Orderly'
    BY DEF RollbackEnds, Succeeds, Orderly
  <1>1. /\ UNCHANGED <<place, staged, doc, record, made, condemned>>
        /\ op.kind = "rollback" /\ op.todo = {} /\ op' = [op EXCEPT !.kind = "remove", !.todo = {}]
    BY DEF RollbackEnds, Continue, files
  <1>2. op'.kind = "remove" /\ op.tx \in Txs
    BY <1>1 DEF IInv, TypeOK
  <1>3. staged[op.tx] = {}
    BY <1>1, <1>2 DEF IInv, TypeOK, DestinationsFree, Recorded, Empty, StagedAs
  <1>4. place = FilesOf(Subject) /\ \A d \in Docs \ {Subject} : Settled(d)
    BY <1>1, <1>3 DEF Orderly, Progress, Moving, Whole
  <1>5. \A d \in Docs : Settled(d)
    BY <1>4 DEF Settled, Present
  <1>6. \A d \in Docs : Settled(d)'
    BY <1>1, <1>5, SettledStays
  <1>7. Progress'
    BY <1>2, <1>6 DEF Progress, Moving
  <1> QED BY <1>1, <1>7, TurnsOrderly

----------------------------------------------------------------------------
(* The steps that move or remove a file.                                   *)

LEMMA PrepareMovesOrderly ==
  ASSUME IInv, IInv', Orderly, PrepareMoves
  PROVE  Orderly'
  <1> SUFFICES ASSUME sound PROVE Orderly'
    BY DEF PrepareMoves, Succeeds, Orderly
  <1>0. PICK t, f : t = op.tx /\ f = Current
    OBVIOUS
  <1>1. /\ UNCHANGED <<doc, record, made, condemned>> /\ op.kind = "prepare" /\ Stage(f, t)
        /\ op' = [op EXCEPT !.kind = "prepare", !.todo = op.todo \ {f}] /\ t \in Txs
    BY <1>0 DEF PrepareMoves, Step, Continue, Rest, IInv, TypeOK
  <1>2. /\ f \in op.todo /\ f \in Kinds /\ StagedAs(f, t) = {}
        /\ op'.kind = "prepare" /\ op'.tx = t /\ op'.todo = op.todo \ {f}
    <2>1. f \in op.todo /\ f \in Kinds
      BY <1>0, CurrentIsNext DEF PrepareMoves, Step, IInv, TypeOK
    <2> QED BY <1>0, <1>1, <2>1 DEF IInv, TypeOK, DestinationsFree, Empty
  <1>3. /\ place' = place \ Occupant(f, doc[t])
        /\ \A u \in Txs \ {t} : staged'[u] = staged[u]
        /\ place' \cup staged'[t] = place \cup staged[t]
    BY <1>1, <1>2, StageMoves
  <1>4. Whole /\ \A g \in Kinds \ op.todo : Free(g)
    BY <1>1 DEF Orderly, Progress
  <1>5. /\ NoneRemade' /\ OneAtThePath' /\ Records' /\ Whole'
        /\ place' \subseteq FilesOf(Subject)' /\ \A d \in Docs \ {Subject'} : Settled(d)'
    BY <1>0, <1>1, <1>2, <1>3, <1>4, MoveKeeps DEF Moving
  <1>6. \A g \in Kinds \ op'.todo : Free(g)'
    BY <1>0, <1>1, <1>2, <1>3, <1>4 DEF Free, Occupant
  <1>7. Progress'
    BY <1>2, <1>5, <1>6 DEF Progress, Moving
  <1> QED BY <1>5, <1>7 DEF Orderly

LEMMA UndoOrderly ==
  ASSUME IInv, IInv', Orderly, Undo
  PROVE  Orderly'
  <1> SUFFICES ASSUME sound, sound' PROVE Orderly'
    BY DEF Undo, Fails, Succeeds, Orderly
  <1>0. PICK t, f : t = op.tx /\ f = Current
    OBVIOUS
  <1>1. /\ UNCHANGED <<doc, record, made, condemned>> /\ op.kind = "undo" /\ t \in Txs
        /\ failures # 0 /\ Whole /\ (\A i \in staged[t] : i[2] \in op.todo)
    BY <1>0 DEF Undo, IInv, TypeOK, Orderly, Progress
  <1>2. CASE op.todo # {} /\ Unstage(f, t) /\ Continue("undo", Rest) /\ failures' = failures
    <2>1. /\ f \in op.todo /\ f \in Kinds /\ Occupant(f, doc[t]) = {}
          /\ op'.kind = "undo" /\ op'.tx = t /\ op'.todo = op.todo \ {f}
      <3>1. f \in op.todo /\ op.todo \subseteq Kinds
        BY <1>0, <1>2, CurrentIsNext DEF IInv, TypeOK
      <3> QED BY <1>0, <1>1, <1>2, <3>1 DEF IInv, TypeOK, Continue, Rest, DestinationsFree, Free
    <2>2. /\ staged'[t] = staged[t] \ StagedAs(f, t)
          /\ \A u \in Txs \ {t} : staged'[u] = staged[u]
          /\ place' \cup staged'[t] = place \cup staged[t]
      BY <1>1, <1>2, <2>1, UnstageMoves
    <2>3. /\ NoneRemade' /\ OneAtThePath' /\ Records' /\ Whole'
          /\ place' \subseteq FilesOf(Subject)' /\ \A d \in Docs \ {Subject'} : Settled(d)'
      BY <1>0, <1>1, <2>1, <2>2, MoveKeeps DEF Moving
    <2>4. \A i \in staged'[op'.tx] : i[2] \in op'.todo
      BY <1>0, <1>1, <2>1, <2>2 DEF StagedAs
    <2>5. Progress'
      BY <1>1, <1>2, <2>1, <2>3, <2>4 DEF Progress, Moving
    <2> QED BY <2>3, <2>5 DEF Orderly
  <1>3. CASE op.todo = {} /\ UNCHANGED files
    <2>1. staged[t] = {} /\ op'.kind \notin Moving
      BY <1>0, <1>1, <1>3 DEF Undo, Continue, Idle, Moving, IInv, TypeOK
    <2>2. place = FilesOf(Subject) /\ \A d \in Docs \ {Subject} : Settled(d)
      BY <1>0, <1>1, <2>1 DEF Orderly, Progress, Moving, Whole
    <2>3. \A d \in Docs : Settled(d)
      BY <2>2 DEF Settled, Present
    <2>4. \A d \in Docs : Settled(d)'
      BY <1>1, <1>3, <2>3, SettledStays DEF files
    <2>5. Progress'
      BY <2>1, <2>4 DEF Progress, Moving
    <2> QED BY <1>1, <1>3, <2>5, TurnsOrderly DEF files
  <1> QED BY <1>0, <1>1, <1>2, <1>3 DEF Undo, Fails, Succeeds

LEMMA RollbackMovesOrderly ==
  ASSUME IInv, IInv', Orderly, RollbackMoves
  PROVE  Orderly'
  <1> SUFFICES ASSUME sound PROVE Orderly'
    BY DEF RollbackMoves, Succeeds, Orderly
  <1>0. PICK t, f : t = op.tx /\ f = Current
    OBVIOUS
  <1>1. /\ UNCHANGED <<doc, record, made>> /\ op.kind = "rollback" /\ Unstage(f, t) /\ t \in Txs
        /\ op' = [op EXCEPT !.kind = "rollback", !.todo = op.todo \ {f}]
        /\ condemned' = condemned \ StagedAs(f, t) /\ StagedAs(f, t) # {}
    BY <1>0 DEF RollbackMoves, Step, Continue, Rest, IInv, TypeOK
  <1>2. /\ f \in op.todo /\ f \in Kinds /\ Occupant(f, doc[t]) = {} /\ record[t] # None
        /\ op'.kind = "rollback" /\ op'.tx = t /\ op'.todo = op.todo \ {f}
    <2>1. f \in op.todo /\ f \in Kinds
      BY <1>0, CurrentIsNext DEF RollbackMoves, Step, IInv, TypeOK
    <2> QED BY <1>0, <1>1, <2>1 DEF IInv, TypeOK, DestinationsFree, Free
  <1>3. /\ staged'[t] = staged[t] \ StagedAs(f, t)
        /\ \A u \in Txs \ {t} : staged'[u] = staged[u]
        /\ place' \cup staged'[t] = place \cup staged[t]
    BY <1>1, <1>2, UnstageMoves
  <1>4. condemned \ staged[t] \subseteq condemned'
    BY <1>1 DEF StagedAs
  <1>5. /\ NoneRemade' /\ OneAtThePath' /\ Records'
        /\ place' \subseteq FilesOf(Subject)' /\ (\A d \in Docs \ {Subject'} : Settled(d)')
        /\ (Whole => Whole') /\ (Elsewhere => Elsewhere')
    BY <1>0, <1>1, <1>2, <1>3, <1>4, MoveKeeps DEF Moving
  <1>6. ASSUME NEW g \in op.todo, Empty(g) PROVE g \in op'.todo /\ Empty(g)'
    BY <1>0, <1>1, <1>2, <1>3, <1>6 DEF Empty, StagedAs
  <1>7. Whole' \/ (Elsewhere' /\ \E g \in op'.todo : Empty(g)')
    BY <1>1, <1>5, <1>6 DEF Orderly, Progress
  <1>8. Progress'
    BY <1>2, <1>5, <1>7 DEF Progress, Moving
  <1> QED BY <1>5, <1>8 DEF Orderly

LEMMA UnrollOrderly ==
  ASSUME IInv, IInv', Orderly, Unroll
  PROVE  Orderly'
  <1> SUFFICES ASSUME sound, sound' PROVE Orderly'
    BY DEF Unroll, Fails, Succeeds, Orderly
  <1>0. PICK t, f : t = op.tx /\ f = Current
    OBVIOUS
  <1>1. /\ UNCHANGED <<doc, record, made, condemned>> /\ op.kind = "unroll" /\ t \in Txs
        /\ record[t] # None /\ failures # 0 /\ (Whole \/ Elsewhere)
        /\ \A i \in place : i[2] \in op.todo
    BY <1>0 DEF Unroll, IInv, TypeOK, DestinationsFree, Orderly, Progress
  <1>2. CASE op.todo # {} /\ Stage(f, t) /\ Continue("unroll", Rest) /\ failures' = failures
    <2>1. /\ f \in op.todo /\ f \in Kinds /\ StagedAs(f, t) = {}
          /\ op'.kind = "unroll" /\ op'.tx = t /\ op'.todo = op.todo \ {f}
      <3>1. f \in op.todo /\ op.todo \subseteq Kinds
        BY <1>0, <1>2, CurrentIsNext DEF IInv, TypeOK
      <3> QED BY <1>0, <1>1, <1>2, <3>1 DEF IInv, TypeOK, Continue, Rest, DestinationsFree, Empty
    <2>2. /\ place' = place \ Occupant(f, doc[t])
          /\ \A u \in Txs \ {t} : staged'[u] = staged[u]
          /\ place' \cup staged'[t] = place \cup staged[t]
      BY <1>1, <1>2, <2>1, StageMoves
    <2>3. /\ NoneRemade' /\ OneAtThePath' /\ Records' /\ (Whole' \/ Elsewhere')
          /\ place' \subseteq FilesOf(Subject)' /\ \A d \in Docs \ {Subject'} : Settled(d)'
      BY <1>0, <1>1, <2>1, <2>2, MoveKeeps DEF Moving
    <2>4. \A i \in place' : i[2] \in op'.todo
      <3>1. Occupant(f, doc[t]) = {i \in place : i[2] = f}
        BY <1>0, <1>1, OccupantIsOfKind DEF Orderly, Progress, Moving, Subject
      <3> QED BY <1>1, <2>1, <2>2, <3>1
    <2>5. Progress'
      BY <1>1, <1>2, <2>1, <2>3, <2>4 DEF Progress, Moving
    <2> QED BY <2>3, <2>5 DEF Orderly
  <1>3. CASE op.todo = {} /\ op' = Idle /\ UNCHANGED files
    <2>1. place = {}
      BY <1>1, <1>3
    <2>2. Subject \in Docs /\ Subject = doc[t] /\ Subject # None
      BY <1>0, <1>1, FirstAssumption DEF IInv, TypeOK, Subject
    <2>3. Whole => Held(Subject, t)
      <3>1. record[t] = KindsOf(Subject)
        BY <1>1, <2>2 DEF Orderly, Records
      <3> QED BY <1>0, <2>1, <3>1 DEF Whole, Held
    <2>4. Elsewhere => Settled(Subject)
      BY <2>1 DEF Elsewhere, Settled
    <2>5. \A d \in Docs : Settled(d)
      BY <1>1, <2>3, <2>4 DEF Orderly, Progress, Moving, Settled
    <2>6. \A d \in Docs : Settled(d)'
      BY <1>1, <1>3, <2>5, SettledStays DEF files
    <2>7. Progress'
      BY <1>3, <2>6 DEF Progress, Moving, Idle
    <2> QED BY <1>1, <1>3, <2>7, TurnsOrderly DEF files
  <1> QED BY <1>0, <1>1, <1>2, <1>3 DEF Unroll, Fails, Succeeds


\* Only what was condemned is removed, and then it is gone.
LEMMA RemovalStays ==
  ASSUME IInv, NEW t \in Txs, t = op.tx, op.kind = "remove",
         UNCHANGED <<place, made, condemned>>,
         \A u \in Txs \ {t} : staged'[u] = staged[u] /\ record'[u] = record[u],
         staged'[t] \subseteq staged[t], record'[t] \in {record[t], None},
         staged'[t] # staged[t] \/ record'[t] # record[t],
         NEW d \in Docs, Settled(d), Records
  PROVE  Settled(d)'
  <1>1. FilesOf(d)' = FilesOf(d) /\ KindsOf(d)' = KindsOf(d)
    BY DEF FilesOf, KindsOf
  <1>2. ASSUME NEW i, Gone(i) PROVE Gone(i)'
    BY <1>2 DEF Gone
  <1>3. CASE Present(d)
    BY <1>1, <1>3 DEF Settled, Present
  <1>4. ASSUME NEW u \in Txs \ {t}, Held(d, u) PROVE Settled(d)'
    BY <1>1, <1>4 DEF Settled, Held
  <1>5. CASE Held(d, t)
    <2>1. FilesOf(d) \cap place = {}
      BY <1>5, FilesFacts DEF Held, IInv, Apart
    <2>2. FilesOf(d) \subseteq condemned
      BY <1>5 DEF Held, IInv, RemovesCondemned
    <2>3. \A i \in FilesOf(d) : \A u \in Txs \ {t} : i \notin staged'[u]
      BY <1>5, FilesFacts DEF Held, IInv, Apart
    <2>4. CASE FilesOf(d) = {}
      BY <1>1, <2>4 DEF Settled, Present
    <2>5. ASSUME NEW i \in staged[t] \ staged'[t] PROVE Lost(d)'
      <3>1. i \in FilesOf(d)
        BY <1>5 DEF Held
      <3> QED BY <1>1, <2>1, <2>2, <2>3, <2>5, <3>1 DEF Lost, Gone
    <2>6. CASE FilesOf(d) # {} /\ record'[t] = None
      <3>1. PICK i : i \in FilesOf(d)
        BY <2>6
      <3> QED BY <1>1, <2>1, <2>2, <2>3, <2>6, <3>1 DEF Settled, Lost, Gone
    <2> QED BY <1>1, <2>1, <2>4, <2>5, <2>6 DEF Settled
  <1>6. CASE FilesOf(d) \cap place = {} /\ Lost(d)
    BY <1>1, <1>2, <1>6 DEF Settled, Lost
  <1> QED BY <1>3, <1>4, <1>5, <1>6 DEF Settled

LEMMA RemoveEntryOrderly ==
  ASSUME IInv, IInv', Orderly, RemoveEntry
  PROVE  Orderly'
  <1> SUFFICES ASSUME sound, sound' PROVE Orderly'
    BY DEF RemoveEntry, Fails, Succeeds, Orderly
  <1>0. PICK t : t = op.tx
    OBVIOUS
  <1>1. /\ UNCHANGED <<place, doc, made, condemned>> /\ op.kind = "remove" /\ t \in Txs
        /\ NoneRemade /\ OneAtThePath /\ Records /\ (\A d \in Docs : Settled(d))
        /\ op'.kind \notin Moving
    BY <1>0 DEF RemoveEntry, IInv, TypeOK, Orderly, Progress, Moving, Idle
  <1>2. NoneRemade' /\ OneAtThePath'
    BY <1>1 DEF NoneRemade, OneAtThePath
  <1>3. CASE UNCHANGED <<staged, record>>
    <2>1. Records' /\ \A d \in Docs : Settled(d)'
      BY <1>1, <1>3, SettledStays DEF Records, FilesOf, KindsOf
    <2> QED BY <1>1, <1>2, <2>1 DEF Orderly, Progress, Moving
  <1>4. CASE ~UNCHANGED <<staged, record>>
    <2>1. /\ \A u \in Txs \ {t} : staged'[u] = staged[u] /\ record'[u] = record[u]
          /\ staged'[t] \subseteq staged[t] /\ record'[t] \in {record[t], None}
          /\ staged'[t] # staged[t] \/ record'[t] # record[t]
      BY <1>0, <1>1, <1>4 DEF RemoveEntry, IInv, TypeOK
    <2>2. \A d \in Docs : Settled(d)'
      BY <1>0, <1>1, <2>1, RemovalStays
    <2>3. Records'
      BY <1>1, <2>1 DEF Records, FilesOf, KindsOf
    <2> QED BY <1>1, <1>2, <2>2, <2>3 DEF Orderly, Progress, Moving
  <1> QED BY <1>3, <1>4

LEMMA StutterOrderly == Orderly /\ UNCHANGED vars => Orderly'
  <1> SUFFICES ASSUME Orderly, UNCHANGED vars, sound PROVE Orderly'
    BY DEF vars, Orderly
  <1>1. (\A d \in Docs : Settled(d) => Settled(d)') /\ Subject' = Subject
    BY SettledStays DEF vars, files, Subject
  <1>2. (Whole <=> Whole') /\ (Elsewhere <=> Elsewhere') /\ \A f : (Free(f) <=> Free(f)') /\ (Empty(f) <=> Empty(f)')
    BY DEF vars, files, Whole, Elsewhere, Lost, Gone, Held, KindsOf, FilesOf, Subject, Free, Empty, Occupant, StagedAs
  <1>3. Progress => Progress'
    BY <1>1, <1>2 DEF Progress, vars, files, FilesOf
  <1> QED BY <1>3, TurnsOrderly DEF Orderly, vars, files

LEMMA StepOrderly == IInv /\ IInv' /\ Orderly /\ [Next]_vars => Orderly'
  <1>1. Crash => Orderly'
    BY DEF Crash, Orderly
  <1> QED BY <1>1, OpenOrderly, CreateOrderly, StartPrepareOrderly, StartRollbackOrderly, StartCommitOrderly,
    PrepareMovesOrderly, PrepareSkipsOrderly, PrepareRecordsOrderly, PrepareFailsOrderly, UndoOrderly,
    RollbackMovesOrderly, RollbackFailsOrderly, RollbackEndsOrderly, UnrollOrderly, RemoveEntryOrderly,
    StutterOrderly DEF Next

\* As long as no operation died half way or met two failures, all documents
\* are settled but the one under way, and that one has all its files.
THEOREM Order == Spec => []Orderly
  BY Invariance, InitOrderly, StepOrderly, PTL DEF Spec

\* Between operations every document is whole or its commit has begun: what
\* prepareRemove, commitRemove and rollbackRemove promise, for any number of
\* documents, transactions, faults.
THEOREM DeletesWholeOrNothing == Spec => []AllOrNothing
  <1>1. Orderly => AllOrNothing
    BY IdleIsSettled DEF AllOrNothing, Settled, Present, Held, KindsOf, Lost, Gone
  <1> QED BY <1>1, Order, PTL

=============================================================================
