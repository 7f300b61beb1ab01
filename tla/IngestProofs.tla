---------------------------- MODULE IngestProofs -----------------------------
(***************************************************************************)
(* Proofs about Ingest for any transcripts, rollouts, messages and tables.  *)
(* A message whose transcripts were all read as they are has, in its row,   *)
(* the largest count of one of them: a scan that meets the message in       *)
(* several keeps the largest, which one of them has, and a scan that meets  *)
(* it nowhere leaves the row and its transcripts alone.                     *)
(*                                                                          *)
(* For Codex the two folds of a scan are followed element by element: the   *)
(* first lays out every file's records together and in order, the second    *)
(* knows, at each record, the model that the record's file named last.      *)
(* Hence a row that is read again keeps its model, which is why it can      *)
(* lose its price only to a table that does not rate that model.            *)
(***************************************************************************)
EXTENDS Ingest, WellFoundedInduction, FiniteSetTheorems, TLAPS

Types ==
  /\ turns \in [ClaudeFile -> SUBSET Line]
  /\ changed \subseteq ClaudeFile \cup CodexFile
  /\ rows = [k \in Key |-> rows[k]]
  /\ table \in 0 .. MaxTables /\ fresh \in BOOLEAN /\ halfway \in BOOLEAN

\* The rows are records; what is in those of Codex is said by RowModels and PriceKnown.
Shapes ==
  /\ \A m \in Msg : rows[m] \in Row \cup {NoRow}
  /\ \A k \in CodexKey : rows[k] # NoRow =>
       rows[k] = [tokens |-> rows[k].tokens, model |-> rows[k].model, price |-> rows[k].price]

ReadUpToNow ==
  \A m \in Msg :
    /\ rows[m] = NoRow => Holders(m) \subseteq changed
    /\ rows[m] # NoRow /\ Holders(m) \cap changed = {} =>
         \E f \in Holders(m) : rows[m].tokens = Largest(Counts(m, {f}))

IInv == Types /\ Shapes /\ ReadUpToNow /\ OnePriceList

-----------------------------------------------------------------------------
(* The largest of some counts. *)

LEMMA LargestExists ==
  ASSUME NEW S \in SUBSET Tokens, S # {}
  PROVE  Largest(S) \in S /\ \A n \in S : n <= Largest(S)
<1> DEFINE R == {ss \in Nat \X Nat : ss[1] < ss[2]}
           T == {MaxTokens - n : n \in S}
<1>1. MaxTokens \in Nat /\ \A n \in S : n \in Nat /\ n <= MaxTokens
  BY ModelsAndLines DEF Tokens
<1>2. T \subseteq Nat /\ T # {}
  BY <1>1
<1>3. IsWellFoundedOn(R, Nat)
  BY NatLessThanWellFounded, Zenon DEF OpToRel
<1>4. PICK d \in T : \A e \in T : ~ (<<e, d>> \in R)
  <2> HIDE DEF R, T
  <2> QED BY <1>2, <1>3, WFMin
<1>5. PICK n \in S : d = MaxTokens - n
  OBVIOUS
<1>6. \A o \in S : o <= n
  <2> TAKE o \in S
  <2>1. ~ (<<MaxTokens - o, MaxTokens - n>> \in R)
    BY <1>4, <1>5
  <2>2. ~ (MaxTokens - o < MaxTokens - n)
    BY <2>1, <1>1, <1>2
  <2> QED BY <2>2, <1>1
<1> QED BY <1>5, <1>6 DEF Largest

LEMMA LargestUnique ==
  ASSUME NEW S \in SUBSET Tokens, NEW n \in S, \A o \in S : o <= n
  PROVE  Largest(S) = n
<1>1. Largest(S) \in S /\ \A o \in S : o <= Largest(S)
  BY LargestExists
<1>2. Largest(S) <= n /\ n <= Largest(S)
  BY <1>1
<1>3. \A o \in S : o \in Nat
  BY ModelsAndLines DEF Tokens
<1> QED BY <1>1, <1>2, <1>3

-----------------------------------------------------------------------------
(* The counts of a message in several transcripts are those in each of them. *)

LEMMA CountsByFile ==
  ASSUME Types, NEW m \in Msg, NEW files \in SUBSET ClaudeFile
  PROVE  /\ Counts(m, files) \in SUBSET Tokens
         /\ \A f \in files : Counts(m, {f}) \subseteq Counts(m, files)
         /\ \A n \in Counts(m, files) : \E f \in files : n \in Counts(m, {f})
<1>1. \A f \in files : turns[f] \subseteq Line
  BY DEF Types
<1>2. UNION {turns[f] : f \in files} \subseteq Line
  BY <1>1
<1>3. Counts(m, files) \subseteq Tokens
  BY <1>2 DEF Counts, Line
<1> QED BY <1>3 DEF Counts

\* One of the transcripts a scan read has the count it kept.
LEMMA KeptIsOfOneFile ==
  ASSUME Types, NEW m \in Msg, NEW files \in SUBSET ClaudeFile, Counts(m, files) # {}
  PROVE  /\ Kept(m, files) \in Tokens
         /\ \E f \in files \cap Holders(m) : Kept(m, files) = Largest(Counts(m, {f}))
<1> DEFINE n == Kept(m, files)
<1>1. n \in Counts(m, files) /\ \A o \in Counts(m, files) : o <= n
  BY CountsByFile, LargestExists DEF Kept
<1>2. PICK f \in files : n \in Counts(m, {f})
  BY <1>1, CountsByFile
<1>3. Counts(m, {f}) \in SUBSET Tokens /\ \A o \in Counts(m, {f}) : o <= n
  BY <1>1, CountsByFile, {f} \in SUBSET ClaudeFile
<1>4. Largest(Counts(m, {f})) = n
  <2> HIDE DEF n
  <2> QED BY <1>2, <1>3, LargestUnique
<1>5. f \in Holders(m)
  BY <1>2 DEF Holders
<1> QED BY <1>1, <1>4, <1>5, CountsByFile

-----------------------------------------------------------------------------
(* Prices. *)

LEMMA PricedFields ==
  ASSUME NEW n, NEW model, NEW price, NEW t
  PROVE  Priced([tokens |-> n, model |-> model, price |-> price], t) =
           [tokens |-> n, model |-> model,
            price |-> IF model \in RatedBy(t) THEN t ELSE price]
BY DEF Priced

LEMMA NewRowFields ==
  ASSUME NEW model, NEW n
  PROVE  NewRow(model, n) =
           [tokens |-> n, model |-> model,
            price |-> IF model \in RatedBy(InForce) THEN InForce ELSE Unpriced]
BY PricedFields DEF NewRow

LEMMA NewRowIsRow ==
  ASSUME Types, NEW m \in Msg, NEW n \in Tokens
  PROVE  NewRow(ModelOf[m], n) \in Row
<1>1. InForce \in 0 .. MaxTables /\ ModelOf[m] \in Model
  BY ModelsAndLines DEF Types, InForce
<1> QED BY <1>1, NewRowFields DEF Row

LEMMA RepricedRow ==
  ASSUME Types, Shapes, NEW t \in 0 .. MaxTables, NEW k \in Key
  PROVE  /\ rows[k] = NoRow => Repriced(t)[k] = NoRow
         /\ rows[k] # NoRow =>
              Repriced(t)[k] = [tokens |-> rows[k].tokens, model |-> rows[k].model,
                                price |-> IF rows[k].model \in RatedBy(t) THEN t ELSE rows[k].price]
         /\ k \in Msg /\ rows[k] # NoRow => rows[k] \in Row /\ Repriced(t)[k] \in Row
<1>1. Repriced(t)[k] = IF rows[k] = NoRow THEN NoRow ELSE Priced(rows[k], t)
  BY DEF Repriced
<1>2. CASE rows[k] = NoRow
  BY <1>1, <1>2
<1>3. CASE rows[k] # NoRow
  <2>1. k \in Msg => rows[k] \in Row
    BY <1>3 DEF Shapes
  <2>2. rows[k] = [tokens |-> rows[k].tokens, model |-> rows[k].model, price |-> rows[k].price]
    BY <1>3, <2>1 DEF Shapes, Key, Row
  <2>3. Repriced(t)[k] = [tokens |-> rows[k].tokens, model |-> rows[k].model,
                          price |-> IF rows[k].model \in RatedBy(t) THEN t ELSE rows[k].price]
    BY <1>1, <1>3, <2>2, PricedFields
  <2>4. k \in Msg => Repriced(t)[k] \in Row
    BY <2>1, <2>3 DEF Row
  <2> QED BY <1>3, <2>1, <2>3, <2>4
<1> QED BY <1>2, <1>3

-----------------------------------------------------------------------------
(* Steps of the agents: a log grows and is changed. *)

LEMMA LogStepPreserves ==
  ASSUME IInv, NEW g \in ClaudeFile \cup CodexFile,
         turns' \in [ClaudeFile -> SUBSET Line],
         changed' = changed \cup {g}, rows' = rows, UNCHANGED priceVars,
         \A m \in Msg : Holders(m)' = Holders(m) \cup ({g} \cap Holders(m)'),
         \A m \in Msg, f \in ClaudeFile : f # g => Counts(m, {f})' = Counts(m, {f})
  PROVE  IInv'
<1>1. Types' /\ Shapes'
  BY DEF IInv, Types, Shapes, priceVars
<1>2. ReadUpToNow'
  <2> SUFFICES ASSUME NEW m \in Msg
               PROVE  /\ rows[m] = NoRow => Holders(m)' \subseteq changed'
                      /\ rows[m] # NoRow /\ Holders(m)' \cap changed' = {} =>
                           \E f \in Holders(m)' : rows[m].tokens = Largest(Counts(m, {f})')
    BY DEF ReadUpToNow
  <2>1. rows[m] = NoRow => Holders(m)' \subseteq changed'
    BY DEF IInv, ReadUpToNow
  <2>2. ASSUME rows[m] # NoRow, Holders(m)' \cap changed' = {}
        PROVE  \E f \in Holders(m)' : rows[m].tokens = Largest(Counts(m, {f})')
    <3>1. g \notin Holders(m)' /\ Holders(m)' = Holders(m) /\ Holders(m) \cap changed = {}
      BY <2>2
    <3>2. PICK f \in Holders(m) : rows[m].tokens = Largest(Counts(m, {f}))
      BY <2>2, <3>1 DEF IInv, ReadUpToNow
    <3>3. f # g /\ f \in ClaudeFile
      BY <3>1, <3>2 DEF Holders
    <3> QED BY <3>1, <3>2, <3>3
  <2> QED BY <2>1, <2>2
<1>3. OnePriceList'
  BY DEF IInv, OnePriceList, priceVars, RatedBy
<1> QED BY <1>1, <1>2, <1>3 DEF IInv

LEMMA WriteTurnPreserves ==
  ASSUME IInv, NEW f \in ClaudeFile, NEW m \in Msg, NEW n \in Tokens, WriteTurn(f, m, n)
  PROVE  IInv'
<1>1. turns' = [turns EXCEPT ![f] = @ \cup {[msg |-> m, tokens |-> n]}]
  BY DEF WriteTurn
<1>2. turns' \in [ClaudeFile -> SUBSET Line]
  BY <1>1 DEF IInv, Types, Line
<1>3. \A o \in Msg, g \in ClaudeFile : g # f => Counts(o, {g})' = Counts(o, {g})
  BY <1>1 DEF IInv, Types, Counts
<1>4. \A o \in Msg : Counts(o, {f}) \subseteq Counts(o, {f})'
  BY <1>1 DEF IInv, Types, Counts
<1>5. \A o \in Msg : Holders(o)' = Holders(o) \cup ({f} \cap Holders(o)')
  BY <1>3, <1>4 DEF Holders
<1> QED BY <1>2, <1>3, <1>5, LogStepPreserves DEF WriteTurn

LEMMA ResumePreserves ==
  ASSUME IInv, NEW f \in ClaudeFile, NEW g \in ClaudeFile, Resume(f, g)
  PROVE  IInv'
<1>1. turns' = [turns EXCEPT ![g] = turns[f]] /\ turns[g] = {}
  BY DEF Resume
<1>2. turns' \in [ClaudeFile -> SUBSET Line]
  BY <1>1 DEF IInv, Types
<1>3. \A o \in Msg, h \in ClaudeFile : h # g => Counts(o, {h})' = Counts(o, {h})
  BY <1>1 DEF IInv, Types, Counts
<1>4. \A o \in Msg : Counts(o, {g}) = {}
  BY <1>1 DEF Counts
<1>5. \A o \in Msg : Holders(o)' = Holders(o) \cup ({g} \cap Holders(o)')
  BY <1>3, <1>4 DEF Holders
<1> QED BY <1>2, <1>3, <1>5, LogStepPreserves DEF Resume

LEMMA WriteRolloutPreserves ==
  ASSUME IInv, NEW f \in CodexFile, NEW line, WriteRollout(f, line)
  PROVE  IInv'
<1>1. turns' = turns
  BY DEF WriteRollout
<1>2. \A o \in Msg : Holders(o)' = Holders(o) \cup ({f} \cap Holders(o)')
  BY <1>1 DEF Holders, Counts
<1>3. \A o \in Msg, g \in ClaudeFile : Counts(o, {g})' = Counts(o, {g})
  BY <1>1 DEF Counts
<1>4. turns' \in [ClaudeFile -> SUBSET Line]
  BY <1>1 DEF IInv, Types
<1> QED BY <1>2, <1>3, <1>4, LogStepPreserves DEF WriteRollout

-----------------------------------------------------------------------------
(* Scans and re-pricings. *)

\* A scan that reads at least the changed files.
LEMMA ScanPreserves ==
  ASSUME IInv, NEW files \in SUBSET (ClaudeFile \cup CodexFile), changed \subseteq files,
         ScanFiles(files)
  PROVE  IInv'
<1> DEFINE claude == files \cap ClaudeFile
           models == CodexModels(files \cap CodexFile)
<1>1. /\ rows' = [k \in Key |->
           IF k \in Msg
             THEN IF Counts(k, claude) = {} THEN rows[k] ELSE NewRow(ModelOf[k], Kept(k, claude))
             ELSE IF models[k] = NoModel THEN rows[k] ELSE NewRow(models[k], 1)]
      /\ changed' = {} /\ UNCHANGED <<turns, table, fresh, halfway>>
  BY DEF ScanFiles, logVars, priceVars
<1> HIDE DEF models
<1>2. \A m \in Msg : rows'[m] = IF Counts(m, claude) = {} THEN rows[m]
                                                          ELSE NewRow(ModelOf[m], Kept(m, claude))
  BY <1>1 DEF Key
<1>3. \A k \in Key : k \notin Msg =>
        rows'[k] = IF models[k] = NoModel THEN rows[k] ELSE NewRow(models[k], 1)
  BY <1>1
<1>4. Types'
  <2>1. rows' = [k \in Key |-> rows'[k]]
    BY <1>1
  <2> QED BY <1>1, <2>1 DEF IInv, Types
<1>5. Shapes'
  <2>1. ASSUME NEW m \in Msg PROVE rows'[m] \in Row \cup {NoRow}
    <3>1. CASE Counts(m, claude) = {}
      BY <1>2, <3>1 DEF IInv, Shapes
    <3>2. CASE Counts(m, claude) # {}
      <4>1. Kept(m, claude) \in Tokens
        BY <3>2, KeptIsOfOneFile DEF IInv
      <4> QED BY <1>2, <3>2, <4>1, NewRowIsRow DEF IInv
    <3> QED BY <3>1, <3>2
  <2>2. ASSUME NEW k \in CodexKey, rows'[k] # NoRow
        PROVE  rows'[k] = [tokens |-> rows'[k].tokens, model |-> rows'[k].model,
                           price |-> rows'[k].price]
    <3>1. k \in Key /\ k \notin Msg
      BY IngestSentinels DEF Key, CodexKey
    <3>2. CASE rows'[k] = rows[k]
      BY <2>2, <3>2 DEF IInv, Shapes
    <3>3. CASE rows'[k] = NewRow(models[k], 1)
      BY <3>3, NewRowFields
    <3> QED BY <1>3, <3>1, <3>2, <3>3
  <2> QED BY <2>1, <2>2 DEF Shapes
<1>6. ReadUpToNow'
  <2>0. \A m \in Msg : Holders(m)' = Holders(m) /\ \A f : Counts(m, {f})' = Counts(m, {f})
    BY <1>1 DEF Holders, Counts
  <2>1. SUFFICES ASSUME NEW m \in Msg
                 PROVE  /\ rows'[m] = NoRow => Holders(m) \subseteq {}
                        /\ rows'[m] # NoRow =>
                             \E f \in Holders(m) : rows'[m].tokens = Largest(Counts(m, {f}))
    BY <2>0, <1>1 DEF ReadUpToNow
  <2>2. CASE Counts(m, claude) = {}
    <3>1. Holders(m) \cap claude = {}
      BY <2>2, CountsByFile DEF IInv, Holders
    <3>2. Holders(m) \cap changed = {}
      BY <3>1 DEF Holders
    <3>3. rows'[m] = rows[m]
      BY <1>2, <2>2
    <3> QED BY <3>2, <3>3 DEF IInv, ReadUpToNow
  <2>3. CASE Counts(m, claude) # {}
    <3>1. /\ Kept(m, claude) \in Tokens
          /\ \E f \in Holders(m) : Kept(m, claude) = Largest(Counts(m, {f}))
      BY <2>3, KeptIsOfOneFile DEF IInv
    <3>2. rows'[m] = NewRow(ModelOf[m], Kept(m, claude))
      BY <1>2, <2>3
    <3>3. rows'[m] # NoRow
      BY <3>1, <3>2, NewRowIsRow, IngestSentinels DEF IInv, Row, Tokens
    <3>4. rows'[m].tokens = Kept(m, claude)
      BY <3>2, NewRowFields
    <3> QED BY <3>1, <3>3, <3>4
  <2> QED BY <2>2, <2>3
<1>7. OnePriceList'
  <2> SUFFICES ASSUME fresh, ~halfway, NEW k \in Key,
                      rows'[k] # NoRow, rows'[k].model \in RatedBy(table)
               PROVE  rows'[k].price = table
    BY <1>1 DEF OnePriceList, RatedBy
  <2>1. CASE rows'[k] = rows[k]
    BY <2>1 DEF IInv, OnePriceList
  <2>2. CASE \E model, n : rows'[k] = NewRow(model, n)
    <3>1. PICK model, n : rows'[k] = NewRow(model, n)
      BY <2>2
    <3>2. InForce = table
      BY DEF InForce
    <3> QED BY <3>1, <3>2, NewRowFields
  <2> QED BY <1>2, <1>3, <2>1, <2>2
<1> QED BY <1>4, <1>5, <1>6, <1>7 DEF IInv

\* Re-pricing changes prices only.
LEMMA RefreshPreserves ==
  ASSUME IInv, Refresh
  PROVE  IInv'
<1> DEFINE t == table + 1
<1>1. /\ rows' = Repriced(t) /\ table' = t /\ t \in 0 .. MaxTables /\ halfway' = FALSE
      /\ fresh' = TRUE /\ UNCHANGED <<turns, changed>>
  BY ModelsAndLines DEF Refresh, IInv, Types, logVars
<1> HIDE DEF t
<1>2. \A k \in Key :
        /\ rows[k] = NoRow => rows'[k] = NoRow
        /\ rows[k] # NoRow =>
             rows'[k] = [tokens |-> rows[k].tokens, model |-> rows[k].model,
                         price |-> IF rows[k].model \in RatedBy(t) THEN t ELSE rows[k].price]
        /\ k \in Msg /\ rows[k] # NoRow => rows[k] \in Row /\ rows'[k] \in Row
  BY <1>1, RepricedRow DEF IInv
<1>3. Types'
  <2>1. rows' = [k \in Key |-> rows'[k]]
    BY <1>1 DEF Repriced
  <2> QED BY <1>1, <2>1 DEF IInv, Types
<1>A. ASSUME NEW k \in Key, rows'[k] # NoRow
      PROVE  /\ rows[k] # NoRow
             /\ rows'[k] = [tokens |-> rows[k].tokens, model |-> rows[k].model, price |-> rows'[k].price]
             /\ rows'[k].tokens = rows[k].tokens /\ rows'[k].model = rows[k].model
             /\ rows[k].model \in RatedBy(t) => rows'[k].price = t
  <2>1. rows[k] # NoRow
    BY <1>2, <1>A
  <2>2. DEFINE price == IF rows[k].model \in RatedBy(t) THEN t ELSE rows[k].price
  <2>3. rows'[k] = [tokens |-> rows[k].tokens, model |-> rows[k].model, price |-> price]
    BY <1>2, <2>1
  <2>4. rows[k].model \in RatedBy(t) => price = t
    OBVIOUS
  <2> HIDE DEF price
  <2> QED BY <2>1, <2>3, <2>4
<1>4. Shapes'
  <2>1. \A m \in Msg : rows'[m] \in Row \cup {NoRow}
    BY <1>2 DEF Key
  <2>2. ASSUME NEW k \in CodexKey, rows'[k] # NoRow
        PROVE  rows'[k] = [tokens |-> rows'[k].tokens, model |-> rows'[k].model,
                           price |-> rows'[k].price]
    <3>1. k \in Key
      BY DEF Key
    <3> QED BY <1>A, <2>2, <3>1
  <2> QED BY <2>1, <2>2 DEF Shapes
<1>5. ReadUpToNow'
  <2>1. SUFFICES ASSUME NEW m \in Msg
                 PROVE  /\ rows'[m] = NoRow => Holders(m) \subseteq changed
                        /\ rows'[m] # NoRow /\ Holders(m) \cap changed = {} =>
                             \E f \in Holders(m) : rows'[m].tokens = Largest(Counts(m, {f}))
    BY <1>1 DEF ReadUpToNow, Holders, Counts
  <2>2. rows[m] = NoRow <=> rows'[m] = NoRow
    BY <1>2, IngestSentinels DEF Row, Key, Tokens
  <2>3. rows'[m] # NoRow => rows'[m].tokens = rows[m].tokens
    BY <1>A DEF Key
  <2> QED BY <2>2, <2>3 DEF IInv, ReadUpToNow
<1>6. OnePriceList'
  <2>1. \A model : model \in RatedBy(table)' <=> model \in RatedBy(t)
    BY <1>1 DEF RatedBy
  <2> QED BY <1>1, <1>A, <2>1 DEF OnePriceList
<1> QED BY <1>3, <1>4, <1>5, <1>6 DEF IInv

LEMMA StandingRowsPreserve ==
  ASSUME IInv, UNCHANGED <<turns, changed, rows>>, table' \in 0 .. MaxTables,
         fresh' \in BOOLEAN, halfway' \in BOOLEAN,
         fresh' /\ ~halfway' => fresh /\ ~halfway /\ table' = table
  PROVE  IInv'
<1>1. \A m \in Msg : Holders(m)' = Holders(m) /\ \A f : Counts(m, {f})' = Counts(m, {f})
  BY DEF Holders, Counts
<1>2. Types' /\ Shapes'
  BY DEF IInv, Types, Shapes
<1>3. ReadUpToNow'
  BY <1>1 DEF IInv, ReadUpToNow
<1>4. OnePriceList'
  BY DEF IInv, OnePriceList, RatedBy
<1> QED BY <1>2, <1>3, <1>4 DEF IInv

-----------------------------------------------------------------------------
LEMMA InitHasIInv == Init => IInv
<1> SUFFICES ASSUME Init PROVE IInv
  OBVIOUS
<1>1. \A m \in Msg : Holders(m) = {}
  BY DEF Init, Holders, Counts
<1>2. \A k \in Key : rows[k] = NoRow
  BY DEF Init
<1>3. Types
  <2>1. turns \in [ClaudeFile -> SUBSET Line] /\ changed \subseteq ClaudeFile \cup CodexFile
    BY DEF Init
  <2>2. rows = [k \in Key |-> rows[k]]
    BY DEF Init
  <2>3. table = 0 /\ fresh = FALSE /\ halfway = FALSE
    BY DEF Init
  <2>4. 0 \in 0 .. MaxTables
    BY ModelsAndLines
  <2> QED BY <2>1, <2>2, <2>3, <2>4 DEF Types
<1>4. Shapes /\ ReadUpToNow /\ OnePriceList
  BY <1>1, <1>2 DEF Shapes, ReadUpToNow, OnePriceList, Key, Init
<1> QED BY <1>3, <1>4 DEF IInv

LEMMA StepPreservesIInv ==
  ASSUME IInv, [Next]_vars
  PROVE  IInv'
<1>1. ASSUME NEW f \in ClaudeFile, NEW m \in Msg, NEW n \in Tokens, WriteTurn(f, m, n)
      PROVE  IInv'
  BY <1>1, WriteTurnPreserves
<1>2. ASSUME NEW f \in ClaudeFile, NEW g \in ClaudeFile, Resume(f, g) PROVE IInv'
  BY <1>2, ResumePreserves
<1>3. ASSUME NEW f \in CodexFile, NEW line \in Model \cup {Usage}, WriteRollout(f, line)
      PROVE  IInv'
  BY <1>3, WriteRolloutPreserves
<1>4. CASE IncrementalScan
  BY <1>4, ScanPreserves DEF IncrementalScan, IInv, Types
<1>5. CASE FullScan
  BY <1>5, ScanPreserves DEF FullScan, IInv, Types
<1>6. CASE Refresh
  BY <1>6, RefreshPreserves
<1>7. CASE RefreshCut
  BY <1>7, StandingRowsPreserve, ModelsAndLines DEF RefreshCut, logVars, IInv, Types
<1>8. CASE Expire
  BY <1>8, StandingRowsPreserve DEF Expire, logVars, IInv, Types
<1>9. CASE UNCHANGED vars
  BY <1>9, StandingRowsPreserve DEF vars, IInv, Types
<1> QED BY <1>1, <1>2, <1>3, <1>4, <1>5, <1>6, <1>7, <1>8, <1>9 DEF Next

\* Read in full and with agreeing copies, a message has its true size.
LEMMA IInvCountsTrueSize == IInv => WholeCopiesCountedAtTrueSize
<1> SUFFICES ASSUME IInv, NEW m \in Msg, Settled(m), CopiesAgree(m)
             PROVE  rows[m] # NoRow /\ rows[m].tokens = Largest(Counts(m, ClaudeFile))
  BY DEF WholeCopiesCountedAtTrueSize
<1>1. rows[m] # NoRow
  BY DEF IInv, ReadUpToNow, Settled
<1>2. PICK f \in Holders(m) : rows[m].tokens = Largest(Counts(m, {f}))
  BY <1>1 DEF IInv, ReadUpToNow, Settled
<1>3. Counts(m, ClaudeFile) # {}
  BY <1>2, CountsByFile DEF IInv, Holders
<1>4. PICK g \in Holders(m) : Kept(m, ClaudeFile) = Largest(Counts(m, {g}))
  BY <1>3, KeptIsOfOneFile DEF IInv
<1> QED BY <1>1, <1>2, <1>4 DEF CopiesAgree, Kept

\* normalize.go:369 with file_store.go:94: whatever the order of lines, copies and scans, a
\* response that was read in full from agreeing copies is counted at its true size.
THEOREM TrueSizeCounted == Spec => []WholeCopiesCountedAtTrueSize
<1>1. Init => IInv
  BY InitHasIInv
<1>2. IInv /\ [Next]_vars => IInv'
  BY StepPreservesIInv
<1> QED BY <1>1, <1>2, IInvCountsTrueSize, PTL DEF Spec

\* cli.go:726-744: after a refresh that went through, and until its table is a day old, every
\* row with a rate is priced by that table, whatever is scanned meanwhile.
THEOREM RowsShareOnePriceList == Spec => []OnePriceList
<1>1. Init => IInv
  BY InitHasIInv
<1>2. IInv /\ [Next]_vars => IInv'
  BY StepPreservesIInv
<1>3. IInv => OnePriceList
  BY DEF IInv
<1> QED BY <1>1, <1>2, <1>3, PTL DEF Spec

-----------------------------------------------------------------------------
(* Least numbers and smallest sets. *)

\* A set of numbers that is not empty has a least one.
LEMMA LeastNumber ==
  ASSUME NEW Q \in SUBSET Nat, Q # {}
  PROVE  \E n \in Q : \A o \in Q : n <= o
<1> DEFINE R == {ss \in Nat \X Nat : ss[1] < ss[2]}
<1>1. IsWellFoundedOn(R, Nat)
  BY NatLessThanWellFounded, Zenon DEF OpToRel
<1>2. PICK n \in Q : \A o \in Q : ~ (<<o, n>> \in R)
  <2> HIDE DEF R
  <2> QED BY <1>1, WFMin
<1>3. ASSUME NEW o \in Q PROVE n <= o
  <2>1. ~ (o < n)
    BY <1>2
  <2> QED BY <2>1
<1> QED BY <1>3

\* A set of sets of numbers has one of which no strict subset is in it.
LEMMA SmallestSet ==
  ASSUME NEW S, IsFiniteSet(S), NEW Q \in SUBSET SUBSET S, Q # {}
  PROVE  \E T \in Q : \A U \in SUBSET T : U # T => U \notin Q
<1>1. IsWellFoundedOn(StrictSubsetOrdering(S), SUBSET S)
  BY FS_StrictSubsetOrderingWellFounded, FS_FiniteSubsetsOfFinite
<1>2. \E T \in Q : \A U \in Q : ~ (<<U, T>> \in StrictSubsetOrdering(S))
  BY <1>1, WFMin
<1> QED BY <1>2 DEF StrictSubsetOrdering

-----------------------------------------------------------------------------
(* Folds: what a fold over a sequence does, one element after the other. *)

\* The last of some positions.
Top(s) == Max(s)

\* Some positions without the last of them.
Below(s) == s \ {Top(s)}

\* g is the fold over every subset of T.
Walk(g, step, base, seq, T) ==
  g = [s \in SUBSET T |-> IF s = {} THEN base ELSE step[g[Below(s)]][seq[Top(s)]]]

\* The last of finitely many positions is one of them.
LEMMA TopIn ==
  ASSUME NEW s \in SUBSET Nat, IsFiniteSet(s), s # {}
  PROVE  Top(s) \in s /\ \A o \in s : o <= Top(s)
<1> DEFINE Q == {n \in Nat : \A o \in s : o <= n}
<1>1. \E n \in Nat : \A o \in s : o <= n
  <2> DEFINE D == {t \in SUBSET s : ~ \E n \in Nat : \A o \in t : o <= n}
  <2> SUFFICES ASSUME D # {} PROVE FALSE
    OBVIOUS
  <2>1. PICK t \in D : \A u \in SUBSET t : u # t => u \notin D
    <3>1. D \in SUBSET SUBSET s
      OBVIOUS
    <3> HIDE DEF D
    <3> QED BY <3>1, SmallestSet
  <2>2. PICK x \in t : TRUE
    OBVIOUS
  <2>3. PICK n \in Nat : \A o \in t \ {x} : o <= n
    <3>1. t \ {x} \in SUBSET s /\ t \ {x} \notin D
      BY <2>1, <2>2
    <3> QED BY <3>1
  <2>4. x \in Nat /\ n + x \in Nat /\ \A o \in t : o \in Nat
    BY <2>2, <2>3
  <2>5. \A o \in t : o <= n + x
    BY <2>3, <2>4
  <2> QED BY <2>4, <2>5
<1>2. PICK n \in Q : \A o \in Q : n <= o
  <2>1. Q \in SUBSET Nat /\ Q # {}
    BY <1>1
  <2> HIDE DEF Q
  <2> QED BY <2>1, LeastNumber
<1>3. n \in s
  <2> SUFFICES ASSUME n \notin s PROVE FALSE
    OBVIOUS
  <2>1. PICK x \in s : TRUE
    OBVIOUS
  <2>2. x \in Nat /\ x <= n /\ x # n
    BY <2>1
  <2>3. n - 1 \in Nat
    BY <2>2
  <2>4. \A o \in s : o \in Nat /\ o <= n /\ o # n
    OBVIOUS
  <2>5. \A o \in s : o <= n - 1
    BY <2>4
  <2>6. n <= n - 1
    BY <1>2, <2>3, <2>5
  <2> QED BY <2>6
<1>4. \E y \in s : \A o \in s : y >= o
  BY <1>3
<1>5. Top(s) \in s /\ \A o \in s : Top(s) >= o
  BY <1>4 DEF Top, Max
<1> QED BY <1>5

\* The last of the first m positions.
LEMMA TopOfPrefix ==
  ASSUME NEW m \in Nat \ {0}
  PROVE  /\ 1 .. m # {} /\ Top(1 .. m) = m /\ Below(1 .. m) = 1 .. m - 1
         /\ IsFiniteSet(1 .. m) /\ 1 .. m \in SUBSET Nat
<1>1. IsFiniteSet(1 .. m) /\ m \in 1 .. m /\ 1 .. m \in SUBSET Nat
  BY FS_Interval
<1>2. Top(1 .. m) \in 1 .. m /\ m <= Top(1 .. m)
  BY <1>1, TopIn
<1>3. Top(1 .. m) = m
  BY <1>2
<1> QED BY <1>1, <1>3 DEF Below

\* One step of a fold.
LEMMA WalkStep ==
  ASSUME NEW step, NEW base, NEW seq, NEW T, NEW g, Walk(g, step, base, seq, T), NEW s \in SUBSET T
  PROVE  /\ s = {} => g[s] = base
         /\ s # {} => g[s] = step[g[Below(s)]][seq[Top(s)]]
BY DEF Walk

\* Two folds over the same elements agree on what both have walked.
LEMMA WalkUnique ==
  ASSUME NEW step, NEW base, NEW seq, NEW T \in SUBSET Nat, IsFiniteSet(T),
         NEW g, Walk(g, step, base, seq, T), NEW U \in SUBSET T, NEW h, Walk(h, step, base, seq, U)
  PROVE  \A s \in SUBSET U : g[s] = h[s]
<1> DEFINE Q == {s \in SUBSET U : g[s] # h[s]}
<1> SUFFICES ASSUME Q # {} PROVE FALSE
  OBVIOUS
<1>1. IsFiniteSet(U)
  BY FS_Subset
<1>2. PICK s \in Q : \A t \in SUBSET s : t # s => t \notin Q
  <2>1. Q \in SUBSET SUBSET U
    OBVIOUS
  <2> HIDE DEF Q
  <2> QED BY <1>1, <2>1, SmallestSet
<1>3. s \in SUBSET U /\ s \in SUBSET T /\ s \in SUBSET Nat /\ IsFiniteSet(s)
  BY <1>1, FS_Subset
<1>4. CASE s = {}
  <2>1. g[s] = base /\ h[s] = base
    <3> HIDE DEF Q
    <3> QED BY <1>3, <1>4, WalkStep
  <2> QED BY <2>1
<1>5. CASE s # {}
  <2>1. Top(s) \in s
    BY <1>3, <1>5, TopIn
  <2>2. g[Below(s)] = h[Below(s)]
    BY <1>2, <1>3, <2>1 DEF Below
  <2>3. g[s] = h[s]
    <3> HIDE DEF Q
    <3>1. g[s] = step[g[Below(s)]][seq[Top(s)]]
      BY <1>3, <1>5 DEF Walk
    <3>2. h[s] = step[h[Below(s)]][seq[Top(s)]]
      BY <1>3, <1>5 DEF Walk
    <3> QED BY <2>2, <3>1, <3>2
  <2> QED BY <2>3
<1> QED BY <1>4, <1>5

\* The recursion that defines a fold has a solution.
LEMMA WalkExists ==
  ASSUME NEW step, NEW base, NEW seq, NEW S \in SUBSET Nat, IsFiniteSet(S)
  PROVE  \E g : Walk(g, step, base, seq, S)
<1> DEFINE Q == {T \in SUBSET S : ~ \E g : Walk(g, step, base, seq, T)}
<1> SUFFICES ASSUME Q # {} PROVE FALSE
  OBVIOUS
<1>1. PICK T \in Q : \A U \in SUBSET T : U # T => U \notin Q
  <2>1. Q \in SUBSET SUBSET S
    OBVIOUS
  <2> HIDE DEF Q
  <2> QED BY <2>1, SmallestSet
<1>A. T \in SUBSET Nat /\ IsFiniteSet(T)
  BY FS_Subset
<1> DEFINE G(u) == CHOOSE g : Walk(g, step, base, seq, u)
           h == [s \in SUBSET T |->
                   IF s = {} THEN base ELSE step[G(Below(s))[Below(s)]][seq[Top(s)]]]
<1>2. ASSUME NEW u \in SUBSET T, u # T PROVE Walk(G(u), step, base, seq, u)
  BY <1>1, <1>2
<1>B. ASSUME NEW u \in SUBSET T, u # {}
      PROVE  Below(u) \in SUBSET u /\ Below(u) # T /\ Below(u) \in SUBSET T
  <2>1. u \in SUBSET Nat /\ IsFiniteSet(u)
    BY <1>A, FS_Subset
  <2>2. Top(u) \in u
    BY <1>B, <2>1, TopIn
  <2> QED BY <2>2 DEF Below
<1>3. ASSUME NEW u \in SUBSET T, u # T PROVE h[u] = G(u)[u]
  <2>1. h[u] = IF u = {} THEN base ELSE step[G(Below(u))[Below(u)]][seq[Top(u)]]
    OBVIOUS
  <2>2. Walk(G(u), step, base, seq, u)
    BY <1>2, <1>3
  <2>3. CASE u = {}
    <3> DEFINE k == G(u)
    <3>1. Walk(k, step, base, seq, u) /\ u \in SUBSET u
      BY <2>2
    <3> HIDE DEF k
    <3>2. k[u] = base
      BY <2>3, <3>1, WalkStep
    <3> QED BY <2>1, <2>3, <3>2 DEF k
  <2>4. CASE u # {}
    <3> DEFINE v == Below(u)
    <3>1. v \in SUBSET u /\ v # T /\ v \in SUBSET T
      BY <1>B, <2>4
    <3>2. Walk(G(v), step, base, seq, v)
      BY <1>2, <3>1
    <3>3. IsFiniteSet(u) /\ u \in SUBSET Nat
      BY <1>A, FS_Subset
    <3>4. G(u)[v] = G(v)[v]
      <4> HIDE DEF G, v
      <4> QED BY <2>2, <3>1, <3>2, <3>3, WalkUnique
    <3>5. G(u)[u] = step[G(u)[v]][seq[Top(u)]]
      <4> DEFINE k == G(u)
      <4>1. Walk(k, step, base, seq, u) /\ u \in SUBSET u
        BY <2>2
      <4> HIDE DEF k
      <4>2. k[u] = step[k[Below(u)]][seq[Top(u)]]
        BY <2>4, <4>1, WalkStep
      <4> QED BY <4>2 DEF k
    <3> HIDE DEF G
    <3> QED BY <2>1, <2>4, <3>4, <3>5
  <2> QED BY <2>3, <2>4
<1>4. ASSUME NEW s \in SUBSET T, s # {} PROVE h[Below(s)] = G(Below(s))[Below(s)]
  <2>1. Below(s) \in SUBSET T /\ Below(s) # T
    BY <1>4, <1>B
  <2> HIDE DEF G, h
  <2> QED BY <1>3, <2>1
<1>5. Walk(h, step, base, seq, T)
  <2>1. h = [s \in SUBSET T |-> IF s = {} THEN base ELSE step[h[Below(s)]][seq[Top(s)]]]
    <3>1. ASSUME NEW s \in SUBSET T
          PROVE (IF s = {} THEN base ELSE step[G(Below(s))[Below(s)]][seq[Top(s)]])
                = (IF s = {} THEN base ELSE step[h[Below(s)]][seq[Top(s)]])
      <4> HIDE DEF G, h
      <4> QED BY <1>4
    <3>2. h = [s \in SUBSET T |->
                 IF s = {} THEN base ELSE step[G(Below(s))[Below(s)]][seq[Top(s)]]]
      OBVIOUS
    <3> HIDE DEF G, h
    <3> QED BY <3>1, <3>2
  <2> QED BY <2>1 DEF Walk
<1> QED BY <1>5

\* A fold stays among the states its steps lead to.
LEMMA WalkTyped ==
  ASSUME NEW Z, NEW D, NEW step \in [Z -> [D -> Z]], NEW base \in Z, NEW seq,
         NEW T \in SUBSET Nat, IsFiniteSet(T), \A i \in T : seq[i] \in D,
         NEW g, Walk(g, step, base, seq, T)
  PROVE  \A s \in SUBSET T : g[s] \in Z
<1> DEFINE Q == {s \in SUBSET T : g[s] \notin Z}
<1> SUFFICES ASSUME Q # {} PROVE FALSE
  OBVIOUS
<1>1. PICK s \in Q : \A t \in SUBSET s : t # s => t \notin Q
  <2>1. Q \in SUBSET SUBSET T
    OBVIOUS
  <2> HIDE DEF Q
  <2> QED BY <2>1, SmallestSet
<1>2. s \in SUBSET T /\ s \in SUBSET Nat /\ IsFiniteSet(s)
  BY FS_Subset
<1>3. CASE s = {}
  <2>1. g[s] = base
    <3> HIDE DEF Q
    <3> QED BY <1>2, <1>3 DEF Walk
  <2> QED BY <2>1
<1>4. CASE s # {}
  <2>1. Top(s) \in s
    BY <1>2, <1>4, TopIn
  <2>2. g[Below(s)] \in Z /\ seq[Top(s)] \in D
    BY <1>1, <1>2, <2>1 DEF Below
  <2>3. g[s] = step[g[Below(s)]][seq[Top(s)]]
    <3> HIDE DEF Q
    <3> QED BY <1>2, <1>4 DEF Walk
  <2>4. g[s] \in Z
    BY <2>2, <2>3
  <2> QED BY <2>4
<1> QED BY <1>3, <1>4

-----------------------------------------------------------------------------
(* The records of a scan, file after file. *)

CodexTyped == rollout \in [CodexFile -> Seq(Model \cup {Usage})]

\* Where a record stands.
Place == CodexFile \X (Nat \ {0})

\* The records of one file.
Lines(f) == [i \in DOMAIN rollout[f] |-> <<f, i>>]

\* A file's records, one for each of its lines.
LEMMA LinesTyped ==
  ASSUME CodexTyped, NEW f \in CodexFile
  PROVE  /\ rollout[f] \in Seq(Model \cup {Usage}) /\ Len(rollout[f]) \in Nat
         /\ DOMAIN rollout[f] = 1 .. Len(rollout[f])
         /\ Lines(f) \in Seq(Place) /\ Len(Lines(f)) = Len(rollout[f])
         /\ \A i \in 1 .. Len(rollout[f]) : Lines(f)[i] = <<f, i>>
<1>1. rollout[f] \in Seq(Model \cup {Usage})
  BY DEF CodexTyped
<1>2. Len(rollout[f]) \in Nat /\ DOMAIN rollout[f] = 1 .. Len(rollout[f])
  BY <1>1
<1> DEFINE n == Len(rollout[f])
<1>3. Lines(f) = [i \in 1 .. n |-> <<f, i>>] /\ n \in Nat
  BY <1>2 DEF Lines
<1> HIDE DEF n
<1>4. \A i \in 1 .. n : <<f, i>> \in Place
  BY <1>3 DEF Place
<1>5. Lines(f) \in Seq(Place) /\ Len(Lines(f)) = n
  BY <1>3, <1>4
<1> QED BY <1>1, <1>2, <1>3, <1>5 DEF n

\* g gathers the records of every choice of the files in seq.
Gathered(g, seq) ==
  g = [s \in SUBSET DOMAIN seq |-> IF s = {} THEN <<>> ELSE g[Below(s)] \o Lines(seq[Top(s)])]

\* The records of a scan are read off such a g.
LEMMA RecordsChosen ==
  ASSUME NEW files, NEW seq, seq = SetToSeq(files)
  PROVE  Records(files) = (CHOOSE g : Gathered(g, seq))[DOMAIN seq]
BY DEF Records, FoldLeft, MapThenFoldSet, Gathered, Lines, Top, Below

\* There is one, and it gathers records only.
LEMMA GatheredExists ==
  ASSUME CodexTyped, NEW seq \in Seq(CodexFile)
  PROVE  \E g : Gathered(g, seq) /\ \A s \in SUBSET DOMAIN seq : g[s] \in Seq(Place)
<1> DEFINE T == DOMAIN seq
           Z == Seq(Place)
           step == [z \in Z |-> [f \in CodexFile |-> z \o Lines(f)]]
<1>1. T \in SUBSET Nat /\ IsFiniteSet(T) /\ \A i \in T : seq[i] \in CodexFile
  <2>1. T = 1 .. Len(seq) /\ Len(seq) \in Nat
    OBVIOUS
  <2> QED BY <2>1, FS_Interval
<1>2. step \in [Z -> [CodexFile -> Z]]
  <2>1. ASSUME NEW z \in Z, NEW f \in CodexFile PROVE z \o Lines(f) \in Z
    BY LinesTyped
  <2> HIDE DEF Z
  <2> QED BY <2>1
<1>3. <<>> \in Z
  OBVIOUS
<1>4. PICK g : Walk(g, step, <<>>, seq, T)
  <2> HIDE DEF T, step
  <2> QED BY <1>1, WalkExists
<1>5. \A s \in SUBSET T : g[s] \in Z
  <2> HIDE DEF T, Z, step
  <2> QED BY <1>1, <1>2, <1>3, <1>4, WalkTyped
<1>6. ASSUME NEW s \in SUBSET T, s # {}
      PROVE  step[g[Below(s)]][seq[Top(s)]] = g[Below(s)] \o Lines(seq[Top(s)])
  <2>1. Below(s) \in SUBSET T /\ Top(s) \in T
    <3>1. s \in SUBSET Nat /\ IsFiniteSet(s)
      <4> HIDE DEF T
      <4> QED BY <1>1, FS_Subset
    <3>2. Top(s) \in s
      BY <1>6, <3>1, TopIn
    <3> QED BY <3>2 DEF Below
  <2>2. g[Below(s)] \in Z /\ seq[Top(s)] \in CodexFile
    <3> HIDE DEF T, Z
    <3> QED BY <1>1, <1>5, <2>1
  <2> HIDE DEF Z
  <2> QED BY <2>2
<1>7. Gathered(g, seq)
  <2>1. g = [s \in SUBSET T |-> IF s = {} THEN <<>> ELSE step[g[Below(s)]][seq[Top(s)]]]
    <3> HIDE DEF step, T
    <3> QED BY <1>4 DEF Walk
  <2>2. ASSUME NEW s \in SUBSET T
        PROVE  (IF s = {} THEN <<>> ELSE step[g[Below(s)]][seq[Top(s)]])
                 = (IF s = {} THEN <<>> ELSE g[Below(s)] \o Lines(seq[Top(s)]))
    <3> HIDE DEF step, T
    <3> QED BY <1>6
  <2>3. g = [s \in SUBSET T |-> IF s = {} THEN <<>> ELSE g[Below(s)] \o Lines(seq[Top(s)])]
    <3> HIDE DEF step, T
    <3> QED BY <2>1, <2>2
  <2> QED BY <2>3 DEF Gathered
<1> QED BY <1>5, <1>7

\* A scan's records are gathered file by file.
LEMMA RecordsByFile ==
  ASSUME CodexTyped, NEW files, NEW seq \in Seq(CodexFile), seq = SetToSeq(files)
  PROVE  \E acc : /\ acc[0] = <<>>
                  /\ \A m \in 1 .. Len(seq) : /\ acc[m - 1] \in Seq(Place)
                                              /\ acc[m] = acc[m - 1] \o Lines(seq[m])
                  /\ acc[Len(seq)] \in Seq(Place)
                  /\ Records(files) = acc[Len(seq)]
<1> DEFINE g == CHOOSE h : Gathered(h, seq)
           n == Len(seq)
           acc == [m \in 0 .. n |-> g[1 .. m]]
<1>1. n \in Nat /\ DOMAIN seq = 1 .. n
  OBVIOUS
<1>2. Gathered(g, seq)
  BY GatheredExists
<1>3. Records(files) = g[1 .. n]
  BY <1>1, RecordsChosen
<1> HIDE DEF g, n
<1>4. acc[0] = <<>> /\ \A m \in 0 .. n : acc[m] = g[1 .. m]
  <2>1. {} \in SUBSET (1 .. n) /\ 1 .. 0 = {} /\ 0 \in 0 .. n
    BY <1>1
  <2>2. g[{}] = <<>>
    BY <1>1, <1>2, <2>1 DEF Gathered
  <2> QED BY <2>1, <2>2
<1>5. ASSUME NEW m \in 1 .. n PROVE g[1 .. m] = g[1 .. m - 1] \o Lines(seq[m])
  <2>1. m \in Nat \ {0} /\ 1 .. m \in SUBSET (1 .. n)
    BY <1>1
  <2>2. 1 .. m # {} /\ Top(1 .. m) = m /\ Below(1 .. m) = 1 .. m - 1
    BY <2>1, TopOfPrefix
  <2> DEFINE s == 1 .. m
  <2>3. s \in SUBSET DOMAIN seq /\ s # {} /\ Top(s) = m
    BY <1>1, <2>1, <2>2
  <2> HIDE DEF s
  <2>4. g[s] = g[Below(s)] \o Lines(seq[Top(s)])
    BY <1>2, <2>3 DEF Gathered
  <2> QED BY <2>2, <2>3, <2>4 DEF s
<1>6. \A m \in 0 .. n : g[1 .. m] \in Seq(Place)
  <2> DEFINE Q == {m \in 0 .. n : g[1 .. m] \notin Seq(Place)}
  <2> SUFFICES ASSUME Q # {} PROVE FALSE
    OBVIOUS
  <2>1. PICK m \in Q : \A k \in Q : m <= k
    <3>1. Q \in SUBSET Nat
      BY <1>1
    <3> HIDE DEF Q
    <3> QED BY <3>1, LeastNumber
  <2>2. CASE m = 0
    <3>1. g[1 .. 0] = <<>>
      BY <1>1, <1>4
    <3>2. <<>> \in Seq(Place)
      OBVIOUS
    <3> QED BY <2>2, <3>1, <3>2
  <2>3. CASE m # 0
    <3>1. m \in 1 .. n /\ m - 1 \in 0 .. n /\ ~ (m <= m - 1)
      BY <1>1, <2>3
    <3>2. g[1 .. m - 1] \in Seq(Place)
      BY <2>1, <3>1
    <3>3. Lines(seq[m]) \in Seq(Place)
      BY <1>1, <3>1, LinesTyped
    <3>4. g[1 .. m] \in Seq(Place)
      <4> DEFINE p == g[1 .. m - 1]
                 q == Lines(seq[m])
      <4>1. p \o q \in Seq(Place)
        <5>1. p \in Seq(Place) /\ q \in Seq(Place)
          BY <3>2, <3>3
        <5> HIDE DEF p, q
        <5> QED BY <5>1
      <4> QED BY <1>5, <3>1, <4>1
    <3> QED BY <3>4
  <2> QED BY <2>2, <2>3
<1> HIDE DEF acc
<1>7. \A m \in 1 .. n : acc[m - 1] \in Seq(Place) /\ acc[m] = acc[m - 1] \o Lines(seq[m])
  <2> SUFFICES ASSUME NEW m \in 1 .. n
               PROVE  acc[m - 1] \in Seq(Place) /\ acc[m] = acc[m - 1] \o Lines(seq[m])
    OBVIOUS
  <2>1. m \in 0 .. n /\ m - 1 \in 0 .. n
    BY <1>1
  <2>2. acc[m] = g[1 .. m] /\ acc[m - 1] = g[1 .. m - 1]
    BY <1>4, <2>1
  <2> QED BY <1>5, <1>6, <2>1, <2>2
<1>8. acc[n] \in Seq(Place) /\ Records(files) = acc[n]
  <2>1. n \in 0 .. n
    BY <1>1
  <2>2. acc[n] = g[1 .. n]
    BY <1>4, <2>1
  <2> QED BY <1>3, <1>6, <2>1, <2>2
<1> QED BY <1>4, <1>7, <1>8 DEF n

\* Every file's records stand together, from its first line on.
InOrder(recs, files) ==
  \A j \in 1 .. Len(recs) :
    /\ recs[j] \in Place /\ recs[j][1] \in files
    /\ recs[j][2] \in DOMAIN rollout[recs[j][1]]
    /\ IF recs[j][2] = 1 THEN j = 1 \/ recs[j - 1][1] # recs[j][1]
       ELSE j > 1 /\ recs[j - 1] = <<recs[j][1], recs[j][2] - 1>>

\* A file appended to others leaves every file's records together.
LEMMA AnotherFile ==
  ASSUME CodexTyped, NEW recs \in Seq(Place), NEW files \in SUBSET CodexFile, InOrder(recs, files),
         NEW f \in CodexFile \ files
  PROVE  InOrder(recs \o Lines(f), files \cup {f})
<1> DEFINE more == recs \o Lines(f)
           n == Len(recs)
           k == Len(rollout[f])
<1>1. /\ n \in Nat /\ k \in Nat /\ Lines(f) \in Seq(Place) /\ Len(Lines(f)) = k
      /\ DOMAIN rollout[f] = 1 .. k
      /\ \A i \in 1 .. k : Lines(f)[i] = <<f, i>>
  BY LinesTyped
<1>2. /\ Len(more) = n + k
      /\ \A j \in 1 .. n : more[j] = recs[j]
      /\ \A i \in 1 .. k : more[n + i] = Lines(f)[i]
  <2> DEFINE l == Lines(f)
  <2>1. l \in Seq(Place) /\ Len(l) = k
    BY <1>1
  <2> HIDE DEF l, k
  <2> QED BY <2>1 DEF l
<1> HIDE DEF more, n, k
<1>3. ASSUME NEW j \in 1 .. n
      PROVE  /\ more[j] \in Place /\ more[j][1] \in files
             /\ more[j][2] \in DOMAIN rollout[more[j][1]]
             /\ IF more[j][2] = 1 THEN j = 1 \/ more[j - 1][1] # more[j][1]
                ELSE j > 1 /\ more[j - 1] = <<more[j][1], more[j][2] - 1>>
  <2>1. /\ recs[j] \in Place /\ recs[j][1] \in files
        /\ recs[j][2] \in DOMAIN rollout[recs[j][1]]
        /\ IF recs[j][2] = 1 THEN j = 1 \/ recs[j - 1][1] # recs[j][1]
           ELSE j > 1 /\ recs[j - 1] = <<recs[j][1], recs[j][2] - 1>>
    BY DEF InOrder, n
  <2>2. more[j] = recs[j]
    BY <1>2
  <2>3. j # 1 => more[j - 1] = recs[j - 1]
    <3>1. j # 1 => j - 1 \in 1 .. n
      BY <1>1
    <3> QED BY <1>2, <3>1
  <2>4. j \in Nat
    BY <1>1
  <2> QED BY <2>1, <2>2, <2>3, <2>4
<1>4. ASSUME NEW i \in 1 .. k
      PROVE  /\ more[n + i] = <<f, i>> /\ <<f, i>> \in Place /\ i \in DOMAIN rollout[f]
             /\ IF i = 1 THEN n + i = 1 \/ more[n + i - 1][1] # f
                ELSE n + i > 1 /\ more[n + i - 1] = <<f, i - 1>>
  <2>1. more[n + i] = <<f, i>> /\ i \in Nat \ {0} /\ i \in DOMAIN rollout[f]
    <3>1. more[n + i] = <<f, i>>
      BY <1>1, <1>2
    <3>2. i \in Nat \ {0} /\ i \in 1 .. k
      BY <1>1
    <3>3. i \in DOMAIN rollout[f]
      BY <1>1, <3>2
    <3> QED BY <3>1, <3>2, <3>3
  <2>2. CASE i = 1
    <3>1. n + i - 1 = n /\ (n = 0 \/ n \in 1 .. n)
      BY <1>1, <2>2
    <3>2. n \in 1 .. n => more[n][1] \in files
      BY <1>3
    <3> QED BY <1>1, <2>1, <2>2, <3>1, <3>2 DEF Place
  <2>3. CASE i # 1
    <3>1. i - 1 \in 1 .. k /\ n + i - 1 = n + (i - 1) /\ n + i > 1
      BY <1>1, <2>1, <2>3
    <3>2. more[n + (i - 1)] = <<f, i - 1>>
      BY <1>1, <1>2, <3>1
    <3> QED BY <2>1, <2>3, <3>1, <3>2 DEF Place
  <2> QED BY <2>2, <2>3
<1>5. ASSUME NEW j \in 1 .. Len(more)
      PROVE  /\ more[j] \in Place /\ more[j][1] \in files \cup {f}
             /\ more[j][2] \in DOMAIN rollout[more[j][1]]
             /\ IF more[j][2] = 1 THEN j = 1 \/ more[j - 1][1] # more[j][1]
                ELSE j > 1 /\ more[j - 1] = <<more[j][1], more[j][2] - 1>>
  <2>1. CASE j \in 1 .. n
    BY <1>3, <2>1
  <2>2. CASE j \notin 1 .. n
    <3> DEFINE i == j - n
    <3>1. i \in 1 .. k /\ j = n + i
      BY <1>1, <1>2, <2>2
    <3> HIDE DEF i
    <3>2. /\ more[j] = <<f, i>> /\ <<f, i>> \in Place /\ i \in DOMAIN rollout[f]
          /\ IF i = 1 THEN j = 1 \/ more[j - 1][1] # f
             ELSE j > 1 /\ more[j - 1] = <<f, i - 1>>
      <4> DEFINE l == n + i
      <4>1. /\ more[l] = <<f, i>> /\ <<f, i>> \in Place /\ i \in DOMAIN rollout[f]
            /\ IF i = 1 THEN l = 1 \/ more[l - 1][1] # f
               ELSE l > 1 /\ more[l - 1] = <<f, i - 1>>
        <5>1. \A h \in 1 .. k :
                /\ more[n + h] = <<f, h>> /\ <<f, h>> \in Place /\ h \in DOMAIN rollout[f]
                /\ IF h = 1 THEN n + h = 1 \/ more[n + h - 1][1] # f
                   ELSE n + h > 1 /\ more[n + h - 1] = <<f, h - 1>>
          BY <1>4
        <5>2. n \in Nat /\ k \in Nat /\ i \in Nat
          BY <1>1, <3>1
        <5> QED BY ONLY <3>1, <5>1, <5>2
      <4>2. l = j
        BY <3>1
      <4> HIDE DEF l
      <4> QED BY <4>1, <4>2
    <3>3. more[j][1] = f /\ more[j][2] = i
      BY <3>2
    <3> QED BY <3>2, <3>3
  <2> QED BY <2>1, <2>2
<1>6. InOrder(more, files \cup {f})
  BY <1>5 DEF InOrder
<1> QED BY <1>6 DEF more

\* The files are listed once each.
LEMMA ListOfFiles ==
  ASSUME NEW S, IsFiniteSet(S)
  PROVE  SetToSeq(S) \in Seq(S) /\ IsInjective(SetToSeq(S))
<1> DEFINE n == Cardinality(S)
<1>1. n \in Nat /\ ExistsBijection(1 .. n, S)
  BY FS_CardinalityType
<1>2. \E f \in [1 .. n -> S] : IsInjective(f)
  BY <1>1 DEF ExistsBijection, Bijection, Injection, IsInjective
<1>3. SetToSeq(S) \in [1 .. n -> S] /\ IsInjective(SetToSeq(S))
  BY <1>2 DEF SetToSeq
<1> HIDE DEF n
<1> QED BY <1>1, <1>3

\* What a scan of Codex reads.
LEMMA RecordsInOrder ==
  ASSUME CodexTyped, NEW files \in SUBSET CodexFile
  PROVE  Records(files) \in Seq(Place) /\ InOrder(Records(files), files)
<1> DEFINE seq == SetToSeq(files)
           n == Len(seq)
           Upto(m) == {seq[l] : l \in 1 .. m}
<1>1. seq \in Seq(files) /\ IsInjective(seq) /\ seq \in Seq(CodexFile)
  <2>1. IsFiniteSet(files)
    BY ModelsAndLines, FS_Subset
  <2>2. seq \in Seq(files) /\ IsInjective(seq)
    BY <2>1, ListOfFiles
  <2> HIDE DEF seq
  <2>3. seq \in [1 .. Len(seq) -> files] /\ Len(seq) \in Nat
    BY <2>2
  <2>4. seq \in [1 .. Len(seq) -> CodexFile]
    BY <2>3
  <2> QED BY <2>2, <2>3, <2>4
<1>2. PICK acc : /\ acc[0] = <<>>
                 /\ \A m \in 1 .. n : /\ acc[m - 1] \in Seq(Place)
                                      /\ acc[m] = acc[m - 1] \o Lines(seq[m])
                 /\ acc[n] \in Seq(Place)
                 /\ Records(files) = acc[n]
  BY <1>1, RecordsByFile
<1>3. n \in Nat /\ DOMAIN seq = 1 .. n /\ \A m \in 1 .. n : seq[m] \in files
  <2> HIDE DEF seq
  <2> QED BY <1>1
<1>4. \A i, j \in 1 .. n : seq[i] = seq[j] => i = j
  BY <1>1, <1>3 DEF IsInjective
<1> HIDE DEF seq, n
<1>5. \A m \in 0 .. n : InOrder(acc[m], Upto(m))
  <2> DEFINE Q == {m \in 0 .. n : ~ InOrder(acc[m], Upto(m))}
  <2> SUFFICES ASSUME Q # {} PROVE FALSE
    OBVIOUS
  <2>1. PICK m \in Q : \A k \in Q : m <= k
    <3>1. Q \in SUBSET Nat
      BY <1>3
    <3> HIDE DEF Q
    <3> QED BY <3>1, LeastNumber
  <2>2. CASE m = 0
    <3>1. InOrder(<<>>, Upto(m))
      BY DEF InOrder
    <3> QED BY <1>2, <2>2, <3>1
  <2>3. CASE m # 0
    <3>1. m \in 1 .. n /\ m - 1 \in 0 .. n /\ ~ (m <= m - 1) /\ m \in Nat
      BY <1>3, <2>3
    <3>2. InOrder(acc[m - 1], Upto(m - 1))
      BY <2>1, <3>1
    <3>3. seq[m] \in CodexFile \ Upto(m - 1) /\ Upto(m - 1) \in SUBSET CodexFile
      <4>1. \A l \in 1 .. m - 1 : l \in 1 .. n /\ l # m
        BY <1>3, <3>1
      <4> QED BY <1>3, <1>4, <3>1, <4>1
    <3>4. Upto(m) = Upto(m - 1) \cup {seq[m]}
      <4>1. 1 .. m = (1 .. m - 1) \cup {m}
        BY <3>1
      <4> QED BY <4>1
    <3>5. acc[m - 1] \in Seq(Place) /\ acc[m] = acc[m - 1] \o Lines(seq[m])
      BY <1>2, <3>1
    <3> DEFINE U == Upto(m - 1)
               f == seq[m]
               recs == acc[m - 1]
    <3>6. InOrder(recs \o Lines(f), U \cup {f})
      <4>1. recs \in Seq(Place) /\ InOrder(recs, U) /\ f \in CodexFile \ U /\ U \in SUBSET CodexFile
        BY <3>2, <3>3, <3>5
      <4> HIDE DEF recs, U, f
      <4> QED BY <4>1, AnotherFile
    <3>7. InOrder(acc[m], Upto(m))
      BY <3>4, <3>5, <3>6
    <3> QED BY <3>7
  <2> QED BY <2>2, <2>3
<1>6. InOrder(acc[n], Upto(n))
  <2>1. n \in 0 .. n
    BY <1>3
  <2> HIDE DEF Upto
  <2> QED BY <1>5, <2>1
<1>7. Upto(n) \subseteq files
  BY <1>3
<1>8. InOrder(acc[n], files)
  BY <1>6, <1>7 DEF InOrder
<1> QED BY <1>2, <1>8

-----------------------------------------------------------------------------
(* What the normalizer makes of the records: the model each file named last. *)

\* What is written is written as a record.
Record == {r \in Place : r[1] \in CodexFile /\ r[2] \in DOMAIN rollout[r[1]]}

\* What the normalizer keeps from record to record.
State == [file : CodexFile \cup {Nowhere}, model : Model \cup {NoModel},
          out : [CodexKey -> Model \cup {NoModel}]]

Start == [file |-> Nowhere, model |-> NoModel, out |-> [k \in CodexKey |-> NoModel]]

\* The lines that name a model, up to a record.
Named(k) == {j \in 1 .. k[2] : rollout[k[1]][j] # Usage}

\* The model a file has named by a record, if any.
Shown(k) == IF Named(k) = {} THEN NoModel ELSE rollout[k[1]][Largest(Named(k))]

\* The model of a usage record.
Own(k) == IF Named(k) = {} THEN DefaultModel ELSE rollout[k[1]][Largest(Named(k))]

\* The largest number is the only one no other exceeds.
LEMMA LargestIs ==
  ASSUME NEW S \in SUBSET Nat, NEW n \in S, \A o \in S : o <= n
  PROVE  Largest(S) = n
<1>1. Largest(S) \in S /\ \A o \in S : o <= Largest(S)
  BY DEF Largest
<1>2. Largest(S) <= n /\ n <= Largest(S) /\ n \in Nat /\ Largest(S) \in Nat
  BY <1>1
<1> QED BY <1>2

\* A set of line numbers has a largest.
LEMMA LargestLine ==
  ASSUME NEW i \in Nat, NEW S \in SUBSET (1 .. i), S # {}
  PROVE  Largest(S) \in S /\ \A o \in S : o <= Largest(S)
<1>1. IsFiniteSet(S)
  <2> DEFINE T == 1 .. i
  <2>1. IsFiniteSet(T) /\ S \in SUBSET T
    BY FS_Interval
  <2> HIDE DEF T
  <2> QED BY <2>1, FS_Subset
<1>2. S \in SUBSET Nat
  OBVIOUS
<1>3. Top(S) \in S /\ \A o \in S : o <= Top(S)
  BY <1>1, <1>2, TopIn
<1> QED BY <1>3 DEF Largest

\* How the model shown goes from line to line.
LEMMA ShownByLine ==
  ASSUME CodexTyped, NEW f \in CodexFile, NEW i \in DOMAIN rollout[f]
  PROVE  /\ i \in Nat \ {0} /\ rollout[f][i] \in Model \cup {Usage}
         /\ rollout[f][i] # Usage => Shown(<<f, i>>) = rollout[f][i]
         /\ rollout[f][i] = Usage =>
              /\ Shown(<<f, i>>) = IF i = 1 THEN NoModel ELSE Shown(<<f, i - 1>>)
              /\ Own(<<f, i>>) = IF Shown(<<f, i>>) = NoModel THEN DefaultModel ELSE Shown(<<f, i>>)
         /\ Shown(<<f, i>>) \in Model \cup {NoModel}
         /\ Own(<<f, i>>) \in Model
<1>1. i \in Nat \ {0} /\ \A j \in 1 .. i : rollout[f][j] \in Model \cup {Usage}
  <2> DEFINE n == Len(rollout[f])
  <2>1. rollout[f] \in Seq(Model \cup {Usage}) /\ n \in Nat /\ DOMAIN rollout[f] = 1 .. n
    BY LinesTyped
  <2>2. \A j \in 1 .. n : rollout[f][j] \in Model \cup {Usage}
    BY <2>1
  <2> HIDE DEF n
  <2>3. \A j \in 1 .. i : j \in 1 .. n
    BY <2>1
  <2> QED BY <2>1, <2>2, <2>3
<1> DEFINE N == Named(<<f, i>>)
           M == Named(<<f, i - 1>>)
<1>2. /\ N = {j \in 1 .. i : rollout[f][j] # Usage} /\ N \in SUBSET (1 .. i)
      /\ M = {j \in 1 .. i - 1 : rollout[f][j] # Usage}
  BY DEF Named
<1>3. /\ Shown(<<f, i>>) = (IF N = {} THEN NoModel ELSE rollout[f][Largest(N)])
      /\ Own(<<f, i>>) = (IF N = {} THEN DefaultModel ELSE rollout[f][Largest(N)])
      /\ Shown(<<f, i - 1>>) = (IF M = {} THEN NoModel ELSE rollout[f][Largest(M)])
  BY DEF Shown, Own
<1> HIDE DEF N, M
<1>4. N # {} => rollout[f][Largest(N)] \in Model
  <2> HAVE N # {}
  <2>1. Largest(N) \in N
    BY <1>1, <1>2, LargestLine
  <2>2. Largest(N) \in 1 .. i /\ rollout[f][Largest(N)] # Usage
    BY <1>2, <2>1
  <2> QED BY <1>1, <2>2
<1>5. rollout[f][i] # Usage => N # {} /\ Largest(N) = i
  <2> HAVE rollout[f][i] # Usage
  <2>1. i \in 1 .. i
    BY <1>1
  <2>2. i \in N
    BY <1>2, <2>1
  <2>3. N \in SUBSET Nat /\ \A o \in N : o <= i
    BY <1>1, <1>2
  <2> QED BY <2>2, <2>3, LargestIs
<1>6. rollout[f][i] = Usage => N = M
  <2> HAVE rollout[f][i] = Usage
  <2>1. \A j : j \in 1 .. i /\ j # i <=> j \in 1 .. i - 1
    BY <1>1
  <2> QED BY <1>2, <2>1
<1>7. i = 1 => M = {}
  BY <1>2
<1>8. DefaultModel \in Model /\ NoModel \notin Model
  BY ModelsAndLines
<1> QED BY <1>1, <1>3, <1>4, <1>5, <1>6, <1>7, <1>8

\* The normalizer goes from state to state.
LEMMA NormalizeTyped ==
  ASSUME CodexTyped, NEW z \in State, NEW r \in Record
  PROVE  NormalizeCodex(z, r) \in State
<1>1. r[1] \in CodexFile /\ r[2] \in DOMAIN rollout[r[1]]
  BY DEF Record
<1>2. rollout[r[1]][r[2]] \in Model \cup {Usage}
  BY <1>1, ShownByLine
<1>3. z.model \in Model \cup {NoModel} /\ z.out \in [CodexKey -> Model \cup {NoModel}]
  BY DEF State
<1> DEFINE model == IF rollout[r[1]][r[2]] = Usage THEN CodexState(z, r) ELSE rollout[r[1]][r[2]]
           known == IF model = NoModel THEN DefaultModel ELSE model
           out == IF rollout[r[1]][r[2]] = Usage THEN [z.out EXCEPT ![r] = known] ELSE z.out
<1>4. model \in Model \cup {NoModel}
  BY <1>2, <1>3 DEF CodexState
<1>5. known \in Model \cup {NoModel}
  BY <1>4, ModelsAndLines
<1>6. out \in [CodexKey -> Model \cup {NoModel}]
  <2> HIDE DEF known
  <2> QED BY <1>3, <1>5
<1>7. NormalizeCodex(z, r) = [file |-> r[1], model |-> model, out |-> out]
  BY DEF NormalizeCodex
<1> HIDE DEF model, out
<1> QED BY <1>1, <1>4, <1>6, <1>7 DEF State

\* g normalizes every choice of the records.
Normalized(g, recs) ==
  g = [s \in SUBSET DOMAIN recs |->
         IF s = {} THEN Start ELSE NormalizeCodex(g[Below(s)], recs[Top(s)])]

\* The models of a scan are read off such a g.
LEMMA ModelsChosen ==
  ASSUME NEW files, NEW recs, recs = Records(files)
  PROVE  CodexModels(files) = (CHOOSE g : Normalized(g, recs))[DOMAIN recs].out
BY DEF CodexModels, FoldLeft, MapThenFoldSet, Normalized, Start, Top, Below

\* There is one.
LEMMA NormalizedExists ==
  ASSUME CodexTyped, NEW recs \in Seq(Record)
  PROVE  \E g : Normalized(g, recs)
<1> DEFINE T == DOMAIN recs
           step == [z \in State |-> [r \in Record |-> NormalizeCodex(z, r)]]
<1>1. T \in SUBSET Nat /\ IsFiniteSet(T) /\ \A i \in T : recs[i] \in Record
  <2>1. T = 1 .. Len(recs) /\ Len(recs) \in Nat
    OBVIOUS
  <2> QED BY <2>1, FS_Interval
<1>2. step \in [State -> [Record -> State]]
  BY NormalizeTyped
<1>3. Start \in State
  BY DEF Start, State
<1>4. PICK g : Walk(g, step, Start, recs, T)
  <2> HIDE DEF T, step
  <2> QED BY <1>1, WalkExists
<1>5. \A s \in SUBSET T : g[s] \in State
  <2> HIDE DEF T, step
  <2> QED BY <1>1, <1>2, <1>3, <1>4, WalkTyped
<1>6. ASSUME NEW s \in SUBSET T, s # {}
      PROVE  step[g[Below(s)]][recs[Top(s)]] = NormalizeCodex(g[Below(s)], recs[Top(s)])
  <2>1. Below(s) \in SUBSET T /\ Top(s) \in T
    <3>1. s \in SUBSET Nat /\ IsFiniteSet(s)
      <4> HIDE DEF T
      <4> QED BY <1>1, FS_Subset
    <3>2. Top(s) \in s
      BY <1>6, <3>1, TopIn
    <3> QED BY <3>2 DEF Below
  <2>2. g[Below(s)] \in State /\ recs[Top(s)] \in Record
    <3> HIDE DEF T
    <3> QED BY <1>1, <1>5, <2>1
  <2> QED BY <2>2
<1>7. Normalized(g, recs)
  <2>1. g = [s \in SUBSET T |-> IF s = {} THEN Start ELSE step[g[Below(s)]][recs[Top(s)]]]
    <3> HIDE DEF step, T
    <3> QED BY <1>4 DEF Walk
  <2>2. ASSUME NEW s \in SUBSET T
        PROVE  (IF s = {} THEN Start ELSE step[g[Below(s)]][recs[Top(s)]])
                 = (IF s = {} THEN Start ELSE NormalizeCodex(g[Below(s)], recs[Top(s)]))
    <3> HIDE DEF step, T
    <3> QED BY <1>6
  <2>3. g = [s \in SUBSET T |->
               IF s = {} THEN Start ELSE NormalizeCodex(g[Below(s)], recs[Top(s)])]
    <3> HIDE DEF step, T
    <3> QED BY <2>1, <2>2
  <2> QED BY <2>3 DEF Normalized
<1> QED BY <1>7

\* Whatever records a state has seen, it has the models of usage records right,
\* and knows what the file of the last record has shown.
SeenRight(z, recs, m) ==
  /\ z \in State
  /\ \A k \in CodexKey : z.out[k] # NoModel =>
       k \in Record /\ rollout[k[1]][k[2]] = Usage /\ z.out[k] = Own(k)
  /\ IF m = 0 THEN z.file = Nowhere ELSE z.file = recs[m][1] /\ z.model = Shown(recs[m])

\* One record more: the first of a file finds no model shown, another finds what the line
\* before it left.
LEMMA SeesNext ==
  ASSUME CodexTyped, NEW recs \in Seq(Record), NEW files, InOrder(recs, files),
         NEW m \in 1 .. Len(recs), NEW z, SeenRight(z, recs, m - 1)
  PROVE  SeenRight(NormalizeCodex(z, recs[m]), recs, m)
<1> DEFINE r == recs[m]
           f == r[1]
           i == r[2]
           line == rollout[f][i]
           new == NormalizeCodex(z, r)
<1>1. m \in Nat \ {0} /\ r \in Record /\ z \in State
  BY DEF SeenRight
<1>2. f \in CodexFile /\ i \in DOMAIN rollout[f] /\ r = <<f, i>>
  BY <1>1 DEF Record, Place
<1>3. /\ i = 1 => m = 1 \/ recs[m - 1][1] # f
      /\ i # 1 => m > 1 /\ recs[m - 1] = <<f, i - 1>>
  BY DEF InOrder
<1>4. /\ z.out \in [CodexKey -> Model \cup {NoModel}]
      /\ \A k \in CodexKey : z.out[k] # NoModel =>
           k \in Record /\ rollout[k[1]][k[2]] = Usage /\ z.out[k] = Own(k)
      /\ m = 1 => z.file = Nowhere
      /\ m # 1 => z.file = recs[m - 1][1] /\ z.model = Shown(recs[m - 1])
  <2>1. m - 1 = 0 <=> m = 1
    BY <1>1
  <2> QED BY <2>1 DEF SeenRight, State
<1> HIDE DEF r
<1>5. /\ i \in Nat \ {0} /\ line \in Model \cup {Usage}
      /\ line # Usage => Shown(r) = line
      /\ line = Usage =>
           /\ Shown(r) = IF i = 1 THEN NoModel ELSE Shown(<<f, i - 1>>)
           /\ Own(r) = IF Shown(r) = NoModel THEN DefaultModel ELSE Shown(r)
  BY <1>2, ShownByLine
<1>6. line = Usage => CodexState(z, r) = Shown(r)
  <2> HAVE line = Usage
  <2>1. CASE i = 1
    <3>1. z.file # f
      BY <1>2, <1>3, <1>4, <2>1, IngestSentinels
    <3> QED BY <1>5, <2>1, <3>1 DEF CodexState
  <2>2. CASE i # 1
    <3>1. m # 1 /\ recs[m - 1] = <<f, i - 1>>
      BY <1>1, <1>3, <2>2
    <3>2. z.file = f /\ z.model = Shown(<<f, i - 1>>)
      BY <1>4, <3>1
    <3> QED BY <1>5, <2>2, <3>2 DEF CodexState
  <2> QED BY <2>1, <2>2
<1> DEFINE model == IF line = Usage THEN CodexState(z, r) ELSE line
           known == IF model = NoModel THEN DefaultModel ELSE model
<1>7. model = Shown(r)
  BY <1>5, <1>6
<1>8. new.file = f /\ new.model = model
      /\ new.out = IF line = Usage THEN [z.out EXCEPT ![r] = known] ELSE z.out
  BY DEF NormalizeCodex
<1>9. new \in State
  BY <1>1, NormalizeTyped
<1> HIDE DEF new, model
<1>10. ASSUME NEW k \in CodexKey, new.out[k] # NoModel
       PROVE  k \in Record /\ rollout[k[1]][k[2]] = Usage /\ new.out[k] = Own(k)
  <2>1. CASE line = Usage /\ k = r
    <3>1. new.out[k] = known
      BY <1>4, <1>8, <2>1
    <3>2. known = Own(r)
      BY <1>5, <1>7, <2>1
    <3> QED BY <1>1, <2>1, <3>1, <3>2
  <2>2. CASE ~(line = Usage /\ k = r)
    <3>1. new.out[k] = z.out[k]
      BY <1>4, <1>8, <2>2
    <3> QED BY <1>4, <1>10, <3>1
  <2> QED BY <2>1, <2>2
<1>11. m # 0
  BY <1>1
<1> QED BY <1>7, <1>8, <1>9, <1>10, <1>11 DEF SeenRight, new, r

\* A scan finds for every usage record the model its own file named last.
LEMMA ModelsAreOwn ==
  ASSUME CodexTyped, NEW files \in SUBSET CodexFile, NEW k \in CodexKey
  PROVE  /\ CodexModels(files)[k] \in Model \cup {NoModel}
         /\ CodexModels(files)[k] # NoModel =>
              /\ k \in Record /\ rollout[k[1]][k[2]] = Usage
              /\ CodexModels(files)[k] = Own(k)
<1> DEFINE recs == Records(files)
           g == CHOOSE h : Normalized(h, recs)
           n == Len(recs)
<1>1. recs \in Seq(Place) /\ InOrder(recs, files)
  BY RecordsInOrder
<1>2. recs \in Seq(Record) /\ n \in Nat /\ DOMAIN recs = 1 .. n
  <2> HIDE DEF recs
  <2>1. n \in Nat /\ recs \in [1 .. n -> Place]
    BY <1>1
  <2>2. \A j \in 1 .. n : recs[j] \in Record
    BY <1>1 DEF InOrder, Record
  <2>3. recs \in [1 .. n -> Record]
    BY <2>1, <2>2
  <2> QED BY <2>1, <2>3
<1>3. CodexModels(files) = g[1 .. n].out
  BY <1>2, ModelsChosen
<1>4. Normalized(g, recs)
  <2> HIDE DEF recs
  <2> QED BY <1>2, NormalizedExists
<1> HIDE DEF recs, g, n
<1>5. \A m \in 0 .. n : SeenRight(g[1 .. m], recs, m)
  <2> DEFINE Q == {m \in 0 .. n : ~ SeenRight(g[1 .. m], recs, m)}
  <2> SUFFICES ASSUME Q # {} PROVE FALSE
    OBVIOUS
  <2>1. PICK m \in Q : \A o \in Q : m <= o
    <3>1. Q \in SUBSET Nat
      BY <1>2
    <3> HIDE DEF Q
    <3> QED BY <3>1, LeastNumber
  <2>2. CASE m = 0
    <3>1. {} \in SUBSET DOMAIN recs /\ 1 .. 0 = {}
      BY <1>2
    <3>2. g[1 .. 0] = Start
      BY <1>4, <3>1 DEF Normalized
    <3>3. SeenRight(Start, recs, 0)
      BY DEF SeenRight, Start, State
    <3> QED BY <2>2, <3>2, <3>3
  <2>3. CASE m # 0
    <3>1. m \in 1 .. n /\ m - 1 \in 0 .. n /\ ~ (m <= m - 1) /\ m \in Nat \ {0}
      BY <1>2, <2>3
    <3>2. SeenRight(g[1 .. m - 1], recs, m - 1)
      BY <2>1, <3>1
    <3>3. g[1 .. m] = NormalizeCodex(g[1 .. m - 1], recs[m])
      <4>1. 1 .. m # {} /\ Top(1 .. m) = m /\ Below(1 .. m) = 1 .. m - 1
        BY <3>1, TopOfPrefix
      <4> DEFINE s == 1 .. m
      <4>2. s \in SUBSET DOMAIN recs /\ s # {} /\ Top(s) = m
        BY <1>2, <3>1, <4>1
      <4> HIDE DEF s
      <4>3. g[s] = NormalizeCodex(g[Below(s)], recs[Top(s)])
        BY <1>4, <4>2 DEF Normalized
      <4> QED BY <4>1, <4>2, <4>3 DEF s
    <3>4. SeenRight(g[1 .. m], recs, m)
      <4> DEFINE z == g[1 .. m - 1]
      <4>1. SeenRight(z, recs, m - 1) /\ m \in 1 .. Len(recs)
        BY <3>1, <3>2 DEF n
      <4> HIDE DEF z
      <4>2. SeenRight(NormalizeCodex(z, recs[m]), recs, m)
        BY <1>1, <1>2, <4>1, SeesNext
      <4> QED BY <3>3, <4>2 DEF z
    <3> QED BY <3>4
  <2> QED BY <2>2, <2>3
<1>6. SeenRight(g[1 .. n], recs, n)
  <2>1. n \in 0 .. n
    BY <1>2
  <2> QED BY <1>5, <2>1
<1>7. g[1 .. n].out \in [CodexKey -> Model \cup {NoModel}]
  BY <1>6 DEF SeenRight, State
<1> QED BY <1>3, <1>6, <1>7 DEF SeenRight

-----------------------------------------------------------------------------
(* The invariant of the Codex rows and of prices. *)

\* Finitely many finite sets make a finite one.
LEMMA FiniteUnion ==
  ASSUME NEW S, IsFiniteSet(S), NEW part, \A x \in S : IsFiniteSet(part[x])
  PROVE  IsFiniteSet(UNION {part[x] : x \in S})
<1> DEFINE T == {part[x] : x \in S}
           h == [x \in S |-> part[x]]
<1>1. h \in Surjection(S, T)
  BY DEF Surjection
<1>2. IsFiniteSet(T) /\ \A P \in T : IsFiniteSet(P)
  <2>1. \A P \in T : IsFiniteSet(P)
    OBVIOUS
  <2> HIDE DEF T, h
  <2> QED BY <1>1, <2>1, FS_Surjection
<1> HIDE DEF T
<1>3. IsFiniteSet(UNION T)
  BY <1>2, FS_UNION
<1> QED BY <1>3 DEF T

\* Every log is finite, and no rollout is longer than the lines written.
Bounded ==
  /\ \A f \in ClaudeFile : IsFiniteSet(turns[f])
  /\ \A f \in CodexFile : Len(rollout[f]) <= MaxLines

\* A rollout that is still written to has room.
LEMMA RoomForALine ==
  ASSUME CodexTyped, Bounded, Written < MaxLines, NEW f \in CodexFile
  PROVE  Len(rollout[f]) < MaxLines
<1> DEFINE claude == [g \in ClaudeFile |-> {g} \X turns[g]]
           codex == [g \in CodexFile |-> {g} \X (DOMAIN rollout[g])]
           A == UNION {{g} \X turns[g] : g \in ClaudeFile}
           B == UNION {{g} \X (DOMAIN rollout[g]) : g \in CodexFile}
           n == Len(rollout[f])
<1>1. IsFiniteSet(A)
  <2>1. \A g \in ClaudeFile : IsFiniteSet(claude[g])
    <3> SUFFICES ASSUME NEW g \in ClaudeFile PROVE IsFiniteSet({g} \X turns[g])
      OBVIOUS
    <3>1. IsFiniteSet({g}) /\ IsFiniteSet(turns[g])
      BY FS_Singleton DEF Bounded
    <3> QED BY <3>1, FS_Product
  <2>2. A = UNION {claude[g] : g \in ClaudeFile}
    OBVIOUS
  <2> HIDE DEF claude, A
  <2> QED BY <2>1, <2>2, FiniteUnion, ModelsAndLines
<1>2. IsFiniteSet(B)
  <2>1. \A g \in CodexFile : IsFiniteSet(codex[g])
    <3> SUFFICES ASSUME NEW g \in CodexFile PROVE IsFiniteSet({g} \X (DOMAIN rollout[g]))
      OBVIOUS
    <3>1. DOMAIN rollout[g] = 1 .. Len(rollout[g]) /\ Len(rollout[g]) \in Nat
      BY LinesTyped
    <3>2. \A k \in Nat : IsFiniteSet(1 .. k)
      BY FS_Interval
    <3>3. IsFiniteSet({g}) /\ IsFiniteSet(DOMAIN rollout[g])
      BY <3>1, <3>2, FS_Singleton
    <3> QED BY <3>3, FS_Product
  <2>2. B = UNION {codex[g] : g \in CodexFile}
    OBVIOUS
  <2> HIDE DEF codex, B
  <2> QED BY <2>1, <2>2, FiniteUnion, ModelsAndLines
<1>3. n \in Nat /\ DOMAIN rollout[f] = 1 .. n
  BY LinesTyped
<1> DEFINE C == {f} \X (1 .. n)
<1>4. C \in SUBSET B
  BY <1>3
<1>5. Cardinality(C) = n
  <2> HIDE DEF n
  <2>1. IsFiniteSet({f}) /\ Cardinality({f}) = 1
    BY FS_Singleton
  <2>2. IsFiniteSet(1 .. n) /\ Cardinality(1 .. n) = n
    BY <1>3, FS_Interval
  <2>3. Cardinality(C) = Cardinality({f}) * Cardinality(1 .. n)
    BY <2>1, <2>2, FS_Product
  <2> QED BY <1>3, <2>1, <2>2, <2>3
<1>6. Written = Cardinality(A) + Cardinality(B)
  BY DEF Written
<1> HIDE DEF A, B, C, n
<1>7. Cardinality(C) <= Cardinality(B)
  BY <1>2, <1>4, FS_Subset
<1>8. Cardinality(A) \in Nat /\ Cardinality(B) \in Nat
  BY <1>1, <1>2, FS_CardinalityType
<1> QED BY <1>3, <1>5, <1>6, <1>7, <1>8, ModelsAndLines DEF n

-----------------------------------------------------------------------------
\* A message's row has its model; a record's row has the model of the record.
RowModels ==
  /\ \A m \in Msg : rows[m] # NoRow => rows[m].model = ModelOf[m]
  /\ \A k \in CodexKey : rows[k] # NoRow =>
       k \in Record /\ rollout[k[1]][k[2]] = Usage /\ rows[k].model = Own(k)

\* A price is of a table that was fetched, or the embedded one, and that rates the model.
PriceKnown ==
  \A k \in Key : rows[k] # NoRow =>
    /\ rows[k].price \in (0 .. table) \cup {Unpriced}
    /\ rows[k].price # Unpriced => rows[k].model \in RatedBy(rows[k].price)

RecordsInv == CodexTyped /\ Bounded /\ RowModels /\ PriceKnown

AllInv == IInv /\ RecordsInv

\* A transcript grows by one line.
LEMMA WriteTurnPreservesRecords ==
  ASSUME AllInv, NEW f \in ClaudeFile, NEW m \in Msg, NEW n \in Tokens, WriteTurn(f, m, n)
  PROVE  RecordsInv'
<1>1. turns' = [turns EXCEPT ![f] = @ \cup {[msg |-> m, tokens |-> n]}]
      /\ UNCHANGED <<rollout, rows, table>>
  BY DEF WriteTurn, priceVars
<1>2. \A g \in ClaudeFile : IsFiniteSet(turns'[g])
  <2> SUFFICES ASSUME NEW g \in ClaudeFile PROVE IsFiniteSet(turns'[g])
    OBVIOUS
  <2>1. turns'[g] = IF g = f THEN turns[g] \cup {[msg |-> m, tokens |-> n]} ELSE turns[g]
    BY <1>1 DEF AllInv, IInv, Types
  <2>2. IsFiniteSet(turns[g])
    BY DEF AllInv, RecordsInv, Bounded
  <2>3. IsFiniteSet(turns[g] \cup {[msg |-> m, tokens |-> n]})
    BY <2>2, FS_AddElement
  <2> QED BY <2>1, <2>2, <2>3
<1>3. CodexTyped' /\ Bounded'
  BY <1>1, <1>2 DEF AllInv, RecordsInv, CodexTyped, Bounded
<1>4. RowModels' /\ PriceKnown'
  BY <1>1 DEF AllInv, RecordsInv, RowModels, PriceKnown, Record, Own, Named, RatedBy
<1> QED BY <1>3, <1>4 DEF RecordsInv

\* A transcript begins as another.
LEMMA ResumePreservesRecords ==
  ASSUME AllInv, NEW f \in ClaudeFile, NEW g \in ClaudeFile, Resume(f, g)
  PROVE  RecordsInv'
<1>1. turns' = [turns EXCEPT ![g] = turns[f]] /\ UNCHANGED <<rollout, rows, table>>
  BY DEF Resume, priceVars
<1>2. \A h \in ClaudeFile : IsFiniteSet(turns'[h])
  BY <1>1 DEF AllInv, IInv, Types, RecordsInv, Bounded
<1>3. CodexTyped' /\ Bounded'
  BY <1>1, <1>2 DEF AllInv, RecordsInv, CodexTyped, Bounded
<1>4. RowModels' /\ PriceKnown'
  BY <1>1 DEF AllInv, RecordsInv, RowModels, PriceKnown, Record, Own, Named, RatedBy
<1> QED BY <1>3, <1>4 DEF RecordsInv

\* Only lines after the last are written, so that earlier records keep their models.
LEMMA WriteRolloutPreservesRecords ==
  ASSUME AllInv, NEW f \in CodexFile, NEW line \in Model \cup {Usage}, WriteRollout(f, line)
  PROVE  RecordsInv'
<1> DEFINE n == Len(rollout[f])
<1>1. rollout' = [rollout EXCEPT ![f] = Append(@, line)] /\ UNCHANGED <<turns, rows, table>>
      /\ Written < MaxLines
  BY DEF WriteRollout, priceVars
<1>2. CodexTyped /\ Bounded /\ RowModels /\ PriceKnown
  BY DEF AllInv, RecordsInv
<1>3. rollout[f] \in Seq(Model \cup {Usage}) /\ n \in Nat /\ DOMAIN rollout[f] = 1 .. n
  BY <1>2, LinesTyped
<1>4. /\ rollout'[f] \in Seq(Model \cup {Usage}) /\ Len(rollout'[f]) = n + 1
      /\ DOMAIN rollout'[f] = 1 .. n + 1
      /\ \A j \in 1 .. n : rollout'[f][j] = rollout[f][j]
      /\ \A g \in CodexFile : g # f => rollout'[g] = rollout[g]
  <2>1. rollout'[f] = Append(rollout[f], line) /\ \A g \in CodexFile : g # f => rollout'[g] = rollout[g]
    BY <1>1, <1>2 DEF CodexTyped
  <2> QED BY <1>3, <2>1
<1>5. n + 1 <= MaxLines
  <2>1. n < MaxLines
    BY <1>1, <1>2, RoomForALine
  <2> QED BY <1>3, <2>1, ModelsAndLines
<1> HIDE DEF n
<1>6. CodexTyped'
  BY <1>1, <1>2, <1>4 DEF CodexTyped
<1>7. Bounded'
  BY <1>1, <1>2, <1>4, <1>5 DEF Bounded
<1>8. ASSUME NEW k \in CodexKey, k \in Record
      PROVE  k \in Record' /\ rollout'[k[1]][k[2]] = rollout[k[1]][k[2]] /\ Own(k)' = Own(k)
  <2>1. k[1] \in CodexFile /\ k[2] \in DOMAIN rollout[k[1]] /\ k \in Place
    BY <1>8 DEF Record
  <2>2. /\ k[2] \in DOMAIN rollout'[k[1]]
        /\ \A j \in 1 .. k[2] : rollout'[k[1]][j] = rollout[k[1]][j]
        /\ k[2] \in 1 .. k[2]
    <3>1. CASE k[1] = f
      <4>1. k[2] \in 1 .. n
        BY <1>3, <2>1, <3>1
      <4>2. k[2] \in 1 .. n + 1 /\ \A j \in 1 .. k[2] : j \in 1 .. n
        BY <1>3, <4>1
      <4>3. k[2] \in 1 .. k[2]
        BY <1>3, <4>1
      <4> QED BY <1>4, <3>1, <4>2, <4>3
    <3>2. CASE k[1] # f
      <4>1. rollout'[k[1]] = rollout[k[1]]
        BY <1>4, <2>1, <3>2
      <4>2. k[2] \in Nat \ {0}
        BY <2>1 DEF Place
      <4> QED BY <2>1, <4>1, <4>2
    <3> QED BY <3>1, <3>2
  <2>3. Named(k)' = Named(k)
    BY <2>2 DEF Named
  <2>4. Named(k) # {} => Largest(Named(k)) \in 1 .. k[2]
    <3> HAVE Named(k) # {}
    <3>1. k[2] \in Nat /\ Named(k) \in SUBSET (1 .. k[2])
      BY <2>1 DEF Place, Named
    <3>2. Largest(Named(k)) \in Named(k)
      BY <3>1, LargestLine
    <3> QED BY <3>1, <3>2
  <2>5. Own(k)' = Own(k)
    BY <2>2, <2>3, <2>4 DEF Own
  <2>6. k \in Record'
    BY <2>1, <2>2 DEF Record
  <2> QED BY <2>2, <2>5, <2>6
<1>9. RowModels'
  BY <1>1, <1>2, <1>8 DEF RowModels
<1>10. PriceKnown'
  BY <1>1, <1>2 DEF PriceKnown, RatedBy
<1> QED BY <1>6, <1>7, <1>9, <1>10 DEF RecordsInv

\* What a scan reads anew has its own model and a price of the table in force.
LEMMA ScanPreservesRecords ==
  ASSUME AllInv, NEW files \in SUBSET (ClaudeFile \cup CodexFile), ScanFiles(files)
  PROVE  RecordsInv'
<1> DEFINE claude == files \cap ClaudeFile
           codex == files \cap CodexFile
           models == CodexModels(codex)
<1>1. /\ rows' = [k \in Key |->
           IF k \in Msg
             THEN IF Counts(k, claude) = {} THEN rows[k] ELSE NewRow(ModelOf[k], Kept(k, claude))
             ELSE IF models[k] = NoModel THEN rows[k] ELSE NewRow(models[k], 1)]
      /\ UNCHANGED <<turns, rollout, table, fresh>>
  BY DEF ScanFiles, logVars, priceVars
<1>2. CodexTyped /\ Bounded /\ RowModels /\ PriceKnown /\ Types
  BY DEF AllInv, RecordsInv, IInv
<1>3. \A k \in CodexKey :
        /\ models[k] \in Model \cup {NoModel}
        /\ models[k] # NoModel =>
             k \in Record /\ rollout[k[1]][k[2]] = Usage /\ models[k] = Own(k)
  <2>1. codex \in SUBSET CodexFile
    OBVIOUS
  <2> HIDE DEF codex
  <2> QED BY <1>2, <2>1, ModelsAreOwn
<1> HIDE DEF models, claude
<1>4. \A m \in Msg : rows'[m] = IF Counts(m, claude) = {} THEN rows[m]
                                                          ELSE NewRow(ModelOf[m], Kept(m, claude))
  BY <1>1 DEF Key
<1>5. \A k \in CodexKey : k \in Key /\ k \notin Msg
        /\ rows'[k] = IF models[k] = NoModel THEN rows[k] ELSE NewRow(models[k], 1)
  <2>1. \A k \in CodexKey : k \in Key /\ k \notin Msg
    BY IngestSentinels DEF Key, CodexKey
  <2> QED BY <1>1, <2>1
<1>6. CodexTyped' /\ Bounded'
  BY <1>1, <1>2 DEF CodexTyped, Bounded
<1>7. RowModels'
  <2>1. ASSUME NEW m \in Msg, rows'[m] # NoRow PROVE rows'[m].model = ModelOf[m]
    <3>1. CASE rows'[m] = rows[m]
      BY <1>2, <2>1, <3>1 DEF RowModels
    <3>2. CASE rows'[m] = NewRow(ModelOf[m], Kept(m, claude))
      BY <3>2, NewRowFields
    <3> QED BY <1>4, <3>1, <3>2
  <2>2. ASSUME NEW k \in CodexKey, rows'[k] # NoRow
        PROVE  k \in Record /\ rollout[k[1]][k[2]] = Usage /\ rows'[k].model = Own(k)
    <3>1. CASE models[k] = NoModel
      BY <1>2, <1>5, <2>2, <3>1 DEF RowModels
    <3>2. CASE models[k] # NoModel
      <4>1. rows'[k] = NewRow(models[k], 1)
        BY <1>5, <3>2
      <4>2. rows'[k].model = models[k]
        BY <4>1, NewRowFields
      <4> QED BY <1>3, <3>2, <4>2
    <3> QED BY <3>1, <3>2
  <2>3. Record' = Record /\ \A k : Own(k)' = Own(k)
    BY <1>1 DEF Record, Own, Named
  <2> QED BY <1>1, <2>1, <2>2, <2>3 DEF RowModels
<1>8. PriceKnown'
  <2>1. SUFFICES ASSUME NEW k \in Key, rows'[k] # NoRow
                 PROVE  /\ rows'[k].price \in (0 .. table) \cup {Unpriced}
                        /\ rows'[k].price # Unpriced => rows'[k].model \in RatedBy(rows'[k].price)
    BY <1>1 DEF PriceKnown, RatedBy
  <2>2. CASE rows'[k] = rows[k]
    BY <1>2, <2>1, <2>2 DEF PriceKnown
  <2>3. CASE \E model, n : rows'[k] = NewRow(model, n)
    <3>1. PICK model, n : rows'[k] = NewRow(model, n)
      BY <2>3
    <3>2. /\ rows'[k].model = model
          /\ rows'[k].price = IF model \in RatedBy(InForce) THEN InForce ELSE Unpriced
      BY <3>1, NewRowFields
    <3>3. InForce \in 0 .. table
      BY <1>2, ModelsAndLines DEF Types, InForce
    <3> QED BY <3>2, <3>3
  <2> QED BY <1>4, <1>5, <2>2, <2>3 DEF Key
<1> QED BY <1>6, <1>7, <1>8 DEF RecordsInv

\* Re-pricing changes no model, and gives no price but the new table's.
LEMMA RefreshPreservesRecords ==
  ASSUME AllInv, Refresh
  PROVE  RecordsInv'
<1> DEFINE t == table + 1
<1>1. /\ rows' = Repriced(t) /\ table' = t /\ t \in 0 .. MaxTables /\ table \in 0 .. MaxTables
      /\ UNCHANGED <<turns, rollout>>
  BY ModelsAndLines DEF Refresh, AllInv, IInv, Types, logVars
<1>2. 0 .. table \subseteq 0 .. t /\ t \in 0 .. t
  BY <1>1, ModelsAndLines
<1> HIDE DEF t
<1>3. CodexTyped /\ Bounded /\ RowModels /\ PriceKnown /\ Types /\ Shapes
  BY DEF AllInv, RecordsInv, IInv
<1>4. \A k \in Key :
        /\ rows[k] = NoRow => rows'[k] = NoRow
        /\ rows[k] # NoRow =>
             rows'[k] = [tokens |-> rows[k].tokens, model |-> rows[k].model,
                         price |-> IF rows[k].model \in RatedBy(t) THEN t ELSE rows[k].price]
  BY <1>1, <1>3, RepricedRow
<1>5. CodexTyped' /\ Bounded'
  BY <1>1, <1>3 DEF CodexTyped, Bounded
<1>6. ASSUME NEW k \in Key, rows'[k] # NoRow
      PROVE  /\ rows[k] # NoRow /\ rows'[k].model = rows[k].model
             /\ rows'[k].price \in (0 .. t) \cup {Unpriced}
             /\ rows'[k].price # Unpriced => rows'[k].model \in RatedBy(rows'[k].price)
  <2> DEFINE price == IF rows[k].model \in RatedBy(t) THEN t ELSE rows[k].price
  <2>1. rows[k] # NoRow
    BY <1>4, <1>6
  <2>2. rows'[k] = [tokens |-> rows[k].tokens, model |-> rows[k].model, price |-> price]
    BY <1>4, <2>1
  <2>3. price \in (0 .. t) \cup {Unpriced}
    BY <1>2, <1>3, <2>1 DEF PriceKnown
  <2>4. price # Unpriced => rows[k].model \in RatedBy(price)
    BY <1>3, <2>1 DEF PriceKnown
  <2> HIDE DEF price
  <2> QED BY <2>1, <2>2, <2>3, <2>4
<1>7. RowModels'
  <2>1. Record' = Record /\ \A k : Own(k)' = Own(k)
    BY <1>1 DEF Record, Own, Named
  <2> QED BY <1>1, <1>3, <1>6, <2>1 DEF RowModels, Key
<1>8. PriceKnown'
  BY <1>1, <1>6 DEF PriceKnown, RatedBy
<1> QED BY <1>5, <1>7, <1>8 DEF RecordsInv

\* A table is stored and no row re-priced, a table goes stale, or nothing happens.
LEMMA StandingRowsPreserveRecords ==
  ASSUME AllInv, UNCHANGED <<turns, rollout, rows>>, table' \in {table, table + 1}
  PROVE  RecordsInv'
<1>1. CodexTyped /\ Bounded /\ RowModels /\ PriceKnown /\ table \in Nat
  BY ModelsAndLines DEF AllInv, RecordsInv, IInv, Types
<1>2. 0 .. table \subseteq 0 .. table'
  BY <1>1
<1>3. CodexTyped' /\ Bounded' /\ RowModels'
  BY <1>1 DEF CodexTyped, Bounded, RowModels, Record, Own, Named
<1>4. PriceKnown'
  BY <1>1, <1>2 DEF PriceKnown, RatedBy
<1> QED BY <1>3, <1>4 DEF RecordsInv

\* Nothing is written and nothing stored.
LEMMA InitHasAllInv == Init => AllInv
<1> SUFFICES ASSUME Init PROVE RecordsInv
  BY InitHasIInv DEF AllInv
<1>1. \A k \in Key : rows[k] = NoRow
  BY DEF Init
<1>2. \A f \in CodexFile : rollout[f] = <<>>
  BY DEF Init
<1>3. CodexTyped
  BY DEF Init, CodexTyped
<1>4. Bounded
  <2>1. \A f \in ClaudeFile : turns[f] = {}
    BY DEF Init
  <2>2. Len(<<>>) = 0 /\ 0 <= MaxLines
    BY ModelsAndLines
  <2>3. \A f \in CodexFile : Len(rollout[f]) <= MaxLines
    BY <1>2, <2>2
  <2> QED BY <2>1, <2>3, FS_EmptySet DEF Bounded
<1>5. RowModels /\ PriceKnown
  BY <1>1 DEF RowModels, PriceKnown, Key
<1> QED BY <1>3, <1>4, <1>5 DEF RecordsInv

\* Every step preserves both invariants.
LEMMA StepPreservesAllInv ==
  ASSUME AllInv, [Next]_vars
  PROVE  AllInv'
<1> SUFFICES RecordsInv'
  BY StepPreservesIInv DEF AllInv
<1>1. ASSUME NEW f \in ClaudeFile, NEW m \in Msg, NEW n \in Tokens, WriteTurn(f, m, n)
      PROVE  RecordsInv'
  BY <1>1, WriteTurnPreservesRecords
<1>2. ASSUME NEW f \in ClaudeFile, NEW g \in ClaudeFile, Resume(f, g) PROVE RecordsInv'
  BY <1>2, ResumePreservesRecords
<1>3. ASSUME NEW f \in CodexFile, NEW line \in Model \cup {Usage}, WriteRollout(f, line)
      PROVE  RecordsInv'
  BY <1>3, WriteRolloutPreservesRecords
<1>4. CASE IncrementalScan
  BY <1>4, ScanPreservesRecords DEF IncrementalScan, AllInv, IInv, Types
<1>5. CASE FullScan
  BY <1>5, ScanPreservesRecords DEF FullScan
<1>6. CASE Refresh
  BY <1>6, RefreshPreservesRecords
<1>7. CASE RefreshCut
  BY <1>7, StandingRowsPreserveRecords DEF RefreshCut, logVars
<1>8. CASE Expire
  BY <1>8, StandingRowsPreserveRecords DEF Expire, logVars
<1>9. CASE UNCHANGED vars
  BY <1>9, StandingRowsPreserveRecords DEF vars
<1> QED BY <1>1, <1>2, <1>3, <1>4, <1>5, <1>6, <1>7, <1>8, <1>9 DEF Next

\* Every line written has a place in the ledger, so its row is one of those above.
LEMMA AllInvOwnModel == AllInv => CodexModelIsItsOwn
<1> SUFFICES ASSUME AllInv, NEW f \in CodexFile, NEW i \in DOMAIN rollout[f], rows[<<f, i>>] # NoRow
             PROVE  rows[<<f, i>>].model =
                      LET named == {j \in 1 .. i : rollout[f][j] # Usage} IN
                      IF named = {} THEN DefaultModel ELSE rollout[f][Largest(named)]
  BY DEF CodexModelIsItsOwn
<1>1. CodexTyped /\ Bounded /\ RowModels
  BY DEF AllInv, RecordsInv
<1>2. <<f, i>> \in CodexKey
  <2>1. DOMAIN rollout[f] = 1 .. Len(rollout[f]) /\ Len(rollout[f]) \in Nat
    BY <1>1, LinesTyped
  <2>2. Len(rollout[f]) <= MaxLines
    BY <1>1 DEF Bounded
  <2>3. i \in 1 .. MaxLines
    <3> DEFINE n == Len(rollout[f])
    <3>1. n \in Nat /\ i \in 1 .. n /\ n <= MaxLines
      BY <2>1, <2>2
    <3> HIDE DEF n
    <3> QED BY <3>1, ModelsAndLines
  <2> QED BY <2>3 DEF CodexKey
<1>3. rows[<<f, i>>].model = Own(<<f, i>>)
  BY <1>1, <1>2 DEF RowModels
<1> QED BY <1>3 DEF Own, Named

\* A row that is read again keeps its model, and it had its price of a table that rates the
\* model: the table in force, if it does not rate the model, is not that one.
LEMMA ScanKeepsPrices ==
  ASSUME AllInv, NEW files \in SUBSET (ClaudeFile \cup CodexFile), ScanFiles(files), NEW k \in Key,
         rows[k] # NoRow, rows[k].price # Unpriced, rows'[k].price = Unpriced
  PROVE  rows[k].price # InForce /\ rows[k].model \notin Embedded
<1> DEFINE claude == files \cap ClaudeFile
           codex == files \cap CodexFile
           models == CodexModels(codex)
<1>1. Types /\ RowModels /\ PriceKnown /\ CodexTyped
  BY DEF AllInv, IInv, RecordsInv
<1>2. rows' = [o \in Key |->
           IF o \in Msg
             THEN IF Counts(o, claude) = {} THEN rows[o] ELSE NewRow(ModelOf[o], Kept(o, claude))
             ELSE IF models[o] = NoModel THEN rows[o] ELSE NewRow(models[o], 1)]
  BY DEF ScanFiles
<1>3. \A o \in CodexKey : models[o] # NoModel => models[o] = Own(o)
  <2>1. codex \in SUBSET CodexFile
    OBVIOUS
  <2> HIDE DEF codex
  <2> QED BY <1>1, <2>1, ModelsAreOwn
<1> HIDE DEF claude, models
<1>4. \E n : rows'[k] = NewRow(rows[k].model, n)
  <2>1. CASE k \in Msg
    <3>1. rows[k].model = ModelOf[k]
      BY <1>1, <2>1 DEF RowModels
    <3>2. rows'[k] = rows[k] \/ rows'[k] = NewRow(ModelOf[k], Kept(k, claude))
      BY <1>2, <2>1
    <3> QED BY <3>1, <3>2
  <2>2. CASE k \notin Msg
    <3>1. k \in CodexKey
      BY <2>2 DEF Key
    <3>2. rows[k].model = Own(k)
      BY <1>1, <3>1 DEF RowModels
    <3>3. rows'[k] = rows[k] \/ rows'[k] = NewRow(Own(k), 1)
      BY <1>2, <1>3, <2>2, <3>1
    <3> QED BY <3>2, <3>3
  <2> QED BY <2>1, <2>2
<1>5. InForce \in 0 .. MaxTables /\ InForce # Unpriced
  BY <1>1, ModelsAndLines, IngestSentinels DEF Types, InForce
<1>6. rows[k].model \notin RatedBy(InForce)
  <2>1. PICK n : rows'[k] = NewRow(rows[k].model, n)
    BY <1>4
  <2>2. rows'[k].price = IF rows[k].model \in RatedBy(InForce) THEN InForce ELSE Unpriced
    BY <2>1, NewRowFields
  <2> QED BY <1>5, <2>2
<1>7. rows[k].model \notin Embedded
  BY <1>6 DEF RatedBy
<1>8. rows[k].price # InForce
  BY <1>1, <1>6 DEF PriceKnown
<1> QED BY <1>7, <1>8

\* A refresh takes no price away.
LEMMA RefreshKeepsPrices ==
  ASSUME AllInv, Refresh, NEW k \in Key, rows[k] # NoRow, rows[k].price # Unpriced
  PROVE  rows'[k].price # Unpriced
<1> DEFINE t == table + 1
           price == IF rows[k].model \in RatedBy(t) THEN t ELSE rows[k].price
<1>1. rows' = Repriced(t) /\ t \in 0 .. MaxTables /\ t # Unpriced
  BY ModelsAndLines, IngestSentinels DEF Refresh, AllInv, IInv, Types
<1> HIDE DEF t
<1>2. rows'[k] = [tokens |-> rows[k].tokens, model |-> rows[k].model, price |-> price]
  BY <1>1, RepricedRow DEF AllInv, IInv
<1>3. price # Unpriced
  BY <1>1
<1> HIDE DEF price
<1> QED BY <1>2, <1>3

\* The other steps leave the rows alone.
LEMMA StepKeepsPrices ==
  ASSUME AllInv, [Next]_vars, NEW k \in Key,
         rows[k] # NoRow, rows[k].price # Unpriced, rows'[k].price = Unpriced
  PROVE  rows[k].price # InForce /\ rows[k].model \notin Embedded
<1>1. CASE IncrementalScan
  BY <1>1, ScanKeepsPrices DEF IncrementalScan, AllInv, IInv, Types
<1>2. CASE FullScan
  BY <1>2, ScanKeepsPrices DEF FullScan
<1>3. CASE Refresh
  BY <1>3, RefreshKeepsPrices
<1>4. CASE UNCHANGED rows
  BY <1>4
<1> QED BY <1>1, <1>2, <1>3, <1>4
      DEF Next, vars, WriteTurn, Resume, WriteRollout, RefreshCut, Expire

\* normalize.go with codex.go:26-28: whatever is written, resumed, scanned in part or in full,
\* and in whatever order the files of a scan are read, the row of a Codex usage line has the
\* model that its own file named last before the line, and the default when it named none.
THEOREM CodexModelsAreTheFilesOwn == Spec => []CodexModelIsItsOwn
<1>1. Init => AllInv
  BY InitHasAllInv
<1>2. AllInv /\ [Next]_vars => AllInv'
  BY StepPreservesAllInv
<1> QED BY <1>1, <1>2, AllInvOwnModel, PTL DEF Spec

\* cli.go:726-744 with README.md:626: no scan and no refresh takes the price of a row away,
\* save a scan that reads it again under another table than the one it was priced by, and
\* then only the price of a model the embedded table does not rate.
THEOREM PricesAreKept == Spec => PriceLastsWithItsTable
<1>1. Init => AllInv
  BY InitHasAllInv
<1>2. AllInv /\ [Next]_vars => AllInv'
  BY StepPreservesAllInv
<1>3. AllInv /\ [Next]_vars =>
        [\A k \in Key :
           /\ rows[k] # NoRow /\ rows[k].price # Unpriced /\ rows'[k].price = Unpriced
           => rows[k].price # InForce /\ rows[k].model \notin Embedded]_vars
  BY StepKeepsPrices
<1> QED BY <1>1, <1>2, <1>3, PTL DEF Spec, PriceLastsWithItsTable

==============================================================================
