------------------------------- MODULE Ingest --------------------------------
(***************************************************************************)
(* What becomes of the log lines: the scan pipeline of internal/scan with   *)
(* the normalizers of Claude Code and Codex, pricing against the table in   *)
(* force, and the re-pricing of stored rows.  One scan is one step here:    *)
(* what two processes do to each other's scans is the subject of Scan.      *)
(*                                                                         *)
(* Claude Code streams a response as several lines with one message id, and *)
(* a resumed or branched session starts with a copy of an older log.  A     *)
(* line is a message and its token total; a row is keyed on the message.    *)
(* Codex names the model on lines of their own, before the lines that carry *)
(* usage; a row is keyed on file and line.                                  *)
(***************************************************************************)
EXTENDS Naturals, Sequences, SequencesExt

CONSTANTS
  Msg,            \* Claude Code responses: (message.id, requestId)
  ClaudeFile,     \* session transcripts
  CodexFile,      \* Codex rollouts
  MaxTokens,      \* the token totals a line can carry are 1 .. MaxTokens
  Model,          \* canonical model ids
  ModelOf,        \* [Msg -> Model]
  DefaultModel,   \* codexDefaultModel
  Embedded,       \* the models the embedded table rates
  Live,           \* Live[t]: the models the t-th fetched table rates
  Usage,          \* a Codex token_count line
  NoModel,        \* no session_meta or turn_context line so far
  Nowhere,        \* a message not yet sent
  NoRow,          \* no such row in the ledger
  Unpriced,       \* a row without an api-equivalent cost
  MaxLines,       \* bound: lines written
  MaxTables       \* bound: tables fetched

ASSUME ModelsAndLines ==
  /\ ModelOf \in [Msg -> Model] /\ DefaultModel \in Model
  /\ Embedded \subseteq Model /\ Live \in [1 .. MaxTables -> SUBSET Model]
  /\ Usage \notin Model /\ NoModel \notin Model
  /\ IsFiniteSet(ClaudeFile) /\ IsFiniteSet(CodexFile)
  /\ MaxTokens \in Nat /\ MaxLines \in Nat /\ MaxTables \in Nat

ASSUME IngestSentinels ==
  /\ Nowhere \notin ClaudeFile \cup CodexFile
  /\ Unpriced \notin 0 .. MaxTables
  /\ NoRow \notin [tokens : 1 .. MaxTokens, model : Model, price : (0 .. MaxTables) \cup {Unpriced}]
  /\ Msg \cap (CodexFile \X (1 .. MaxLines)) = {}
  /\ ClaudeFile \cap CodexFile = {}

VARIABLES
  turns,     \* the lines of each transcript
  rollout,   \* the lines of each rollout, in order
  home,      \* the transcript a message is streamed to
  changed,   \* files modified after their provider's checkpoint
  rows,      \* the ledger
  table,     \* the price table in pricing/litellm.json, 0 if none was fetched
  fresh,     \* it is at most 24 hours old
  halfway    \* history: the table was stored and the rows were not re-priced

vars == <<turns, rollout, home, changed, rows, table, fresh, halfway>>
logVars == <<turns, rollout, home>>
priceVars == <<table, fresh, halfway>>

-----------------------------------------------------------------------------
Tokens == 1 .. MaxTokens
Line == [msg : Msg, tokens : Tokens]
CodexKey == CodexFile \X (1 .. MaxLines)
Key == Msg \cup CodexKey
Row == [tokens : Tokens, model : Model, price : (0 .. MaxTables) \cup {Unpriced}]

TypeOK ==
  /\ turns \in [ClaudeFile -> SUBSET Line]
  /\ rollout \in [CodexFile -> Seq(Model \cup {Usage})]
  /\ home \in [Msg -> ClaudeFile \cup {Nowhere}]
  /\ changed \subseteq ClaudeFile \cup CodexFile
  /\ rows \in [Key -> Row \cup {NoRow}]
  /\ table \in 0 .. MaxTables /\ fresh \in BOOLEAN /\ halfway \in BOOLEAN

Init ==
  /\ turns = [f \in ClaudeFile |-> {}] /\ rollout = [f \in CodexFile |-> <<>>]
  /\ home = [m \in Msg |-> Nowhere]
  /\ changed = {}
  /\ rows = [k \in Key |-> NoRow]
  /\ table = 0 /\ fresh = FALSE /\ halfway = FALSE

-----------------------------------------------------------------------------
(* The agents write. *)

Written ==
  Cardinality(UNION {{f} \X turns[f] : f \in ClaudeFile})
    + Cardinality(UNION {{f} \X (DOMAIN rollout[f]) : f \in CodexFile})

\* A line of a response: a streaming placeholder or its final count.
WriteTurn(f, m, n) ==
  /\ home[m] \in {f, Nowhere}
  /\ Written < MaxLines
  /\ turns' = [turns EXCEPT ![f] = @ \cup {[msg |-> m, tokens |-> n]}]
  /\ home' = [home EXCEPT ![m] = f]
  /\ changed' = changed \cup {f}
  /\ UNCHANGED <<rollout, rows, priceVars>>

\* A resumed or branched session begins with what the old transcript holds by then.
Resume(f, g) ==
  /\ turns[f] # {} /\ turns[g] = {}
  /\ turns' = [turns EXCEPT ![g] = turns[f]]
  /\ changed' = changed \cup {g}
  /\ UNCHANGED <<rollout, home, rows, priceVars>>

WriteRollout(f, line) ==
  /\ Written < MaxLines
  /\ rollout' = [rollout EXCEPT ![f] = Append(@, line)]
  /\ changed' = changed \cup {f}
  /\ UNCHANGED <<turns, home, rows, priceVars>>

-----------------------------------------------------------------------------
(* Normalization. *)

Largest(S) == CHOOSE n \in S : \A o \in S : o <= n

Smallest(S) == CHOOSE n \in S : \A o \in S : n <= o

Counts(m, files) == {line.tokens : line \in {l \in UNION {turns[f] : f \in files} : l.msg = m}}

\* Mutant: the first line read.
KeptFirst(m, files) == Smallest(Counts(m, files))

\* Dedupe: of the lines one scan read for a message, the one with the most tokens.
Kept(m, files) == Largest(Counts(m, files))

\* The Codex records of a scan: whole files, one after the other.
Records(files) ==
  FoldLeft(LAMBDA seq, f : seq \o [i \in DOMAIN rollout[f] |-> <<f, i>>], <<>>, SetToSeq(files))

\* Mutant: the model is carried over from the file read before.
CodexStateKept(state, record) == state.model

\* The normalizer forgets the model when the records of another file begin.
CodexState(state, record) == IF record[1] = state.file THEN state.model ELSE NoModel

NormalizeCodex(state, record) ==
  LET line == rollout[record[1]][record[2]]
      model == IF line = Usage THEN CodexState(state, record) ELSE line
  IN [file |-> record[1], model |-> model,
      out |-> IF line = Usage
                THEN [state.out EXCEPT ![record] =
                        IF model = NoModel THEN DefaultModel ELSE model]
                ELSE state.out]

\* The model of every usage record the scan read; NoModel for the others.
CodexModels(files) ==
  FoldLeft(NormalizeCodex,
           [file |-> Nowhere, model |-> NoModel, out |-> [k \in CodexKey |-> NoModel]],
           Records(files)).out

-----------------------------------------------------------------------------
(* Pricing. *)

\* Mutant: the fetched table stands alone.
RatedWithoutFloor(t) == IF t = 0 THEN Embedded ELSE Live[t]

\* NewEngineWithRates: the fetched table is laid over the embedded one; of the tables
\* fetched before, nothing is left.
RatedBy(t) == IF t = 0 THEN Embedded ELSE Embedded \cup Live[t]

\* pricingEngine: a table older than 24 hours is not used.
InForce == IF fresh THEN table ELSE 0

\* Price leaves a row whose model has no rate as it was.
Priced(row, t) == IF row.model \in RatedBy(t) THEN [row EXCEPT !.price = t] ELSE row

NewRow(model, n) == Priced([tokens |-> n, model |-> model, price |-> Unpriced], InForce)

-----------------------------------------------------------------------------
(* Scans and price refreshes. *)

\* Run: both providers read the chosen files whole, and their rows replace those stored.
ScanFiles(files) ==
  LET models == CodexModels(files \cap CodexFile)
      claude == files \cap ClaudeFile IN
  /\ rows' = [k \in Key |->
       IF k \in Msg
         THEN IF Counts(k, claude) = {} THEN rows[k] ELSE NewRow(ModelOf[k], Kept(k, claude))
         ELSE IF models[k] = NoModel THEN rows[k] ELSE NewRow(models[k], 1)]
  /\ changed' = {}
  /\ UNCHANGED <<logVars, priceVars>>

IncrementalScan ==
  /\ changed # {}
  /\ ScanFiles(changed)

FullScan == ScanFiles(ClaudeFile \cup CodexFile)

\* Mutant: only rows without a price are looked at.
RepricedMissing(t) ==
  [k \in Key |-> IF rows[k] # NoRow /\ rows[k].price = Unpriced THEN Priced(rows[k], t) ELSE rows[k]]

\* repriceStored.
Repriced(t) == [k \in Key |-> IF rows[k] = NoRow THEN NoRow ELSE Priced(rows[k], t)]

\* applyPricingTable, asked for or because the cache is older than 24 hours.
Refresh ==
  /\ table < MaxTables
  /\ table' = table + 1 /\ fresh' = TRUE /\ halfway' = FALSE
  /\ rows' = Repriced(table')
  /\ UNCHANGED <<logVars, changed>>

\* The table is stored, then the store cannot be opened or written, or the process ends.
RefreshCut ==
  /\ table < MaxTables
  /\ table' = table + 1 /\ fresh' = TRUE /\ halfway' = TRUE
  /\ UNCHANGED <<logVars, changed, rows>>

\* Nobody fetched a table for 24 hours.
Expire ==
  /\ fresh
  /\ fresh' = FALSE
  /\ UNCHANGED <<logVars, changed, rows, table, halfway>>

Next ==
  \/ \E f \in ClaudeFile, m \in Msg, n \in Tokens : WriteTurn(f, m, n)
  \/ \E f, g \in ClaudeFile : Resume(f, g)
  \/ \E f \in CodexFile, line \in Model \cup {Usage} : WriteRollout(f, line)
  \/ IncrementalScan \/ FullScan
  \/ Refresh \/ RefreshCut \/ Expire

Spec == Init /\ [][Next]_vars

-----------------------------------------------------------------------------
(* Properties. *)

Holders(m) == {f \in ClaudeFile : Counts(m, {f}) # {}}

\* Every transcript with the message has been read as it is now.
Settled(m) == Holders(m) # {} /\ Holders(m) \cap changed = {}

\* No copy was taken in the middle of a response; a copy that was, and is read alone later,
\* puts the placeholder it holds in place of the final count.
CopiesAgree(m) ==
  \A f, g \in Holders(m) : Largest(Counts(m, {f})) = Largest(Counts(m, {g}))

\* README.md:640, "a streamed turn is counted once at its true size": when all that is
\* written of a message has been read, its row has the count of its largest line, whatever
\* the order of lines, copies and scans.
WholeCopiesCountedAtTrueSize ==
  \A m \in Msg : Settled(m) /\ CopiesAgree(m) =>
    rows[m] # NoRow /\ rows[m].tokens = Largest(Counts(m, ClaudeFile))

\* While a fetched table is in force and its re-pricing went through, every row whose
\* model has a rate is priced by this very table: no report adds up two price lists.
OnePriceList ==
  fresh /\ ~halfway =>
    \A k \in Key : rows[k] # NoRow /\ rows[k].model \in RatedBy(table) => rows[k].price = table

\* No row loses the price that the table in force gave it, nor any price if the embedded
\* table, "the floor" of README.md:626, rates its model.  A scan that reads a row anew does
\* take it for any other model: the table is a day old, or another one came that no longer
\* lists the model.
PriceLastsWithItsTable ==
  [][\A k \in Key :
       /\ rows[k] # NoRow /\ rows[k].price # Unpriced /\ rows'[k].price = Unpriced
       => rows[k].price # InForce /\ rows[k].model \notin Embedded]_vars

\* codex.go:26-28: a usage row has the model its own file named last before it, and the
\* default only when the file had named none.
CodexModelIsItsOwn ==
  \A f \in CodexFile : \A i \in DOMAIN rollout[f] :
    LET named == {j \in 1 .. i : rollout[f][j] # Usage} IN
    rows[<<f, i>>] # NoRow =>
      rows[<<f, i>>].model = IF named = {} THEN DefaultModel ELSE rollout[f][Largest(named)]

==============================================================================
