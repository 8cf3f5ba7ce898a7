----------------------------- MODULE ServerTurn -----------------------------
(***************************************************************************)
(* One chat request after another on the single slot of the server, in the *)
(* executor that text and media requests share (query policy "user").      *)
(*                                                                         *)
(* A request brings its whole conversation.  The server finds how much of  *)
(* it the memories already hold, goes back to a checkpoint no later than   *)
(* that, evaluates the rest, may evaluate the query suffix a second time   *)
(* over the retrieved blocks, generates, and commits.  A failure or a      *)
(* closed connection at any point rolls the memories back to the           *)
(* checkpoint the request started from.                                    *)
(*                                                                         *)
(* A memory is modelled by the rows it holds: the sequence of tokens that  *)
(* were evaluated into it.  An image is one row.                           *)
(***************************************************************************)
EXTENDS Integers, Sequences, FiniteSets, SequencesExt

CONSTANTS
    Setups,         \* servers and their clients: [spec, prompts, spans, reply]:
                    \* whether the server drafts with MTP (st.spec.ok), the
                    \* conversations sent, the query spans <<begin, end>> they
                    \* have, and max_tokens
    Words,          \* the tokens a reply is made of
    Images,         \* the tokens that stand for an image
    BlockTokens,    \* rows of a block, the unit of the mean keys
    BatchTokens,    \* st.n_batch
    MaxCheckpoints, \* entries kept beside the one being added (4)
    MaxMedia,       \* media entries kept before one of them is evicted (2)
    MaxRows,        \* bound: rows of a conversation with its reply
    MaxTurns, MaxFaults,  \* bounds on the requests and on the failures of a run
    Junk,           \* a row of a batch whose evaluation failed
    None

Prompts == UNION {x.prompts : x \in Setups}
Tokens  == Words \cup Images \cup {Junk} \cup UNION {Range(p) : p \in Prompts}

Means      == [n : Nat, rows : SUBSET (Nat \X Tokens)]
Checkpoint == [row : Nat, media : BOOLEAN, rec : Seq(Tokens), carry : Seq(Tokens),
               tail : Means \cup {None}]
Query      == [span : Nat \X Nat, prefix : Seq(Tokens)]
Rollback   == [cp : Checkpoint, prompt : Seq(Tokens) \cup {None}]

ASSUME ServerTurnAssumption ==
    /\ {BlockTokens, BatchTokens, MaxMedia} \subseteq Nat \ {0}
    /\ MaxCheckpoints \in Nat /\ MaxMedia < MaxCheckpoints
    /\ {MaxRows, MaxTurns, MaxFaults} \subseteq Nat
    /\ \A x \in Setups :
          /\ x.spec \in BOOLEAN /\ x.reply \in Nat
          /\ \A p \in x.prompts : /\ p \in Seq(Range(p)) /\ Len(p) > 1
                                  /\ Len(p) + x.reply <= MaxRows
          /\ \A q \in x.spans : q \in Nat \X Nat /\ q[1] < q[2]
    /\ None \notin Seq(Tokens) \cup Means \cup Checkpoint \cup Query \cup Rollback

VARIABLES
    setup,
    mem,        \* what the memories hold: kv, store, mean, rec, draft, carry
    cps,        \* mm_checkpoints: no two of one row, in the code ordered by row
    live,       \* mm_live_row and mm_live_checkpoint
    cached,     \* cached_prompt, None when there is none
    rollback,   \* mm_rollback and mm_rollback_prompt, None outside a request
    committed,  \* mm_committed
    query,      \* mm_query: the captured query of the last turn
    turn,       \* the request being served and the locals of its handler
    pc, turns, faults,
    lost        \* history: a rollback failed since the memories were cleared

fixed == <<setup, lost>>
vars == <<fixed, mem, cps, live, cached, rollback, committed, query, turn, pc, turns, faults>>

INSTANCE BlockMeans WITH LastBlock <- MaxRows \div BlockTokens

SpecOK   == setup.spec
Take(s, n) == SubSeq(s, 1, Min({n, Len(s)}))
Common(a, b) == Len(LongestCommonPrefix({a, b}))

\* Rows evaluated before the generation: MTP leaves the last one to it.
EvalEnd(p) == Len(p) - (IF SpecOK THEN 1 ELSE 0)

-----------------------------------------------------------------------------
(* The memories.                                                           *)

OfDraft(rows) == IF SpecOK THEN rows ELSE <<>>

Holding(rows) ==
    [kv |-> rows, store |-> rows, rec |-> rows,
     mean |-> AddMeans(NoMeans, 0, rows),
     draft |-> OfDraft(rows), carry |-> OfDraft(rows)]

\* Rows evaluated after the ones a memory holds.  A replay leaves the host
\* store and its means as they are: they have those rows already.
Evaluate(m, toks, replay) ==
    [kv |-> m.kv \o toks,
     store |-> IF replay THEN m.store ELSE m.store \o toks,
     mean |-> IF replay THEN m.mean ELSE AddMeans(m.mean, Len(m.store), toks),
     rec |-> m.rec \o toks,
     draft |-> m.draft \o OfDraft(toks), carry |-> m.carry \o OfDraft(toks)]

\* multimodal_restore, one call after the other.
RestoredState(m, cp) == IF live = [row |-> cp.row, cp |-> cp] THEN m ELSE [m EXCEPT !.rec = cp.rec]
RestoredRows(m, cp) ==
    [RestoredState(m, cp) EXCEPT !.kv = Take(@, cp.row), !.draft = OfDraft(Take(m.draft, cp.row))]
RestoredCarry(m, cp) ==
    IF live = [row |-> cp.row, cp |-> cp] THEN RestoredRows(m, cp)
    ELSE [RestoredRows(m, cp) EXCEPT !.carry = cp.carry]
RestoredStore(m, cp) ==
    LET cut == IF cp.row < Len(m.store) THEN TruncateMean(m.mean, cp.row) ELSE m.mean
    IN  [RestoredCarry(m, cp) EXCEPT !.store = Take(@, cp.row),
                                     !.mean = SetTailMean(cut, cp.row, cp.tail)]

\* multimodal_checkpoint: shared with the live one when nothing was evaluated
\* since that was made.
CheckpointAt(m, row) ==
    IF live.cp # None /\ live.row = row THEN [live.cp EXCEPT !.media = FALSE]
    ELSE [row |-> row, media |-> FALSE, rec |-> m.rec, carry |-> m.carry,
          tail |-> TailMean(m.mean, row)]

\* Keeping checkpoints the new rows replaced, and evicting the newest one.
First(S) == CHOOSE e \in S : \A f \in S : e.row <= f.row
RememberBeside(entries, cp) ==
    LET all == {e \in entries : e.row # cp.row} \cup {cp}
    IN  IF Cardinality(all) <= MaxCheckpoints THEN all ELSE all \ {First(all)}
RememberNotLast(entries, cp) ==
    LET all == {e \in entries : e.row < cp.row} \cup {cp}
    IN  IF Cardinality(all) <= MaxCheckpoints THEN all ELSE all \ {cp}

\* multimodal_remember: later checkpoints go, and if there are too many the
\* first media entry or, when there are few of those, the first other one.
Remember(entries, cp) ==
    LET all == {e \in entries : e.row < cp.row} \cup {cp}
        media == {e \in all : e.media}
        class == IF Cardinality(media) > MaxMedia THEN media ELSE all \ media
    IN  IF Cardinality(all) <= MaxCheckpoints THEN all
        ELSE all \ {First(IF class = {} THEN all ELSE class)}

NoLive == [row |-> 0, cp |-> None]
NoTurn == [prompt |-> <<>>, span |-> <<0, 0>>, reset |-> FALSE, base |-> None,
           qrow |-> 0, row |-> 0, suffix |-> None, pending |-> None, reuse |-> FALSE,
           gen |-> <<>>, before |-> <<>>]

Init ==
    /\ setup \in Setups /\ lost = FALSE
    /\ mem = Holding(<<>>)
    /\ cps = {} /\ live = NoLive /\ cached = None
    /\ rollback = None /\ committed = TRUE /\ query = None
    /\ turn = NoTurn /\ pc = "idle" /\ turns = 0 /\ faults = 0

\* Every failure of a handler: an exception, a status, a closed connection.
Fail ==
    /\ faults < MaxFaults /\ faults' = faults + 1
    /\ pc' = "failed"

-----------------------------------------------------------------------------
\* handle_chat under the slot lock.
Accept(p, q, reset) ==
    /\ pc = "idle" /\ turns < MaxTurns
    /\ turns' = turns + 1
    /\ turn' = [NoTurn EXCEPT !.prompt = p, !.reset = reset, !.before = mem.kv,
                              !.span = <<Min({q[1], EvalEnd(p)}), Min({q[2], EvalEnd(p)})>>]
    /\ pc' = "select"
    /\ UNCHANGED <<fixed, mem, cps, live, cached, rollback, committed, query, faults>>

\* The rows of the conversation the memories may keep.
SharedRows(p, known) == IF known = None THEN 0 ELSE Common(p, known)
KeepRows(p, known) ==
    Min({SharedRows(p, known), live.row, EvalEnd(p) - (IF SpecOK THEN 0 ELSE 1)})

Usable(entries, keep) == {e \in entries : e.row <= keep}

\* The latest checkpoint in reach, or a cold start when there is none.
SelectBase ==
    LET p == turn.prompt
        usable == IF turn.reset THEN {} ELSE Usable(cps, KeepRows(p, cached))
        best == CHOOSE e \in usable : \A f \in usable : f.row <= e.row
        first == [row |-> 0, media |-> FALSE, rec |-> <<>>, carry |-> <<>>, tail |-> None]
    IN  /\ pc = "select"
        /\ committed' = FALSE
        /\ pc' = "restore"
        /\ IF usable # {}
           THEN /\ turn' = [turn EXCEPT !.base = best]
                /\ rollback' = [cp |-> best, prompt |->
                                  IF cached = None THEN None ELSE Take(cached, best.row)]
                /\ UNCHANGED <<lost, mem, cps, live, cached, query>>
           ELSE /\ mem' = Holding(<<>>) /\ cps' = {} /\ cached' = None /\ query' = None
                /\ lost' = FALSE
                /\ live' = [row |-> 0, cp |-> first]
                /\ turn' = [turn EXCEPT !.base = first]
                /\ rollback' = [cp |-> first, prompt |-> None]
        /\ UNCHANGED <<setup, turns, faults>>

\* A cold start whose first checkpoint cannot be made.
ClearThenFail ==
    /\ pc = "select" /\ (turn.reset \/ Usable(cps, KeepRows(turn.prompt, cached)) = {})
    /\ mem' = Holding(<<>>) /\ cps' = {} /\ cached' = None /\ query' = None /\ live' = NoLive
    /\ lost' = FALSE
    /\ Fail
    /\ UNCHANGED <<setup, rollback, committed, turn, turns>>

RestoreBase ==
    /\ pc = "restore"
    /\ mem' = RestoredStore(mem, turn.base)
    /\ live' = [row |-> turn.base.row, cp |-> turn.base]
    /\ pc' = "path"
    /\ UNCHANGED <<fixed, cps, cached, rollback, committed, query, turn, turns, faults>>

RestoreFails ==
    /\ pc \in {"restore", "again"}
    /\ LET cp == IF pc = "restore" THEN turn.base ELSE turn.suffix
       IN  mem' \in {mem, RestoredState(mem, cp), RestoredRows(mem, cp)}
    /\ Fail
    /\ UNCHANGED <<fixed, cps, live, cached, rollback, committed, query, turn, turns>>

\* Where the query suffix begins, and whether the query captured by an
\* earlier turn serves this one.
LastImageEnd(p) == Max({0} \cup {i \in DOMAIN p : p[i] \in Images})
SameQuery ==
    /\ query # None
    /\ query.span = turn.span
    /\ turn.base.row >= turn.span[2]
    /\ Common(turn.prompt, query.prefix) >= turn.span[2]

QueryRow ==
    LET end == EvalEnd(turn.prompt)
    IN  Min({end, Max({turn.base.row, Min({turn.span[1], end}), LastImageEnd(turn.prompt)})})

ChoosePath ==
    /\ pc = "path"
    /\ \E reuse \in {FALSE} \cup {SameQuery} :
           turn' = [turn EXCEPT !.qrow = QueryRow, !.row = turn.base.row, !.reuse = reuse,
                                !.pending = IF reuse THEN query ELSE None]
    /\ pc' = "prefix"
    /\ UNCHANGED <<fixed, mem, cps, live, cached, rollback, committed, query, turns, faults>>

-----------------------------------------------------------------------------
\* multimodal_decode_span: one batch of text, or one image behind a checkpoint.
StageEnd == IF pc = "prefix" THEN turn.qrow ELSE EvalEnd(turn.prompt)

BatchEnd ==
    LET p == turn.prompt
        next == turn.row + 1
        texts == {k \in next..Min({StageEnd, turn.row + BatchTokens}) :
                    \A i \in next..k : p[i] \notin Images}
    IN  IF p[next] \in Images THEN next ELSE Max(texts)

BeforeImage ==
    IF turn.prompt[turn.row + 1] \in Images /\ pc # "replay"
    THEN Remember(cps, [CheckpointAt(mem, turn.row) EXCEPT !.media = TRUE]) ELSE cps

DecodeBatch ==
    /\ pc \in {"prefix", "suffix", "replay"} /\ turn.row < StageEnd
    /\ mem' = Evaluate(mem, SubSeq(turn.prompt, turn.row + 1, BatchEnd), pc = "replay")
    /\ cps' = BeforeImage
    /\ live' = [row |-> BatchEnd, cp |-> None]
    /\ turn' = [turn EXCEPT !.row = BatchEnd]
    /\ UNCHANGED <<fixed, cached, rollback, committed, query, pc, turns, faults>>

\* The connection is closed, or the evaluation fails part of the way.
DecodeFails ==
    /\ pc \in {"prefix", "suffix", "replay"} /\ turn.row < StageEnd
    /\ mem' \in {mem, Evaluate(mem, <<Junk>>, pc = "replay")}
    /\ cps' \in {cps, BeforeImage}
    /\ live' \in {live, [live EXCEPT !.cp = None]} /\ (mem' # mem => live'.cp = None)
    /\ Fail
    /\ UNCHANGED <<fixed, cached, rollback, committed, query, turn, turns>>

\* The checkpoint the suffix is replayed from.
RememberQuery ==
    /\ pc = "prefix" /\ turn.row = turn.qrow
    /\ LET cp == CheckpointAt(mem, turn.qrow)
       IN  /\ turn' = [turn EXCEPT !.suffix = cp]
           /\ cps' = Remember(cps, cp)
           /\ live' = [live EXCEPT !.cp = cp]
    /\ pc' = "suffix"
    /\ UNCHANGED <<fixed, mem, cached, rollback, committed, query, turns, faults>>

\* The suffix has been seen: keep what attention saw, or retrieve and replay.
KeepView ==
    /\ pc = "suffix" /\ turn.row = StageEnd
    /\ pc' = "capture"
    /\ UNCHANGED <<fixed, mem, cps, live, cached, rollback, committed, query, turn, turns, faults>>

Retrieve ==
    /\ pc = "suffix" /\ turn.row = StageEnd
    /\ ~turn.reuse /\ turn.qrow < StageEnd
    /\ pc' = "again"
    /\ UNCHANGED <<fixed, mem, cps, live, cached, rollback, committed, query, turn, turns, faults>>

\* The block tables cannot be committed, or the selection does not apply.
RetrieveFails ==
    /\ pc = "suffix" /\ turn.row = StageEnd
    /\ Fail
    /\ UNCHANGED <<fixed, mem, cps, live, cached, rollback, committed, query, turn, turns>>

RestoreSuffix ==
    /\ pc = "again"
    /\ mem' = RestoredCarry(mem, turn.suffix)
    /\ live' = [row |-> turn.suffix.row, cp |-> turn.suffix]
    /\ turn' = [turn EXCEPT !.row = turn.qrow]
    /\ pc' = "replay"
    /\ UNCHANGED <<fixed, cps, cached, rollback, committed, query, turns, faults>>

Replayed ==
    /\ pc = "replay" /\ turn.row = StageEnd
    /\ pc' = "capture"
    /\ UNCHANGED <<fixed, mem, cps, live, cached, rollback, committed, query, turn, turns, faults>>

\* The captured query and the checkpoint of the end of the prompt.  MTP that
\* is not at the same row is an error.
Captured ==
    IF ~turn.reuse /\ turn.span[1] >= turn.base.row /\ turn.span[1] < turn.span[2]
    THEN [span |-> turn.span, prefix |-> Take(turn.prompt, turn.span[2])] ELSE turn.pending

Capture ==
    LET cp == CheckpointAt(mem, EvalEnd(turn.prompt))
        synced == SpecOK => Len(mem.carry) = EvalEnd(turn.prompt)
    IN  /\ pc = "capture"
        /\ cps' = Remember(cps, cp)
        /\ turn' = [turn EXCEPT !.pending = Captured]
        /\ live' = [live EXCEPT !.cp = IF synced THEN None ELSE cp]
        /\ pc' = IF synced THEN "generate" ELSE "failed"
        /\ UNCHANGED <<fixed, mem, cached, rollback, committed, query, turns, faults>>

-----------------------------------------------------------------------------
\* A token of the reply.  The row evaluated for it is its own, or with MTP that
\* of the token before it.
Text(gen) == turn.prompt \o gen

Generate(t) ==
    /\ pc = "generate" /\ Len(turn.gen) < setup.reply
    /\ turn' = [turn EXCEPT !.gen = Append(@, t)]
    /\ mem' = Evaluate(mem, <<IF SpecOK THEN Last(Text(turn.gen)) ELSE t>>, FALSE)
    /\ live' = [live EXCEPT !.row = Len(mem'.kv)]
    /\ UNCHANGED <<fixed, cps, cached, rollback, committed, query, pc, turns, faults>>

GenerateFails ==
    /\ pc = "generate"
    /\ mem' \in {mem, Evaluate(mem, <<Junk>>, FALSE)}
    /\ Fail
    /\ UNCHANGED <<fixed, cps, live, cached, rollback, committed, query, turn, turns>>

\* commit_cached and multimodal_commit
Commit ==
    LET row == Len(mem.store)
        cp == CheckpointAt(mem, row)
    IN  /\ pc = "generate"
        /\ cached' = Text(turn.gen)
        /\ cps' = Remember(cps, cp)
        /\ live' = [row |-> row, cp |-> cp]
        /\ query' = turn.pending
        /\ committed' = TRUE /\ rollback' = None
        /\ turn' = NoTurn /\ pc' = "idle"
        /\ UNCHANGED <<fixed, mem, turns, faults>>

\* multimodal_finish_request after a failure
NothingToUndo == committed \/ rollback = None

\* A rollback after which the captured query is still offered.
RollBackKeepsQuery ==
    /\ pc = "failed" /\ ~NothingToUndo
    /\ mem' = RestoredStore(mem, rollback.cp)
    /\ live' = [row |-> rollback.cp.row, cp |-> rollback.cp]
    /\ cps' = Remember(cps, rollback.cp)
    /\ cached' = rollback.prompt
    /\ committed' = TRUE /\ rollback' = None
    /\ turn' = NoTurn /\ pc' = "idle"
    /\ UNCHANGED <<fixed, query, turns, faults>>

RollBack ==
    /\ pc = "failed" /\ ~NothingToUndo
    /\ mem' = RestoredStore(mem, rollback.cp)
    /\ live' = [row |-> rollback.cp.row, cp |-> rollback.cp]
    /\ cps' = Remember(cps, rollback.cp)
    /\ cached' = rollback.prompt
    /\ query' = None
    /\ committed' = TRUE /\ rollback' = None
    /\ turn' = NoTurn /\ pc' = "idle"
    /\ UNCHANGED <<fixed, turns, faults>>

RollBackFails ==
    /\ pc = "failed" /\ ~NothingToUndo
    /\ faults < MaxFaults /\ faults' = faults + 1
    /\ mem' \in {mem, RestoredState(mem, rollback.cp), RestoredRows(mem, rollback.cp)}
    /\ rollback' = None /\ lost' = TRUE
    /\ turn' = NoTurn /\ pc' = "idle"
    /\ UNCHANGED <<setup, cps, live, cached, committed, query, turns>>

LeaveFailed ==
    /\ pc = "failed" /\ NothingToUndo
    /\ turn' = NoTurn /\ pc' = "idle"
    /\ UNCHANGED <<fixed, mem, cps, live, cached, rollback, committed, query, turns, faults>>

-----------------------------------------------------------------------------
Serve ==
    \/ SelectBase \/ ClearThenFail \/ RestoreBase \/ RestoreFails \/ ChoosePath
    \/ DecodeBatch \/ DecodeFails \/ RememberQuery
    \/ KeepView \/ Retrieve \/ RetrieveFails \/ RestoreSuffix \/ Replayed \/ Capture
    \/ \E t \in Words : Generate(t)
    \/ GenerateFails \/ Commit
    \/ RollBack \/ RollBackFails \/ LeaveFailed

Next ==
    \/ \E p \in setup.prompts, q \in setup.spans, reset \in BOOLEAN : Accept(p, q, reset)
    \/ Serve

Spec == Init /\ [][Next]_vars

-----------------------------------------------------------------------------
\* The server's state between and within requests (ServerState): rows of
\* tokens, checkpoints of them, and never more checkpoints than are kept.
TypeOK ==
    /\ \A f \in {"kv", "store", "rec", "draft", "carry"} : mem[f] \in Seq(Tokens)
    /\ mem.mean \in [Blocks -> Means]
    /\ cps \subseteq Checkpoint /\ Cardinality(cps) <= MaxCheckpoints
    /\ \A e, f \in cps : e.row = f.row => e = f
    /\ live \in [row : Nat, cp : Checkpoint \cup {None}]
    /\ cached \in Seq(Tokens) \cup {None}
    /\ rollback \in Rollback \cup {None} /\ query \in Query \cup {None}
    /\ committed \in BOOLEAN /\ lost \in BOOLEAN
    /\ pc \in {"idle", "select", "restore", "path", "prefix", "suffix", "again", "replay",
                "capture", "generate", "failed"}

\* A memory holds the prompt's rows and those of the reply so far.
HoldsPrompt == mem = Holding(Take(Text(turn.gen), EvalEnd(turn.prompt) + Len(turn.gen)))

\* The rows at which a request keeps a checkpoint before it evaluates on: in
\* front of an image, and where its query begins.
SavePoint(row) ==
    row = QueryRow \/ (row < QueryRow /\ turn.prompt[row + 1] \in Images)

\* Where a request leaves the cached conversation, the checkpoints past that row
\* are dropped by the first one it keeps: none is left below it.  True of
\* clients that continue or repeat a conversation, and of those that branch off
\* with the query at or before the row (ServerTurn_stale_checkpoint shows the
\* others).
BranchCovered ==
    pc = "restore" /\ ~lost => \A e \in cps :
        \/ e.row <= SharedRows(turn.prompt, cached)
        \/ \E row \in turn.base.row .. e.row : SavePoint(row)

\* What a client x may leave in the cache: rows of a conversation and a reply.
Replies(x) == UNION {[1..k -> Words] : k \in 0..x.reply}
Kept(x) == {Take(p \o gen, n) : p \in x.prompts, gen \in Replies(x), n \in 0..MaxRows}

\* A client x whose requests continue what is kept, or have their query and
\* their images no later than where they leave it.  Its branches are covered.
BranchesEarly(x) ==
    \A p \in x.prompts, q \in x.spans, kept \in Kept(x) :
        LET end == Len(p) - (IF x.spec THEN 1 ELSE 0)
            shared == Common(p, kept)
        IN  \/ shared = Len(kept) \/ end <= shared
            \/ q[1] <= shared /\ LastImageEnd(p) <= shared

\* A reply is generated from exactly the request's prompt: whatever earlier
\* requests, failures and rollbacks left behind, the attention rows, the host
\* store and its means, the recurrent state and the draft model hold the rows
\* of this prompt and of the reply so far, and nothing else
\* (run_prefill_multimodal, multimodal_restore); unless a rollback failed and
\* nothing was cleared since.
ReplyFromPrompt == pc = "generate" /\ ~lost => HoldsPrompt

\* The same also after a rollback that failed.
ReplyAfterLostRollback == pc = "generate" => HoldsPrompt

\* Between requests every checkpoint within the cached conversation is one of
\* that conversation, so that any later request may start from it.
CheckpointsOfConversation ==
    (pc = "idle" /\ cached # None /\ ~lost) =>
        \A e \in cps : e.row <= Len(cached) =>
            LET then == Holding(Take(cached, e.row))
            IN  /\ e.rec = then.rec /\ e.carry = then.carry
                /\ e.tail = TailMean(then.mean, e.row)

\* A request that continues the last conversation never starts cold: the end
\* of the committed rows is a checkpoint, however many were evicted.
LastTurnResumable ==
    (pc = "idle" /\ cached # None /\ ~lost) => \E e \in cps : e.row = live.row

\* The captured query of the last turn is about rows the memories still hold.
CachedQueryCurrent ==
    (pc = "idle" /\ query # None /\ ~lost) => Take(mem.kv, query.span[2]) = query.prefix

\* A request that fails leaves a prefix of the rows it found, in every memory:
\* none of its own rows stays.
FailureKeepsPrefix ==
    [][(pc = "failed" /\ pc' = "idle" /\ ~lost') =>
        /\ mem' = Holding(mem'.kv)
        /\ IsPrefix(mem'.kv, turn.before)
        /\ cached' = None \/ IsPrefix(mem'.kv, cached')]_vars

=============================================================================
