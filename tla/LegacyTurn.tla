----------------------------- MODULE LegacyTurn -----------------------------
(***************************************************************************)
(* The text executor of the server under query policy "legacy", without a  *)
(* draft model: how much of the cached conversation a request may keep,    *)
(* how the recurrent state is brought to that row, and in which order the  *)
(* prefix, the query and the tail are evaluated around the retrieval.      *)
(*                                                                         *)
(* As in ServerTurn a memory is the sequence of tokens evaluated into it.  *)
(* The attention rows are addressed by position and can be written again;  *)
(* the recurrent state can only be extended or restored.                   *)
(***************************************************************************)
EXTENDS Integers, Sequences, FiniteSets, SequencesExt

CONSTANTS
    Prompts,        \* requests: [toks, q0, q1, user], query rows q0..q1-1;
                    \* no query, so no retrieval, when q0 is 0
    Words,          \* the tokens a reply is made of
    BlockTokens,    \* rows of a block
    Slack,          \* template rows a continuation may differ by (64)
    GenReserve,     \* rows of the tail that fit beside the pinned blocks
    MaxRows,        \* bound: rows of a conversation with its reply
    MaxReply, MaxTurns, MaxFaults,
    Hole,           \* a row that was removed and not evaluated again
    None

Tokens == Words \cup {Hole} \cup UNION {Range(p.toks) : p \in Prompts}

ASSUME LegacyTurnAssumption ==
    /\ {MaxRows, MaxReply, MaxTurns, MaxFaults, Slack, GenReserve} \subseteq Nat
    /\ BlockTokens \in Nat \ {0}
    /\ \A p \in Prompts : /\ p.toks \in Seq(Range(p.toks))
                          /\ p.q0 \in Nat /\ p.q1 \in Nat /\ p.q0 < p.q1
                          /\ p.q1 <= Len(p.toks) /\ Len(p.toks) + MaxReply <= MaxRows
    /\ None \notin Seq(Tokens) \cup Prompts

VARIABLES
    Recurrent,      \* the model has a recurrent memory
    kv, rec, mean,  \* attention rows, recurrent state, block means
    cached,         \* cached_tokens and last_n_gen: the last committed turn
    genCkpt,        \* gdn_ckpt: recurrent state where the last generation began
    queryCkpt,      \* gdn_ckpt_query: and where its query began
    lastUser,       \* last_user_text
    turn,           \* the request and the locals of its handler
    pc, turns, faults

vars == <<Recurrent, kv, rec, mean, cached, genCkpt, queryCkpt, lastUser, turn, pc, turns,
          faults>>
memory == <<kv, rec, mean>>
known == <<cached, genCkpt, queryCkpt, lastUser>>

INSTANCE BlockMeans WITH LastBlock <- MaxRows \div BlockTokens

Take(s, n) == SubSeq(s, 1, Min({n, Len(s)}))
Rows(a, b) == SubSeq(turn.req.toks, a + 1, b)   \* rows a..b-1 of the prompt
End == Len(turn.req.toks)

NoCkpt == [row |-> 0, rec |-> None]
NoTurn == [req |-> None, past |-> 0, reused |-> FALSE, same |-> FALSE, warm |-> FALSE,
           fits |-> FALSE, ckpt |-> None, gen |-> <<>>]

Init ==
    /\ Recurrent \in BOOLEAN
    /\ kv = <<>> /\ rec = <<>> /\ mean = NoMeans
    /\ cached = [toks |-> <<>>, gen |-> 0]
    /\ genCkpt = NoCkpt /\ queryCkpt = NoCkpt /\ lastUser = None
    /\ turn = NoTurn /\ pc = "idle" /\ turns = 0 /\ faults = 0

-----------------------------------------------------------------------------
(* Evaluating rows a..b-1.                                                 *)

\* dec: appended to every memory.
Decode(a, b, from) ==
    /\ kv' = kv \o Rows(a, b)
    /\ rec' = IF Recurrent THEN from \o Rows(a, b) ELSE rec
    /\ mean' = AddMeans(mean, a, Rows(a, b))

\* replay: written again over the attention rows, the means left alone.
Rewrite(a, b, from) ==
    /\ kv' = Take(kv, a) \o Rows(a, b) \o SubSeq(kv, b + 1, Len(kv))
    /\ rec' = IF Recurrent THEN from \o Rows(a, b) ELSE rec
    /\ UNCHANGED mean

Held == IF Recurrent THEN Min({Len(kv), Len(rec)}) ELSE Len(kv)  \* seq_pos_max + 1

Failing ==
    /\ faults < MaxFaults /\ faults' = faults + 1
    /\ turn' = NoTurn /\ pc' = "idle"

\* A closed connection or a failed batch somewhere in rows a..b-1.
StopsIn(a, b) ==
    /\ Failing
    /\ \E k \in a..b : Decode(a, k, rec)
    /\ UNCHANGED <<Recurrent, known, turns>>

ForgetAll ==    \* memory_clear_all
    /\ kv' = <<>> /\ rec' = <<>> /\ mean' = NoMeans
    /\ cached' = [toks |-> <<>>, gen |-> 0]
    /\ genCkpt' = NoCkpt /\ queryCkpt' = NoCkpt /\ lastUser' = None

-----------------------------------------------------------------------------
\* What the request may keep: the common prefix, unless more of the cached
\* conversation than its last reply was rewritten.
Reusable(p, lcp) ==
    /\ lcp > 0 /\ lcp < Len(p.toks) /\ Len(kv) >= lcp
    /\ Len(cached.toks) - lcp <= cached.gen + Slack

Accept(p, fits, free) ==
    LET lcp == Len(LongestCommonPrefix({cached.toks, p.toks}))
        hit == Reusable(p, lcp)
        same == lastUser = p.user
        tip == (Recurrent => Len(rec) = lcp) /\ Len(kv) >= lcp
    IN  /\ pc = "idle" /\ turns < MaxTurns /\ turns' = turns + 1
        /\ turn' = [NoTurn EXCEPT !.req = p, !.fits = fits, !.same = same,
                      !.reused = hit, !.past = IF hit THEN lcp ELSE 0,
                      !.warm = hit /\ same /\ p.q0 > 0 /\ lcp > p.q1 /\ tip /\ free]
        /\ pc' = IF hit THEN "cut" ELSE "cold"
        /\ UNCHANGED <<Recurrent, memory, known, faults>>

\* A turn that begins without seq_rm.
CutMemoryNot ==
    /\ pc = "cut"
    /\ pc' = IF turn.warm THEN "tail" ELSE "sync"
    /\ UNCHANGED <<Recurrent, memory, known, turn, turns, faults>>

\* begin_cached_turn, seq_rm and truncate_cached: rows past the prefix go.  The
\* recurrent state stays where it is.
CutMemory ==
    /\ pc = "cut"
    /\ kv' = Take(kv, turn.past)
    /\ mean' = IF turn.past < Len(kv) THEN TruncateMean(mean, turn.past) ELSE mean
    /\ pc' = IF turn.warm THEN "tail" ELSE "sync"
    /\ UNCHANGED <<Recurrent, rec, known, turn, turns, faults>>

\* gdn_sync_to(row): nothing to do, or the latest saved state no later than the
\* row restored and caught up by a replay, or none.
Synced(row) == ~Recurrent \/ Len(rec) = row
CkptsAnyRow(row) == {c \in {genCkpt, queryCkpt} : c.rec # None}
Ckpts(row) == {c \in {genCkpt, queryCkpt} : c.rec # None /\ c.row <= row}
LatestCkpt(row) == CHOOSE c \in Ckpts(row) : \A d \in Ckpts(row) : d.row <= c.row

SyncTo(row) ==
    IF Synced(row) THEN UNCHANGED memory
    ELSE LET c == LatestCkpt(row) IN Rewrite(c.row, row, c.rec)

Retrieving == turn.req.q0 > 0    \* do_retr
Prepared == IF Retrieving /\ turn.same /\ turn.past > turn.req.q1 THEN "reselect"
            ELSE IF Retrieving THEN "prefix" ELSE "tail"

SyncState ==
    /\ pc = "sync" /\ (Synced(turn.past) \/ Ckpts(turn.past) # {})
    /\ SyncTo(turn.past)
    /\ pc' = Prepared
    /\ UNCHANGED <<Recurrent, known, turn, turns, faults>>

SyncImpossible ==
    /\ pc = "sync" /\ ~Synced(turn.past) /\ Ckpts(turn.past) = {}
    /\ pc' = "cold"
    /\ UNCHANGED <<Recurrent, memory, known, turn, turns, faults>>

SyncStops ==
    /\ pc = "sync" /\ ~Synced(turn.past) /\ Ckpts(turn.past) # {}
    /\ Failing
    /\ LET c == LatestCkpt(turn.past)
       IN  \E k \in c.row..turn.past : Rewrite(c.row, k, c.rec)
    /\ UNCHANGED <<Recurrent, known, turns>>

StartCold ==
    /\ pc = "cold"
    /\ ForgetAll
    /\ turn' = [turn EXCEPT !.reused = FALSE, !.past = 0, !.warm = FALSE]
    /\ pc' = IF Retrieving THEN "prefix" ELSE "tail"
    /\ UNCHANGED <<Recurrent, turns, faults>>

\* The query is in the prefix already: its captured keys select again.
Reselect ==
    /\ pc = "reselect" /\ pc' = "tail"
    /\ UNCHANGED <<Recurrent, memory, known, turn, turns, faults>>

-----------------------------------------------------------------------------
Saving == Recurrent /\ turn.fits /\ turn.past <= turn.req.q1    \* recr_ckpt

EvaluatePrefix ==
    /\ pc = "prefix"
    /\ IF turn.past < turn.req.q0 THEN Decode(turn.past, turn.req.q0, rec) ELSE UNCHANGED memory
    /\ pc' = IF Saving THEN "save" ELSE "query"
    /\ UNCHANGED <<Recurrent, known, turn, turns, faults>>

PrefixStops == pc = "prefix" /\ turn.past < turn.req.q0 /\ StopsIn(turn.past, turn.req.q0)

\* The recurrent state where the query begins, going back to it if the prefix
\* reaches into the query.
SaveState ==
    LET q0 == turn.req.q0
    IN  /\ pc = "save"
        /\ turn.past > q0 => (Synced(q0) \/ Ckpts(q0) # {})
        /\ IF turn.past > q0 THEN SyncTo(q0) ELSE UNCHANGED memory
        /\ turn' = [turn EXCEPT !.ckpt = rec']
        /\ queryCkpt' = [row |-> q0, rec |-> rec']
        /\ pc' = "query"
        /\ UNCHANGED <<Recurrent, cached, genCkpt, lastUser, turns, faults>>

SaveFails ==
    /\ pc = "save" /\ turn.past > turn.req.q0 /\ ~Synced(turn.req.q0)
    /\ \/ /\ Ckpts(turn.req.q0) = {}
          /\ turn' = NoTurn /\ pc' = "idle"
          /\ UNCHANGED <<memory, faults>>
       \/ /\ Ckpts(turn.req.q0) # {}
          /\ Failing
          /\ LET c == LatestCkpt(turn.req.q0)
             IN  \E k \in c.row..turn.req.q0 : Rewrite(c.row, k, c.rec)
    /\ UNCHANGED <<Recurrent, known, turns>>

\* The query's keys are captured: over the rows that are kept by a replay, over
\* the others as they are first evaluated.
EvaluateQuery ==
    LET q0 == turn.req.q0
        q1 == turn.req.q1
        kept == Min({Max({turn.past, q0}), q1})
    IN  /\ pc = "query" /\ Held <= q0
        /\ kv' = Take(kv, q0) \o Rows(q0, q1) \o SubSeq(kv, q1 + 1, Len(kv))
        /\ rec' = IF Recurrent THEN rec \o Rows(q0, q1) ELSE rec
        /\ mean' = AddMeans(mean, kept, Rows(kept, q1))
        /\ pc' = IF End - Max({turn.past, q1}) <= GenReserve /\ turn.fits THEN "again" ELSE "tail"
        /\ UNCHANGED <<Recurrent, known, turn, turns, faults>>

\* llama_decode refuses rows at or before the last one the memories hold.
QueryRefused ==
    /\ pc = "query" /\ Held > turn.req.q0
    /\ turn' = NoTurn /\ pc' = "idle"
    /\ UNCHANGED <<Recurrent, memory, known, turns, faults>>

QueryStops ==
    LET q0 == turn.req.q0
    IN  /\ pc = "query" /\ Held <= q0 /\ Failing
        /\ \E k \in q0..turn.req.q1 :
              IF k <= turn.past THEN Rewrite(q0, k, rec)
              ELSE /\ kv' = Take(kv, q0) \o Rows(q0, k)
                   /\ rec' = IF Recurrent THEN rec \o Rows(q0, k) ELSE rec
                   /\ LET kept == Max({turn.past, q0}) IN mean' = AddMeans(mean, kept, Rows(kept, k))
        /\ UNCHANGED <<Recurrent, known, turns>>

\* After the retrieval the query is removed and evaluated over what was selected.
ReplayQuery ==
    /\ pc = "again"
    /\ Rewrite(turn.req.q0, turn.req.q1, IF turn.ckpt # None THEN turn.ckpt ELSE rec)
    /\ pc' = "tail"
    /\ UNCHANGED <<Recurrent, known, turn, turns, faults>>

ReplayStops ==
    LET q0 == turn.req.q0
        q1 == turn.req.q1
    IN  /\ pc = "again" /\ Failing
        /\ \E k \in q0..q1 :
              /\ kv' = Take(kv, q0) \o Rows(q0, k) \o [i \in 1..(q1 - k) |-> Hole]
                         \o SubSeq(kv, q1 + 1, Len(kv))
              /\ rec' = IF Recurrent
                        THEN (IF turn.ckpt # None THEN turn.ckpt ELSE rec) \o Rows(q0, k) ELSE rec
        /\ UNCHANGED <<Recurrent, mean, known, turns>>

TailFrom == IF turn.warm \/ Prepared # "prefix" THEN turn.past
            ELSE Max({turn.past, turn.req.q1})

\* The state saved after the query's replay instead of after the tail.
EvaluateTailOldState ==
    /\ pc = "tail"
    /\ Decode(TailFrom, End, rec)
    /\ genCkpt' = IF Recurrent THEN [row |-> End, rec |-> rec] ELSE genCkpt
    /\ lastUser' = IF Retrieving THEN turn.req.user ELSE None
    /\ pc' = "generate"
    /\ UNCHANGED <<Recurrent, cached, queryCkpt, turn, turns, faults>>

\* The rest of the prompt; then the state the next turn can return to.
EvaluateTail ==
    /\ pc = "tail"
    /\ Decode(TailFrom, End, rec)
    /\ genCkpt' = IF Recurrent THEN [row |-> End, rec |-> rec'] ELSE genCkpt
    /\ lastUser' = IF Retrieving THEN turn.req.user ELSE None
    /\ pc' = "generate"
    /\ UNCHANGED <<Recurrent, cached, queryCkpt, turn, turns, faults>>

TailStops == pc = "tail" /\ StopsIn(TailFrom, End)

Generate(t) ==
    /\ pc = "generate" /\ Len(turn.gen) < MaxReply
    /\ turn' = [turn EXCEPT !.gen = Append(@, t)]
    /\ kv' = Append(kv, t)
    /\ rec' = IF Recurrent THEN Append(rec, t) ELSE rec
    /\ mean' = AddMeans(mean, Len(kv), <<t>>)
    /\ UNCHANGED <<Recurrent, known, pc, turns, faults>>

GenerateStops ==
    /\ pc = "generate" /\ Failing
    /\ UNCHANGED <<Recurrent, memory, known, turns>>

Commit ==
    /\ pc = "generate"
    /\ cached' = [toks |-> turn.req.toks \o turn.gen, gen |-> Len(turn.gen)]
    /\ turn' = NoTurn /\ pc' = "idle"
    /\ UNCHANGED <<Recurrent, memory, genCkpt, queryCkpt, lastUser, turns, faults>>

-----------------------------------------------------------------------------
Serve ==
    \/ CutMemory \/ SyncState \/ SyncImpossible \/ SyncStops \/ StartCold \/ Reselect
    \/ EvaluatePrefix \/ PrefixStops \/ SaveState \/ SaveFails
    \/ EvaluateQuery \/ QueryRefused \/ QueryStops \/ ReplayQuery \/ ReplayStops
    \/ EvaluateTail \/ TailStops
    \/ \E t \in Words : Generate(t)
    \/ GenerateStops \/ Commit

Next == (\E p \in Prompts, fits, free \in BOOLEAN : Accept(p, fits, free)) \/ Serve

Spec == Init /\ [][Next]_vars

-----------------------------------------------------------------------------
\* The server's state (ServerState) and the locals of the request it serves.
TypeOK ==
    /\ {kv, rec, cached.toks} \subseteq Seq(Tokens)
    /\ DOMAIN mean = Blocks
    /\ \A c \in {genCkpt, queryCkpt} : c.row \in Nat /\ (c.rec # None => c.rec \in Seq(Tokens))
    /\ (pc = "idle") = (turn.req = None)
    /\ turn.req # None => turn.req \in Prompts /\ turn.past < End

\* The memories hold the request's rows and the reply so far, and nothing else.
HoldsRequest ==
    /\ kv = turn.req.toks \o turn.gen
    /\ Recurrent => rec = turn.req.toks \o turn.gen

\* A reply is generated from exactly the rows of its request, in the attention
\* memory and in the recurrent one, however much of the earlier turns was kept
\* (run_prefill_retrieval); as long as no earlier request was cut short.
ReplyFromPrompt == pc = "generate" /\ faults = 0 => HoldsRequest

\* The same also after a request that was cut short.
ReplyFromPromptAfterStop == pc = "generate" => HoldsRequest

\* Between requests the two saved states are of the cached conversation, so that
\* catching up from either gives the state of the conversation.
SavedStatesOfConversation ==
    pc = "idle" /\ faults = 0 => \A c \in {genCkpt, queryCkpt} :
        (c.rec # None /\ c.row <= Len(cached.toks)) => c.rec = Take(cached.toks, c.row)

\* A block's mean key, which retrieval scores it by, is the mean of the rows it
\* counts.
MeansAreWhole ==
    pc = "idle" => \A b \in Blocks :
        mean[b].n = Cardinality(mean[b].rows)

\* The query is never evaluated at rows the memories are already past.
QueryAhead == pc = "query" => Held <= turn.req.q0
=============================================================================
