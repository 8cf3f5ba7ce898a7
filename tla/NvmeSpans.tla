------------------------------ MODULE NvmeSpans ------------------------------
(***************************************************************************)
(* NvmeKvTier::run_spans: a batch of slot transfers, read or written, with *)
(* adjacent ones merged into one system call.  A merged call moves bytes   *)
(* between consecutive file offsets and consecutive buffer offsets, so it  *)
(* must stop where the next span is elsewhere in the buffer, in another    *)
(* slot order, after a short record, or in another file (archive, overlay).*)
(* Each iteration of the two loops is an action.                           *)
(***************************************************************************)
EXTENDS Integers, Sequences

CONSTANTS
    NSlots,      \* slots of the arena
    SlotBytes,   \* slot_bytes
    BufferBytes, \* buffer_bytes
    MaxSpans     \* bound: spans of a batch

ASSUME SpansAssumption ==
    /\ NSlots \in Nat \ {0} /\ SlotBytes \in Nat \ {0}
    /\ BufferBytes \in Nat /\ MaxSpans \in Nat

Slots == 0 .. NSlots - 1
Files == {"ordinary", "overlay", "direct"}
Span  == [slot : Slots, at : 0 .. BufferBytes, bytes : 1 .. SlotBytes]

VARIABLES
    spans,     \* the batch
    write,     \* write_spans rather than read_spans
    cow,       \* overlay_fd_ is open
    overlaid,  \* slots whose bytes are in the overlay
    direct,    \* direct_fd_ is open; it takes addresses and lengths that
               \* are multiples of a record
    i,         \* the span the next call starts with, from 1
    j,         \* the span the merging loop looks at; i when not merging
    merged,    \* merged_bytes
    moved,     \* history: <<byte of the buffer, byte of a file>> per byte moved
    calls,     \* stats->syscalls
    status     \* "running", "done" or "thrown"

batch == <<spans, write, cow, direct>>
vars  == <<batch, overlaid, i, j, merged, moved, calls, status>>

\* Bytes the planner gives to different spans never overlap.
Apart(s, t) == s.at + s.bytes <= t.at \/ t.at + t.bytes <= s.at

Init ==
    /\ \E n \in 0 .. MaxSpans : spans \in [1 .. n -> Span]
    /\ \A k, m \in DOMAIN spans : k # m => Apart(spans[k], spans[m])
    /\ write \in BOOLEAN /\ cow \in BOOLEAN /\ direct \in BOOLEAN
    /\ overlaid \in SUBSET Slots /\ (~cow => overlaid = {})
    /\ i = 1 /\ j = 1 /\ merged = 0 /\ moved = {} /\ calls = 0
    /\ status = "running"

\* Writes have one descriptor.  Overlaid records are read through their own;
\* the archive is read through the O_DIRECT descriptor when address, length and
\* offset allow it (a full record at a direct address).
FileOf(s) ==
    IF write THEN (IF cow THEN "overlay" ELSE "ordinary")
    ELSE IF s.slot \in overlaid THEN "overlay"
    ELSE IF direct /\ s.at % SlotBytes = 0 /\ s.bytes = SlotBytes THEN "direct"
    ELSE "ordinary"

\* The byte at an offset of a file: the archive has two descriptors.
ByteOf(file, offset) ==
    <<IF file = "overlay" THEN "overlay" ELSE "archive", offset>>

\* n bytes, from the address and the record of span s on, in one call.
Transferred(s, n) ==
    {<<s.at + d, ByteOf(FileOf(s), s.slot * SlotBytes + d)>> : d \in 0 .. n - 1}

Fits(s) == s.at + s.bytes <= BufferBytes

\* Mutant of Extends: a record that is not whole is followed by the next.
ExtendsShort ==
    /\ spans[j].slot = spans[j - 1].slot + 1
    /\ spans[j].at = spans[i].at + merged
    /\ FileOf(spans[j]) = FileOf(spans[i])
\* Span j continues the call that starts at span i and has merged bytes.
Extends ==
    /\ spans[j].slot = spans[j - 1].slot + 1 /\ spans[j - 1].bytes = SlotBytes
    /\ spans[j].at = spans[i].at + merged
    /\ FileOf(spans[j]) = FileOf(spans[i])

Running == status = "running" /\ i <= Len(spans)
Copying == write /\ cow
Merging == j > i
\* The span at j is the first of a call, or joins the call.
Joins   == Merging => j <= Len(spans) /\ Extends

\* The call starts with span i.
Begin ==
    /\ Running /\ ~Copying /\ ~Merging /\ Fits(spans[i])
    /\ merged' = spans[i].bytes /\ j' = i + 1
    /\ UNCHANGED <<batch, overlaid, i, moved, calls, status>>

Merge ==
    /\ Running /\ Merging /\ Joins /\ Fits(spans[j])
    /\ merged' = merged + spans[j].bytes /\ j' = j + 1
    /\ UNCHANGED <<batch, overlaid, i, moved, calls, status>>

\* pread_all or pwrite_all.
Transfer ==
    /\ Running /\ Merging /\ ~Joins
    /\ moved' = moved \cup Transferred(spans[i], merged)
    /\ i' = j /\ calls' = calls + 1 /\ merged' = 0
    /\ UNCHANGED <<batch, overlaid, j, status>>

\* Writes beside an archive go to the overlay one by one: write_slot_range
\* copies the rest of the record up first.
WriteOne ==
    /\ Running /\ Copying /\ Fits(spans[i])
    /\ moved' = moved \cup Transferred(spans[i], spans[i].bytes)
    /\ overlaid' = overlaid \cup {spans[i].slot}
    /\ i' = i + 1 /\ j' = i + 1 /\ calls' = calls + 1
    /\ UNCHANGED <<batch, merged, status>>

\* A span that exceeds the buffer ends the batch; calls made before it stand,
\* and the spans merged so far are not transferred.
Throw ==
    /\ Running /\ Joins /\ ~Fits(spans[j])
    /\ status' = "thrown"
    /\ UNCHANGED <<batch, overlaid, i, j, merged, moved, calls>>

Finish ==
    /\ status = "running" /\ i > Len(spans)
    /\ status' = "done"
    /\ UNCHANGED <<batch, overlaid, i, j, merged, moved, calls>>

Next == Begin \/ Merge \/ Transfer \/ WriteOne \/ Throw \/ Finish
Spec == Init /\ [][Next]_vars

-----------------------------------------------------------------------------
\* The bytes span k asks for: as many as it says, between its own address and
\* its own record, in the file that record is in.
Asked(k)    == Transferred(spans[k], spans[k].bytes)
AskedBy(ks) == UNION {Asked(k) : k \in ks}

\* The merged calls move the bytes the spans name one by one: each span done
\* so far is transferred between its own address and its own record, and no
\* other byte of the buffer or of a file is touched.
EachSpanItsRecord == moved = AskedBy(1 .. i - 1)

\* A batch of full records of one file, in slot order and packed in the
\* buffer, is one system call (nvme_kv_tier_test expects "syscalls == 1").
Packed ==
    /\ Len(spans) > 0 /\ ~Copying
    /\ \A k \in DOMAIN spans : /\ spans[k].bytes = SlotBytes
                               /\ FileOf(spans[k]) = FileOf(spans[1])
                               /\ spans[k].slot = spans[1].slot + k - 1
                               /\ spans[k].at = spans[1].at + (k - 1) * SlotBytes
PackedIsOneCall == status = "done" /\ Packed => calls = 1
=============================================================================
