----------------------------- MODULE PeerStream -----------------------------
(***************************************************************************)
(* One TCP connection of the replicated store: a peer that writes one      *)
(* message per round and the reader in the round loop of BFTKVS::job       *)
(* (bft_kvs.h), with its two chained asynchronous reads, its streambuf     *)
(* that survives the round, and the round timer that cancels them.         *)
(*                                                                         *)
(* A message is the delimiter followed by the nodes of one level.  Rounds  *)
(* are numbered across jobs: round r is round r % max_rounds of job        *)
(* r \div max_rounds, and message r is the one the peer writes in its      *)
(* round r.  Nothing in a message says which round it belongs to.          *)
(*                                                                         *)
(* An action of the reader is one iteration of the loop around run_one:    *)
(* a completion handler and the check of the timeout that follows it.      *)
(***************************************************************************)
EXTENDS Integers, Sequences, SequencesExt, FiniteSets

CONSTANTS
  max_rounds,  \* rounds of a job
  NodesIn,     \* nodes of a message of round 0 .. max_rounds-1 (a sequence)
  WordSize,    \* 2^64 in the code: the range of size_t
  Window,      \* nodes and delimiters the sockets hold before a write blocks
  LastRound,   \* bound: rounds looked at
  MaxSlips,    \* bound: rounds that time out although the peer takes part
  MaxSkips     \* bound: jobs the reader skips (should_die)

ASSUME StreamAssumption ==
  /\ max_rounds \in Nat \ {0}
  /\ NodesIn \in [1..max_rounds -> Nat \ {0}]
  /\ Window \in Nat \ {0}
  /\ LastRound \in Nat /\ MaxSlips \in Nat /\ MaxSkips \in Nat
  /\ WordSize \in Nat
  /\ \A i \in 1..max_rounds : WordSize > 2 * (NodesIn[i] + Window) * (LastRound + 1)

delim == <<-1, 0>>

\* receive_buffer_optimized(l, pid).size() in round r
len(r) == NodesIn[(r % max_rounds) + 1]

nodes(r) == [i \in 1..len(r) |-> <<r, i>>]

message(r) == <<delim>> \o nodes(r)

VARIABLES
  sent,       \* messages the peer has begun to write, skipped ones included
  silent,     \* rounds of the jobs the peer skips (should_die)
  out,        \* what its async_write has not handed to the socket yet
  wire,       \* what is in the sockets
  buf,        \* server_buffer[pid]
  round,      \* the round of the reader
  op,         \* its pending read: "until", "exact" or "off" (not receive_pending)
  want,       \* what transfer_exactly still asks for
  timeout,    \* the flag the timer sets
  cancelled,  \* the pending read was cancelled, its handler has yet to run
  took,       \* what the handler of this round put into the receive buffers
  slips,      \* history: reads cut short by the timer, writes cut short
  lastSlip,   \* history: the last round that was
  skips       \* history: jobs the reader skipped

vars == <<sent, silent, out, wire, buf, round, op, want, timeout, cancelled,
          took, slips, lastSlip, skips>>

peerVars == <<sent, silent, out>>
history == <<slips, lastSlip, skips>>

Found == \E i \in DOMAIN buf : buf[i] = delim

\* The read that is pending has nothing left to wait for.
Complete == (op = "until" /\ Found) \/ (op = "exact" /\ want = 0) \/ op = "off"

Init ==
  /\ sent = 0 /\ silent = {} /\ out = <<>> /\ wire = <<>> /\ buf = <<>>
  /\ round = 0 /\ op = "until" /\ want = 0
  /\ timeout = FALSE /\ cancelled = FALSE /\ took = <<>>
  /\ slips = 0 /\ lastSlip = -1 /\ skips = 0

-----------------------------------------------------------------------------
(* The peer.                                                               *)

\* Jobs are released by the clock and the rounds of a job are over, one way or
\* the other, before the next release: the peer is ahead of the reader by
\* rounds of the same job at most.
Released ==
  /\ sent <= LastRound
  /\ sent \div max_rounds <= (IF op = "off" THEN round + 1 ELSE round) \div max_rounds

\* async_write of the delimiter and of one level.
PeerSend ==
  /\ out = <<>>
  /\ Released
  /\ out' = message(sent)
  /\ sent' = sent + 1
  /\ UNCHANGED <<silent, wire, buf, round, op, want, timeout, cancelled, took, history>>

\* The socket takes some of it.
PeerWrite(n) ==
  /\ n <= Len(out)
  /\ Len(wire) + n <= Window
  /\ wire' = wire \o SubSeq(out, 1, n)
  /\ out' = SubSeq(out, n + 1, Len(out))
  /\ UNCHANGED <<sent, silent, buf, round, op, want, timeout, cancelled, took, history>>

\* The socket is full until the round of the peer times out and cancels the
\* write: the rest of the message is never sent.
PeerGivesUp ==
  /\ out # <<>>
  /\ Len(wire) = Window
  /\ slips < MaxSlips
  /\ out' = <<>>
  /\ slips' = slips + 1
  /\ lastSlip' = IF sent - 1 > round THEN sent - 1 ELSE round
  /\ UNCHANGED <<sent, silent, wire, buf, round, op, want, timeout, cancelled, took, skips>>

\* should_die at the peer.
PeerSkipsJob ==
  /\ out = <<>>
  /\ sent % max_rounds = 0
  /\ Released
  /\ silent' = silent \cup (sent..(sent + max_rounds - 1))
  /\ sent' = sent + max_rounds
  /\ UNCHANGED <<out, wire, buf, round, op, want, timeout, cancelled, took, history>>

-----------------------------------------------------------------------------
(* The reader.                                                             *)

\* Variant: reads are cancelled once, when the timer fires.
CancelOnce(waiting) == cancelled' = FALSE

\* After a handler that leaves a read waiting for the socket the loop cancels
\* it if the timer has fired.  A read that finds data does not wait.
CancelIfLate(waiting) == cancelled' = (timeout /\ waiting)

\* read_some of either read: async_read_until takes what is there, async_read
\* no more than it wants.
ReadSome(n) ==
  /\ ~ cancelled
  /\ ~ Complete
  /\ n <= Len(wire)
  /\ op = "exact" => n <= want
  /\ buf' = buf \o SubSeq(wire, 1, n)
  /\ wire' = SubSeq(wire, n + 1, Len(wire))
  /\ want' = IF op = "exact" THEN want - n ELSE want
  /\ UNCHANGED <<peerVars, round, op, timeout, took, history>>
  /\ CancelIfLate(n = Len(wire) /\ ~ Complete')

\* len - server_buffer.size() in size_t: more than len in the buffer asks for
\* nearly 2^64 bytes.
Start(b) ==
  /\ op' = "exact"
  /\ buf' = b
  /\ want' = (len(round) - Len(b)) % WordSize
  /\ CancelIfLate(want' > 0 /\ wire = <<>>)

\* Variants: skip to the last delimiter; leave the delimiter in the buffer.
UntilLast ==
  /\ op = "until"
  /\ Found
  /\ LET n == CHOOSE i \in DOMAIN buf :
                buf[i] = delim /\ \A j \in (i + 1)..Len(buf) : buf[j] # delim
     IN  Start(SubSeq(buf, n + 1, Len(buf)))
  /\ UNCHANGED <<peerVars, wire, round, timeout, took, history>>

UntilUnconsumed ==
  /\ op = "until"
  /\ Found
  /\ Start(buf)
  /\ UNCHANGED <<peerVars, wire, round, timeout, took, history>>

\* The handler of async_read_until: the delimiter was found.
UntilFound ==
  /\ op = "until"
  /\ Found
  /\ LET n == CHOOSE i \in DOMAIN buf :
                buf[i] = delim /\ \A j \in 1..(i - 1) : buf[j] # delim
     IN  Start(SubSeq(buf, n + 1, Len(buf)))
  /\ UNCHANGED <<peerVars, wire, round, timeout, took, history>>

\* The same handler after a cancellation: it ignores the error and starts the
\* second read, with nothing consumed.
UntilCancelled ==
  /\ op = "until"
  /\ cancelled
  /\ Start(buf)
  /\ UNCHANGED <<peerVars, wire, round, timeout, took, history>>

\* Variant: everything in the buffer.
ExactHandlerAll ==
  /\ op = "exact"
  /\ want = 0 \/ cancelled
  /\ took' = buf
  /\ buf' = <<>>
  /\ op' = "off"
  /\ want' = 0
  /\ cancelled' = FALSE
  /\ UNCHANGED <<peerVars, wire, round, timeout, history>>

\* The handler of async_read, complete or cancelled: sgetn moves what is in the
\* buffer into the receive buffers of the tree, as far as it goes.
ExactHandler ==
  /\ op = "exact"
  /\ want = 0 \/ cancelled
  /\ LET n == IF Len(buf) < len(round) THEN Len(buf) ELSE len(round) IN
     /\ took' = SubSeq(buf, 1, n)
     /\ buf' = SubSeq(buf, n + 1, Len(buf))
  /\ op' = "off"
  /\ want' = 0
  /\ cancelled' = FALSE
  /\ UNCHANGED <<peerVars, wire, round, timeout, history>>

\* The read is cut short although the peer takes part in the job: not just a
\* read for more than a whole message that is already in the buffer.
Slips == round \notin silent /\ ~ (op = "exact" /\ Len(buf) >= len(round))

\* The timer of the round.
TimerFires ==
  /\ ~ timeout
  /\ ~ Complete
  /\ Slips => slips < MaxSlips
  /\ timeout' = TRUE
  /\ cancelled' = TRUE
  /\ slips' = IF Slips THEN slips + 1 ELSE slips
  /\ lastSlip' = IF Slips THEN round ELSE lastSlip
  /\ UNCHANGED <<peerVars, wire, buf, round, op, want, took, skips>>

\* All reads are done: the next round, in this job or the next.
NextRound(r) ==
  /\ op = "off"
  /\ r <= LastRound
  /\ round' = r
  /\ op' = "until"
  /\ timeout' = FALSE
  /\ took' = <<>>
  /\ UNCHANGED <<peerVars, wire, buf, want, cancelled, slips, lastSlip>>

Advance == NextRound(round + 1) /\ UNCHANGED skips

\* should_die: a job is skipped and nothing is read.
SkipJob ==
  /\ (round + 1) % max_rounds = 0
  /\ skips < MaxSkips
  /\ NextRound(round + 1 + max_rounds)
  /\ skips' = skips + 1

Read == \E n \in 1..Len(wire) : ReadSome(n)

Finished == op = "off" /\ round >= LastRound - max_rounds /\ UNCHANGED vars

Next ==
  \/ PeerSend
  \/ \E n \in 1..Len(out) : PeerWrite(n)
  \/ PeerGivesUp
  \/ PeerSkipsJob
  \/ Read
  \/ UntilFound
  \/ UntilCancelled
  \/ ExactHandler
  \/ TimerFires
  \/ Advance
  \/ SkipJob
  \/ Finished

Spec == Init /\ [][Next]_vars

\* The thread runs its handlers and its timer; nothing is assumed of the peer.
FairSpec ==
  Spec /\ WF_vars(UntilFound) /\ WF_vars(UntilCancelled) /\ WF_vars(ExactHandler)
       /\ WF_vars(TimerFires) /\ WF_vars(Read)

-----------------------------------------------------------------------------
(* Properties.                                                             *)

Token == {delim} \cup UNION {{<<r, i>> : i \in 1..len(r)} : r \in 0..(LastRound + max_rounds)}

\* Type invariant: the buffers hold delimiters and nodes that were sent, and the
\* handler of async_read never takes more than the receive buffers have room for.
TypeOK ==
  /\ sent \in 0..(LastRound + max_rounds)
  /\ silent \subseteq 0..(LastRound + max_rounds)
  /\ round \in 0..LastRound
  /\ op \in {"until", "exact", "off"}
  /\ want \in 0..(WordSize - 1)
  /\ timeout \in BOOLEAN /\ cancelled \in BOOLEAN
  /\ \A s \in {out, wire, buf, took} : Range(s) \subseteq Token
  /\ Len(took) <= len(round)

\* As long as no read is cut short, a round takes exactly the message of that
\* round, in spite of partial reads, of reads past the end of the message when
\* the peer is ahead, and of the request for nearly 2^64 bytes that this leads
\* to; from a peer that skips the job it takes nothing.
InStep ==
  op = "off" /\ slips = 0 /\ skips = 0 =>
    took = IF round \in silent THEN <<>> ELSE nodes(round)

\* A reader that skips a job (should_die) finds its messages in the socket when
\* it is back: from then on it takes, in every round, the message of the same
\* round that many jobs ago, and never catches up.
JobsBehind ==
  op = "off" /\ slips = 0 /\ silent = {} /\ round >= max_rounds * skips /\ skips > 0 =>
    took = nodes(round - max_rounds * skips)

\* However late, cut short or skipped messages are, and however the reader goes
\* out of step, it never takes what the peer sent for a later round.
NeverAhead ==
  \A i \in DOMAIN took : took[i] = delim \/ took[i][1] <= round

\* A single message that is late or cut puts the reader out of step (it takes
\* old nodes, and even the delimiter, for those of the round) for max_rounds
\* rounds at most: levels differ in length and the delimiter is searched again.
Recovers ==
  op = "off" /\ slips = 1 /\ skips = 0 /\ silent = {} /\ round > lastSlip + max_rounds =>
    took = nodes(round)

\* Every round ends, whatever the peer does: the second read, which is started
\* even when the first was cancelled, is cancelled too.
RoundEnds == (op = "until") ~> (op = "off")

=============================================================================
