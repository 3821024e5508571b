---------------------------- MODULE ControlStream ----------------------------
(***************************************************************************)
(* Reading the answers of tmux (src/tmux/control.rs).  A control stream is *)
(* a sequence of blocks, one for each command that ran; the commands of    *)
(* the user's hooks have blocks of their own.  Notifications between       *)
(* blocks only go to a queue that nothing in the program reads, and are    *)
(* left out.                                                               *)
(*                                                                         *)
(* A block is what kind of lines it has, whether tmux ended it with %end   *)
(* or %error, and the flags of its header: 0 for a command that this       *)
(* client did not send.  In a one-shot client every block has flags 0.     *)
(*                                                                         *)
(* A definition named Faulty... is one that follows it with a mistake,     *)
(* used only to show that the properties can fail.                         *)
(***************************************************************************)
EXTENDS Ordering, SequencesExt

\* ControlClient::execute_blocks for one command: the first block that answers this
\* client, whatever the hooks of earlier commands have left before it.
FaultyReply(stream) == Head(stream)
Reply(stream) == stream[SelectInSeq(stream, LAMBDA b : b.flags # 0)]

\* parse_one_shot_output: every block that ended well, in order.
GoodBlocks(stream) == Picked(stream, {k \in DOMAIN stream : stream[k].ok})

\* CommandRunner::execute_blocks.  A stream that ends without %exit means that the
\* server is gone.  An error block is overlooked once there are as many good blocks
\* as commands: nothing tells whose it is.
OneShot(stream, exited, commands) ==
    CASE ~exited -> "unavailable"
      [] Len(GoodBlocks(stream)) < commands -> "failed"
      [] OTHER -> "ok"

\* The first block after position k whose lines are all records of this kind, 0 for none.
BlockAfter(blocks, k, kind) ==
    LET found == {j \in DOMAIN blocks : j > k /\ blocks[j].kind = kind}
    IN  IF found = {} THEN 0 ELSE Min(found)

\* select_capture_blocks: sessions, windows, panes and metadata in this order, each
\* looked for after the one before it, then the clients.  An empty block stands for a
\* list of no clients, unless a block of clients follows somewhere.
FaultySelected(blocks) ==
    LET s == BlockAfter(blocks, 0, "S")
        w == BlockAfter(blocks, s, "W")
        p == BlockAfter(blocks, w, "P")
        m == BlockAfter(blocks, p, "M")
    IN  <<s, w, p, m, IF m < Len(blocks) THEN m + 1 ELSE 0>>
Selected(blocks) ==
    LET s == BlockAfter(blocks, 0, "S")
        w == BlockAfter(blocks, s, "W")
        p == BlockAfter(blocks, w, "P")
        m == BlockAfter(blocks, p, "M")
        c == BlockAfter(blocks, m, "C")
    IN  <<s, w, p, m, IF c # 0 THEN c ELSE BlockAfter(blocks, m, "empty")>>
=============================================================================
