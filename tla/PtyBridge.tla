----------------------------- MODULE PtyBridge ------------------------------
(***************************************************************************)
(* How a connection comes up through "flit pty-bridge"                     *)
(* (cmd_pty_bridge.go): Emacs' handshake state machine (flit.el), the      *)
(* bridge, and, on the other side of its PTY, ssh and the remote script,   *)
(* which asks for passwords, receives the binary, and becomes the server.  *)
(*                                                                         *)
(* A read of a PTY or a pipe may end anywhere.  What the remote side       *)
(* prints is a sequence of pieces; every message is two of them, cut at    *)
(* the worst place, and a read takes any number of pieces.                 *)
(***************************************************************************)
EXTENDS Naturals, Sequences

CONSTANTS
    MaxPrompts,   \* bound: passwords that ssh asks for
    Binary,       \* pieces of the binary that is deployed
    MaxFrames     \* bound: frames sent in each direction once connected

ASSUME PtyBridgeAssumption ==
    MaxPrompts \in Nat /\ Binary \in Nat \ {0} /\ MaxFrames \in Nat

VARIABLES
    remote,    \* how far ssh and the script have come
    prompts,   \* prompts printed
    raw,       \* the remote terminal is in raw mode
    sent,      \* frames the server has sent
    out,       \* pieces printed and not read by the bridge
    in,        \* what was written to the PTY and not read
    bridge,    \* what the bridge's main goroutine does
    pending,   \* pieces it has read since pending was reset
    copied,    \* pieces of the binary it has passed on
    ptmx,      \* the PTY master is open
    cleaner,   \* cleanupPty of the main goroutine and of the signal handler
    reaped,    \* the child has been waited for
    up, down,  \* the pipes from and to Emacs
    client,    \* Emacs' handshake state
    asking,    \* the question it is waiting on, inside the filter
    result,    \* what the callback was last told
    rpc        \* frames that flitrpc has been given

ptyVars == <<remote, prompts, raw, sent, out, in, bridge, pending, copied, ptmx,
             cleaner, reaped, up, down, client, asking, result, rpc>>
remoteVars == <<remote, prompts, raw, sent>>
cleanVars  == <<cleaner, reaped>>
bridgeVars == <<bridge, pending, copied, ptmx, cleanVars>>
clientVars == <<client, asking, result, rpc>>

\* The two pieces of a message; a frame is one piece.
Pieces(m) == <<<<m, 1>>, <<m, 2>>>>
Whole(s, m) == \E i \in 1..(Len(s) - 1) : SubSeq(s, i, i + 1) = Pieces(m)
-----------------------------------------------------------------------------
(* ssh and the remote script *)

Emit(s) == out' = out \o s

\* ssh asks for a password ...
Prompt ==
    /\ remote = "auth" /\ prompts < MaxPrompts
    /\ remote' = "asked" /\ prompts' = prompts + 1
    /\ Emit(Pieces("prompt"))
    /\ UNCHANGED <<raw, sent, in, bridgeVars, up, down, clientVars>>

\* ... and reads it; a wrong one is asked for again.
ReadPassword ==
    /\ remote = "asked" /\ in # <<>>
    /\ remote' = "auth" /\ in' = Tail(in)
    /\ UNCHANGED <<prompts, raw, sent, out, bridgeVars, up, down, clientVars>>

\* The script starts; the terminal may have printed an escape sequence before.
\* flit is there, or the script says that it is not.
Script ==
    /\ remote = "auth"
    /\ \E junk \in {<<>>, <<<<"osc", 1>>>>} :
          \/ /\ remote' = "exec"
             /\ Emit(junk)
          \/ /\ remote' = "size"
             /\ Emit(junk \o Pieces("not_found"))
    /\ UNCHANGED <<prompts, raw, sent, in, bridgeVars, up, down, clientVars>>

\* read DEPLOY_SIZE; stty raw -echo
ReadSize ==
    /\ remote = "size" /\ in # <<>>
    /\ remote' = "raw" /\ in' = Tail(in) /\ raw' = TRUE
    /\ UNCHANGED <<prompts, sent, out, bridgeVars, up, down, clientVars>>

\* printf deploy_ready
DeployReady ==
    /\ remote = "raw"
    /\ remote' = "head"
    /\ Emit(Pieces("deploy_ready"))
    /\ UNCHANGED <<prompts, raw, sent, in, bridgeVars, up, down, clientVars>>

\* head -c DEPLOY_SIZE; stty sane
Head_c ==
    /\ remote = "head" /\ Len(in) >= Binary
    /\ in' = SubSeq(in, Binary + 1, Len(in))
    /\ remote' = "exec" /\ raw' = FALSE
    /\ UNCHANGED <<prompts, sent, out, bridgeVars, up, down, clientVars>>

\* stty raw -echo && exec flit server --stdio, which says that it is ready; or
\* the script was there to deploy only.
Exec ==
    /\ remote = "exec"
    /\ \/ remote' = "serve" /\ raw' = TRUE /\ Emit(Pieces("ready"))
       \/ remote' = "exited" /\ UNCHANGED raw /\ Emit(Pieces("deploy_done"))
    /\ UNCHANGED <<prompts, sent, in, bridgeVars, up, down, clientVars>>

\* The server sends and reads frames.
SendFrame ==
    /\ remote = "serve" /\ sent < MaxFrames
    /\ sent' = sent + 1
    /\ Emit(<<<<"frame", sent + 1>>>>)
    /\ UNCHANGED <<remote, prompts, raw, in, bridgeVars, up, down, clientVars>>

ReadFrame ==
    /\ remote = "serve" /\ in # <<>>
    /\ in' = Tail(in)
    /\ UNCHANGED <<remoteVars, out, bridgeVars, up, down, clientVars>>

\* ssh fails, or the connection is lost, or the terminal is gone.
RemoteExits ==
    /\ remote # "exited"
    /\ remote' = "exited"
    /\ UNCHANGED <<prompts, raw, sent, out, in, bridgeVars, up, down,
                   clientVars>>
-----------------------------------------------------------------------------
(* The bridge *)

Running == bridge \notin {"exited", "killed"}
Cleaners == {"main", "signal"}
Write(item) == in' = Append(in, <<item, raw>>)

\* ptmx.Read returns n pieces.
Reads(n) == /\ ptmx /\ n \in 1..Len(out)
            /\ out' = SubSeq(out, n + 1, Len(out))

\* Mutant: the lines are looked at one read at a time.
ReadAuth_NoPending(n) ==
    /\ bridge = "auth" /\ Reads(n)
    /\ LET chunk == SubSeq(out, 1, n)
       IN  IF Whole(chunk, "prompt")
           THEN bridge' = "password" /\ down' = Append(down, <<"prompt", 0>>)
           ELSE IF Whole(chunk, "ready")
           THEN bridge' = "copy" /\ down' = down \o Pieces("ready")
           ELSE IF Whole(chunk, "not_found")
           THEN bridge' = "deploy" /\ down' = Append(down, <<"not_found", 0>>)
           ELSE UNCHANGED <<bridge, down>>
    /\ UNCHANGED <<remoteVars, in, pending, copied, ptmx, cleanVars, up,
                   clientVars>>

\* handleAuthAndWaitForReady: a prompt is looked for in this read, the signals
\* in everything since the last reset.
ReadAuth(n) ==
    /\ bridge = "auth" /\ Reads(n)
    /\ LET chunk == SubSeq(out, 1, n)
           all   == pending \o chunk
       IN  \/ /\ Whole(chunk, "prompt")
              /\ bridge' = "password" /\ pending' = <<>>
              /\ down' = Append(down, <<"prompt", 0>>)
           \/ /\ ~Whole(chunk, "prompt")
              /\ Whole(all, "ready") \/ Whole(all, "deploy_done")
              /\ bridge' = "copy" /\ pending' = <<>>
              /\ down' = down \o all
           \/ /\ ~Whole(chunk, "prompt") /\ Whole(all, "not_found")
              /\ bridge' = "deploy" /\ pending' = <<>>
              /\ down' = Append(down, <<"not_found", 0>>)
           \/ /\ ~Whole(chunk, "prompt")
              /\ \A m \in {"ready", "deploy_done", "not_found"} : ~Whole(all, m)
              /\ pending' = all
              /\ UNCHANGED <<bridge, down>>
    /\ UNCHANGED <<remoteVars, in, copied, ptmx, cleanVars, up, clientVars>>

\* The rest of handlePasswordPrompt: the answer of Emacs goes to the PTY, and
\* is lost when that is closed.
PassPassword ==
    /\ bridge = "password" /\ up # <<>>
    /\ IF Head(up) = "password"
       THEN bridge' = "auth" /\ IF ptmx THEN Write("password") ELSE UNCHANGED in
       ELSE bridge' = "cleanup" /\ UNCHANGED in
    /\ up' = Tail(up)
    /\ UNCHANGED <<remoteVars, out, pending, copied, ptmx, cleanVars, down,
                   clientVars>>

\* Mutant: the binary follows the size at once.
PassSize_NoWait ==
    /\ bridge = "deploy" /\ up # <<>>
    /\ bridge' = "transfer" /\ copied' = 0 /\ Write("size")
    /\ up' = Tail(up)
    /\ UNCHANGED <<remoteVars, out, pending, ptmx, cleanVars, down, clientVars>>

\* handleDeploy: the size goes to the PTY ...
PassSize ==
    /\ bridge = "deploy" /\ up # <<>>
    /\ IF Head(up) = "deploy" /\ ptmx
       THEN bridge' = "wait" /\ Write("size")
       ELSE bridge' = "cleanup" /\ UNCHANGED in
    /\ up' = Tail(up)
    /\ UNCHANGED <<remoteVars, out, pending, copied, ptmx, cleanVars, down,
                   clientVars>>

\* ... deploy_ready is waited for, in each read on its own ...
WaitReady(n) ==
    /\ bridge = "wait" /\ Reads(n)
    /\ IF Whole(SubSeq(out, 1, n), "deploy_ready")
       THEN bridge' = "transfer" /\ copied' = 0
       ELSE UNCHANGED <<bridge, copied>>
    /\ UNCHANGED <<remoteVars, in, pending, ptmx, cleanVars, up, down,
                   clientVars>>

\* ... and the binary is copied.
Transfer ==
    /\ bridge = "transfer" /\ ptmx /\ up # <<>>
    /\ up' = Tail(up) /\ Write(Head(up))
    /\ copied' = copied + 1
    /\ bridge' = IF copied + 1 = Binary THEN "auth" ELSE bridge
    /\ UNCHANGED <<remoteVars, out, pending, ptmx, cleanVars, down, clientVars>>

\* The two copying goroutines of runBridge.
CopyUp ==
    /\ bridge = "copy" /\ ptmx /\ up # <<>>
    /\ up' = Tail(up) /\ Write(Head(up))
    /\ UNCHANGED <<remoteVars, out, bridgeVars, down, clientVars>>

CopyDown ==
    /\ bridge = "copy" /\ Reads(1)
    /\ down' = Append(down, Head(out))
    /\ UNCHANGED <<remoteVars, in, bridgeVars, up, clientVars>>

\* A read or write of the PTY fails: everything ends in cleanupPty.
PtyFails ==
    /\ bridge \in {"auth", "wait", "transfer", "copy"}
    /\ ~ptmx \/ (remote = "exited" /\ out = <<>>)
    /\ bridge' = "cleanup" /\ ptmx' = FALSE
    /\ UNCHANGED <<remoteVars, out, in, pending, copied, cleanVars, up, down,
                   clientVars>>

\* cleanupPty closes the PTY (the Ctrl-D before that is left out: the terminal
\* is hung up with it) ...
StartsCleanup(g) ==
    /\ cleaner[g] = "no"
    /\ cleaner' = [cleaner EXCEPT ![g] = "term"] /\ ptmx' = FALSE
    /\ UNCHANGED <<remoteVars, out, in, bridge, pending, copied, reaped, up, down,
                   clientVars>>

\* ... in the goroutine that got SIGTERM, SIGINT or SIGHUP, or deferred by
\* runBridge, perhaps both ...
Signal      == Running /\ StartsCleanup("signal")
MainCleanup == bridge = "cleanup" /\ StartsCleanup("main")

\* Mutant: the exit of the child is not waited for.
Terminate_NoWait(g) ==
    /\ Running /\ cleaner[g] = "term"
    /\ cleaner' = [cleaner EXCEPT ![g] = "returned"]
    /\ UNCHANGED <<remoteVars, out, in, bridge, pending, copied, ptmx, reaped, up,
                   down, clientVars>>

\* ... sends SIGTERM (what the child makes of it is RemoteExits), which fails
\* once the child has been waited for: it returns after a Kill ...
Terminate(g) ==
    /\ Running /\ cleaner[g] = "term"
    /\ cleaner' = [cleaner EXCEPT ![g] = IF reaped THEN "returned" ELSE "wait"]
    /\ UNCHANGED <<remoteVars, out, in, bridge, pending, copied, ptmx, reaped, up,
                   down, clientVars>>

\* ... kills it after 500 ms ...
KillChild(g) ==
    /\ Running /\ cleaner[g] = "wait" /\ remote # "exited"
    /\ remote' = "exited"
    /\ UNCHANGED <<prompts, raw, sent, out, in, bridgeVars, up, down, clientVars>>

\* ... and waits for it.  Process.Wait returns to both that wait, to one of
\* them with an error.
Reap ==
    /\ Running /\ \E g \in Cleaners : cleaner[g] = "wait"
    /\ remote = "exited" /\ ~reaped
    /\ reaped' = TRUE
    /\ UNCHANGED <<remoteVars, out, in, bridge, pending, copied, ptmx, cleaner, up,
                   down, clientVars>>

Waited(g) ==
    /\ Running /\ cleaner[g] = "wait" /\ reaped
    /\ cleaner' = [cleaner EXCEPT ![g] = "returned"]
    /\ UNCHANGED <<remoteVars, out, in, bridge, pending, copied, ptmx, reaped, up,
                   down, clientVars>>

\* The process exits when one of them has returned: main, or os.Exit.
Exit ==
    /\ Running /\ \E g \in Cleaners : cleaner[g] = "returned"
    /\ bridge' = "exited"
    /\ UNCHANGED <<remoteVars, out, in, pending, copied, ptmx, cleanVars, up, down,
                   clientVars>>

Cleanup == \/ Signal \/ MainCleanup \/ Reap \/ Exit
           \/ \E g \in Cleaners : Terminate(g) \/ KillChild(g) \/ Waited(g)
-----------------------------------------------------------------------------
(* Emacs *)

\* The handshake is over: flit--sm-complete and flit--sm-fail, which deletes
\* the process (SIGKILL).
Complete == client' = "done" /\ result' = "ok" /\ UNCHANGED <<bridge, ptmx>>
Fail     == /\ client' = "failed" /\ result' = "failed"
            /\ bridge' = (IF Running THEN "killed" ELSE bridge) /\ ptmx' = FALSE

InFilter == asking # "none"

\* flit--sm-filter takes one line and gives it to the handler of the state.  A
\* line that begins with an OSC sequence is not understood.
LineLength ==
    IF Head(down)[2] = 0 THEN 1
    ELSE IF Head(down)[1] = "osc" THEN 3
    ELSE IF Head(down)[1] = "frame" THEN 1 ELSE 2

Understood(what) ==
    \/ what \in {"ready", "deploy_done"}
    \/ what \in {"prompt", "not_found"} /\ client = "waiting"

Line ==
    /\ client \in {"waiting", "deploying"} /\ ~InFilter
    /\ down # <<>> /\ LineLength <= Len(down)
    /\ down' = SubSeq(down, LineLength + 1, Len(down))
    /\ LET what == Head(down)[1]
       IN  \/ /\ what \in {"ready", "deploy_done"}
              /\ Complete /\ UNCHANGED asking
           \/ /\ what \in {"prompt", "not_found"} /\ client = "waiting"
              /\ asking' = what
              /\ client' = IF what = "prompt" THEN client ELSE "deploying"
              /\ UNCHANGED <<result, bridge, ptmx>>
           \/ /\ ~Understood(what)
              /\ UNCHANGED <<client, asking, result, bridge, ptmx>>
    /\ UNCHANGED <<remoteVars, out, in, pending, copied, cleanVars, up, rpc>>

\* The user answers, in the filter; the handshake may have ended meanwhile.
\* Sending to a process that is gone is an error.
Answer ==
    /\ InFilter /\ asking' = "none"
    /\ IF client # "failed" /\ Running
       THEN /\ up' = IF asking = "prompt" THEN Append(up, "password")
                     ELSE Append(up, "deploy") \o [i \in 1..Binary |-> "binary"]
            /\ UNCHANGED <<client, result, bridge, ptmx>>
       ELSE UNCHANGED up /\ Fail
    /\ UNCHANGED <<remoteVars, out, in, pending, copied, cleanVars, down, rpc>>

Decline ==
    /\ InFilter /\ asking' = "none"
    /\ Fail
    /\ UNCHANGED <<remoteVars, out, in, pending, copied, cleanVars, up, down,
                   rpc>>

\* Mutant: the timer outlives the handshake.
Timeout_Always ==
    /\ client # "failed"
    /\ Fail
    /\ UNCHANGED <<remoteVars, out, in, pending, copied, cleanVars, up, down,
                   asking, rpc>>

\* The timer of flit--sm-start, or the sentinel: the process ended.  Both can
\* run while a question is open.
Timeout ==
    /\ client \in {"waiting", "deploying"}
    /\ Fail
    /\ UNCHANGED <<remoteVars, out, in, pending, copied, cleanVars, up, down,
                   asking, rpc>>

\* flitrpc sends ...
SendRpc ==
    /\ client = "done" /\ Len(up) + Len(in) < MaxFrames
    /\ up' = Append(up, "rpc")
    /\ UNCHANGED <<remoteVars, out, in, bridgeVars, down, clientVars>>

\* ... and is given what follows the line that ended the handshake.
ReceiveRpc ==
    /\ client = "done" /\ down # <<>>
    /\ down' = Tail(down) /\ rpc' = Append(rpc, Head(down))
    /\ UNCHANGED <<remoteVars, out, in, bridgeVars, up, client, asking, result>>
-----------------------------------------------------------------------------
PtyInit ==
    /\ remote = "auth" /\ prompts = 0 /\ raw = FALSE /\ sent = 0
    /\ out = <<>> /\ in = <<>> /\ up = <<>> /\ down = <<>>
    /\ bridge = "auth" /\ pending = <<>> /\ copied = 0
    /\ ptmx = TRUE /\ cleaner = [g \in Cleaners |-> "no"] /\ reaped = FALSE
    /\ client = "waiting" /\ asking = "none" /\ result = "none" /\ rpc = <<>>

Remote == Prompt \/ ReadPassword \/ Script \/ ReadSize \/ DeployReady \/ Head_c
             \/ Exec \/ SendFrame \/ ReadFrame \/ RemoteExits
Bridge == \/ \E n \in 1..Len(out) : ReadAuth(n) \/ WaitReady(n)
          \/ PassPassword \/ PassSize \/ Transfer \/ CopyUp \/ CopyDown
          \/ PtyFails \/ Cleanup
Emacs == Line \/ Answer \/ Decline \/ Timeout \/ SendRpc \/ ReceiveRpc

PtyNext == Remote \/ Bridge \/ Emacs

PtySpec == PtyInit /\ [][PtyNext]_ptyVars
-----------------------------------------------------------------------------
(* Properties *)

\* The types of the variables.
PtyTypeOK ==
    /\ remote \in {"auth", "asked", "size", "raw", "head", "exec", "serve", "exited"}
    /\ prompts \in 0..MaxPrompts /\ sent \in 0..MaxFrames /\ copied \in 0..Binary
    /\ raw \in BOOLEAN /\ ptmx \in BOOLEAN /\ reaped \in BOOLEAN
    /\ cleaner \in [Cleaners -> {"no", "term", "wait", "returned"}]
    /\ bridge \in {"auth", "password", "deploy", "wait", "transfer", "copy",
                   "cleanup", "exited", "killed"}
    /\ client \in {"waiting", "deploying", "done", "failed"}
    /\ asking \in {"none", "prompt", "not_found"}
    /\ result \in {"none", "ok", "failed"}

\* What is written to the PTY finds the reader it is meant for, and the binary
\* finds the terminal raw: a password goes to ssh, the size and the binary to
\* the script, frames to the server.
RightReader ==
    remote # "exited" =>
      \A i \in 1..Len(in) :
         /\ in[i][1] = "password" => remote = "asked" /\ i = 1
         /\ in[i][1] = "size"     => remote = "size" /\ i = 1
         /\ in[i][1] = "binary"   => remote = "head" /\ in[i][2] /\ i <= Binary
         /\ in[i][1] = "rpc"      => remote = "serve"

\* flitrpc is given the server's frames from the first one on, in order, and
\* nothing of the handshake: also those that were read together with the line
\* that ended it.  (The comment at flit.el:1464-1466 says that these are
\* discarded, as corrupted by the UTF-8 coding of the handshake; but the coding
\* is binary, flit.el:1521, and flit--sm-filter hands them on, 1790-1794.)
FramesInOrder ==
    \A i \in 1..Len(rpc) : rpc[i] = <<"frame", i>>

\* A handshake that succeeded does not fail afterwards: the timer and the
\* sentinel of the state machine are gone.
SuccessIsFinal == [][result = "ok" => result' = "ok"]_ptyVars

\* The bridge does not exit before its child has and has been waited for,
\* whichever goroutine cleans up, or both.
ChildEndsFirst == bridge = "exited" => remote = "exited" /\ reaped
=============================================================================
