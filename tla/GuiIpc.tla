------------------------------- MODULE GuiIpc -------------------------------
(***************************************************************************)
(* The link between the library and its GUI: the launch of the GUI process *)
(* (imgui_start), the two stream connections it opens (gui_fd for the log  *)
(* messages, data_fd for the models), the transfer of a model             *)
(* (ipc_send_mdl) and the GUI's single thread, which serves every client   *)
(* in turn (ipc_pool_process, gui_ipc_handle_client, newmodel, newempdag). *)
(*                                                                         *)
(* Two processes run concurrently.  A stream is a sequence of units: what  *)
(* one `write' of the library puts into it.  A model is a record           *)
(*   [id, dag, mps, nashs]                                                 *)
(* with its identifier, whether it has an EMPDAG, and the numbers of its   *)
(* MPs and Nash nodes.                                                     *)
(***************************************************************************)
EXTENDS Naturals, Sequences, SequencesExt, FiniteSets

CONSTANTS
    Models,    \* models the program may send
    MpMax,     \* MathPrgmGuiMax, NashGuiMax: most nodes put into one message
    BufMax,    \* most nodes whose message fits the buffer of the GUI's reads
    LogCap,    \* units the log stream holds before a write is refused
    MaxStarts, \* bound: calls of imgui_start
    MaxSends,  \* bound: calls of ipc_send_mdl
    MaxLogs    \* bound: log messages

ASSUME BoundsAssumption ==
    /\ MpMax \in Nat \ {0} /\ BufMax \in Nat \ {0} /\ LogCap \in Nat \ {0}
    /\ MaxStarts \in Nat /\ MaxSends \in Nat /\ MaxLogs \in Nat
    /\ Models \subseteq [id : Nat, dag : BOOLEAN, mps : Nat, nashs : Nat]

VARIABLES
    lib,      \* where the library's thread is
    fds,      \* its valid descriptors: gui_fd is "log", data_fd is "data"
    logging,  \* log_fd has been set
    job,      \* the model being sent, or sent last
    k,        \* index of its message being sent
    rc,       \* what the last call returned
    sig,      \* SIGUSR1 is pending
    gui,      \* life of the GUI process
    backlog,  \* connections that wait for accept
    clients,  \* polldat: accepted connections, in the order of their slots
    turn,     \* clients still to be served in this turn of the loop
    ph,       \* where gui_ipc_handle_client is with Head(turn)
    cnt,      \* names newempdag still expects
    blocking, \* connections whose descriptor in the GUI is blocking
    up,       \* units on their way to the GUI
    down,     \* answers on their way to the library
    closed,   \* connections the GUI has closed
    models,   \* the GUI's models
    dropped,  \* history: the body of a log message was refused
    uses      \* history: calls made so far

libvars == <<lib, fds, logging, job, k, rc>>
guivars == <<gui, sig, backlog, clients, turn, ph, cnt, blocking, closed, models>>
vars == <<libvars, guivars, up, down, dropped, uses>>

Conns == {"log", "data"}
NoModel == [id |-> 0, dag |-> FALSE, mps |-> 0, nashs |-> 0]

-----------------------------------------------------------------------------
\* The connections of the list s that are in S, in the order of s.
Those(s, S) ==
    LET upto[n \in 0..Len(s)] == IF n = 0 THEN <<>>
                                 ELSE IF s[n] \in S THEN Append(upto[n - 1], s[n])
                                 ELSE upto[n - 1]
    IN  upto[Len(s)]

(***************************************************************************)
(* What ipc_send_mdl writes for a model, message by message.               *)
(***************************************************************************)

Msg(t) == [type |-> t, n |-> 0]

\* The chunks of n nodes: full ones as long as more follow, then the last.
\* The MPs are sent in a do-while loop, so no MP still makes one chunk.
Chunks(n, data, dataend) ==
    LET last == IF n = 0 THEN 0 ELSE (n - 1) \div MpMax
    IN  [i \in 1..(last + 1) |->
            IF i <= last THEN [type |-> data, n |-> MpMax]
                         ELSE [type |-> dataend, n |-> n - last * MpMax]]

\* Mutant: no chunk is sent when there is no MP.
EmpDagScript_While(m) ==
    <<Msg("NewEmpDagStart")>>
      \o (IF m.mps > 0 THEN Chunks(m.mps, "MathPrgmGuiData", "MathPrgmGuiDataEnd")
                       ELSE <<>>)
      \o [i \in 1..m.mps |-> Msg("MathPrgmGuiName")]
      \o (IF m.nashs > 0 THEN Chunks(m.nashs, "NashGuiData", "NashGuiDataEnd")
                         ELSE <<>>)

EmpDagScript(m) ==
    <<Msg("NewEmpDagStart")>>
      \o Chunks(m.mps, "MathPrgmGuiData", "MathPrgmGuiDataEnd")
      \o [i \in 1..m.mps |-> Msg("MathPrgmGuiName")]
      \o (IF m.nashs > 0 THEN Chunks(m.nashs, "NashGuiData", "NashGuiDataEnd")
                         ELSE <<>>)

Script(m) ==
    <<Msg("NewModelStart"), Msg("NewModelName")>>
      \o (IF m.dag THEN EmpDagScript(m) ELSE <<>>)
      \o <<Msg("NewModelEnd")>>

\* The units one message makes for reads of the size of the buffer.
Units(msg) == IF msg.n > BufMax THEN <<msg, Msg("Tail")>> ELSE <<msg>>

\* The answer the library waits for after its message number i.
Answer(i) == IF i = 1 THEN "GuiAckReq" ELSE "GuiAck"

-----------------------------------------------------------------------------
(***************************************************************************)
(* The library.                                                            *)
(***************************************************************************)

GuiGone == gui \in {"noexec", "dead"}

Return(call, r) == lib' = "idle" /\ rc' = <<call, r>>

\* imgui_start: nothing to do with a valid gui_fd; otherwise SIGUSR1 is
\* blocked and the process forks.
ImguiStart ==
    /\ lib = "idle" /\ uses.starts < MaxStarts
    /\ uses' = [uses EXCEPT !.starts = @ + 1]
    /\ \/ /\ "log" \in fds
          /\ Return("imgui_start", "OK")
          /\ UNCHANGED <<gui, turn, ph, backlog, clients, blocking, closed, models, up, down>>
       \/ /\ "log" \notin fds
          /\ Return("imgui_start", "Error_SystemError")
          /\ UNCHANGED <<gui, turn, ph, backlog, clients, blocking, closed, models, up, down>>
       \/ /\ "log" \notin fds
          /\ lib' = "sigwait" /\ gui' = "exec"
          /\ turn' = <<>> /\ ph' = "header" /\ backlog' = <<>> /\ clients' = <<>>
          /\ blocking' = {} /\ closed' = {} /\ models' = <<>>
          /\ up' = [c \in Conns |-> <<>>] /\ down' = [c \in Conns |-> <<>>]
          /\ UNCHANGED rc
    /\ UNCHANGED <<fds, logging, job, k, sig, cnt, dropped>>

\* The library is woken by the signal of the GUI, or of the child whose
\* execlp failed.
SigWait ==
    /\ lib = "sigwait" /\ sig
    /\ sig' = FALSE /\ lib' = "connect_gui"
    /\ UNCHANGED <<fds, logging, job, k, rc, gui, backlog, clients, turn, ph, cnt,
                   blocking, closed, models, up, down, dropped, uses>>

\* unix_domain_getfd: connect succeeds once the GUI listens.
Connect(c, next) ==
    /\ \/ /\ gui = "loop"
          /\ fds' = fds \cup {c} /\ backlog' = Append(backlog, c)
          /\ next
       \/ /\ gui # "loop"
          /\ Return("imgui_start", "Error_SystemError") /\ UNCHANGED <<fds, logging, backlog>>
    /\ UNCHANGED <<job, k, sig, gui, clients, turn, ph, cnt, blocking, closed,
                   models, up, down, dropped, uses>>

\* unix_domain_client_init, then set_log_fd.
ConnectGui ==
    /\ lib = "connect_gui"
    /\ Connect("log", lib' = "connect_data" /\ UNCHANGED <<rc, logging>>)

ConnectData ==
    /\ lib = "connect_data"
    /\ Connect("data", Return("imgui_start", "OK") /\ logging' = TRUE)

\* A write to a connection whose other end is closed raises SIGPIPE, which
\* ends the process unless its host ignores the signal.
Broken(c) == GuiGone \/ c \in closed

\* Mutant: the text is written although the header was refused.
LogHeader_GoesOn ==
    /\ lib = "idle" /\ logging /\ uses.logs < MaxLogs /\ ~Broken("log")
    /\ uses' = [uses EXCEPT !.logs = @ + 1]
    /\ up' = IF Len(up["log"]) < LogCap
             THEN [up EXCEPT !["log"] = Append(@, Msg("LogMsgSolver"))] ELSE up
    /\ lib' = "logbody"
    /\ UNCHANGED <<fds, logging, job, k, rc, guivars, down, dropped>>

\* print_fd: the header and the text of a message are written one after the
\* other; when a write is refused the message is given up.
LogHeader ==
    /\ lib = "idle" /\ logging /\ uses.logs < MaxLogs
    /\ uses' = [uses EXCEPT !.logs = @ + 1]
    /\ \/ /\ Broken("log") /\ lib' \in {"idle", "gone"} /\ UNCHANGED up
       \/ /\ ~Broken("log") /\ Len(up["log"]) >= LogCap /\ UNCHANGED <<lib, up>>
       \/ /\ ~Broken("log") /\ Len(up["log"]) < LogCap
          /\ up' = [up EXCEPT !["log"] = Append(@, Msg("LogMsgSolver"))]
          /\ lib' = "logbody"
    /\ UNCHANGED <<fds, logging, job, k, rc, guivars, down, dropped>>

LogBody ==
    /\ lib = "logbody"
    /\ \/ /\ Broken("log") /\ lib' \in {"idle", "gone"} /\ UNCHANGED <<up, dropped>>
       \/ /\ ~Broken("log") /\ Len(up["log"]) >= LogCap
          /\ dropped' = TRUE /\ lib' = "idle" /\ UNCHANGED up
       \/ /\ ~Broken("log") /\ Len(up["log"]) < LogCap
          /\ up' = [up EXCEPT !["log"] = Append(@, Msg("Text"))]
          /\ lib' = "idle" /\ UNCHANGED dropped
    /\ UNCHANGED <<fds, logging, job, k, rc, guivars, down, uses>>

\* ipc_send_mdl is called when data_fd is valid.
SendModel ==
    /\ lib = "idle" /\ "data" \in fds /\ uses.sends < MaxSends
    /\ uses' = [uses EXCEPT !.sends = @ + 1]
    /\ \E m \in Models : job' = m
    /\ k' = 1 /\ lib' = "write"
    /\ UNCHANGED <<fds, logging, rc, guivars, up, down, dropped>>

\* Its next write, which blocks no longer than it takes: the buffer is large.
WriteMsg ==
    /\ lib = "write"
    /\ \/ /\ Broken("data")
          /\ \/ Return("ipc_send_mdl", "Error_SystemError")
             \/ lib' = "gone" /\ UNCHANGED rc
          /\ UNCHANGED up
       \/ /\ ~Broken("data")
          /\ up' = [up EXCEPT !["data"] = @ \o Units(Script(job)[k])]
          /\ lib' = "ack" /\ UNCHANGED rc
    /\ UNCHANGED <<fds, logging, job, k, guivars, down, dropped, uses>>

\* guiack, guiackreq: a blocking read of the answer.
ReadAck ==
    /\ lib = "ack"
    /\ \/ /\ down["data"] # <<>>
          /\ down' = [down EXCEPT !["data"] = Tail(@)]
          /\ \/ /\ Head(down["data"]) # Answer(k)
                /\ Return("ipc_send_mdl", "Error_RuntimeError") /\ UNCHANGED k
             \/ /\ Head(down["data"]) = Answer(k) /\ k = Len(Script(job))
                /\ Return("ipc_send_mdl", "OK") /\ UNCHANGED k
             \/ /\ Head(down["data"]) = Answer(k) /\ k < Len(Script(job))
                /\ k' = k + 1 /\ lib' = "write" /\ UNCHANGED rc
       \/ /\ down["data"] = <<>> /\ Broken("data")
          /\ Return("ipc_send_mdl", "Error_RuntimeError") /\ UNCHANGED <<k, down>>
    /\ UNCHANGED <<fds, logging, job, guivars, up, dropped, uses>>

\* The program ends between two calls.
Exit ==
    /\ lib = "idle" /\ lib' = "gone"
    /\ UNCHANGED <<fds, logging, job, k, rc, guivars, up, down, dropped, uses>>

-----------------------------------------------------------------------------
(***************************************************************************)
(* The launch of the GUI process.                                          *)
(***************************************************************************)

\* Mutant: the child that could not run the GUI does not wake its parent.
Exec_Silent ==
    /\ gui = "exec" /\ gui' \in {"init", "noexec"}
    /\ UNCHANGED <<libvars, sig, backlog, clients, turn, ph, cnt, blocking, closed,
                   models, up, down, dropped, uses>>

\* execlp in the child; when it fails the child wakes its parent.
Exec ==
    /\ gui = "exec"
    /\ \/ gui' = "init" /\ UNCHANGED sig
       \/ gui' = "noexec" /\ sig' = TRUE
    /\ UNCHANGED <<libvars, backlog, clients, turn, ph, cnt, blocking, closed, models,
                   up, down, dropped, uses>>

\* main up to server_init_socket: an error before the signal is fatal.
ServerInitSocket ==
    /\ gui = "init"
    /\ \/ gui' = "bound" /\ sig' = TRUE
       \/ gui' = "dead" /\ UNCHANGED sig
    /\ UNCHANGED <<libvars, backlog, clients, turn, ph, cnt, blocking, closed, models,
                   up, down, dropped, uses>>

\* ipc_poll_gui_init: only now a connection is possible.
Listen ==
    /\ gui = "bound" /\ gui' \in {"loop", "dead"}
    /\ UNCHANGED <<libvars, sig, backlog, clients, turn, ph, cnt, blocking, closed,
                   models, up, down, dropped, uses>>

\* The user closes the window between two turns of the loop.
CloseWindow ==
    /\ gui = "loop" /\ turn = <<>> /\ gui' = "dead"
    /\ UNCHANGED <<libvars, sig, backlog, clients, turn, ph, cnt, blocking, closed,
                   models, up, down, dropped, uses>>

-----------------------------------------------------------------------------
(***************************************************************************)
(* The GUI's loop.                                                         *)
(***************************************************************************)

\* A read of the stream does not have to wait: units, or the end of file.
Readable(c) == up[c] # <<>> \/ lib = "gone"

\* Mutant: waiting connections are accepted again in every turn.
Poll_Again ==
    /\ gui = "loop" /\ turn = <<>>
    /\ clients' = clients \o backlog /\ turn' = Those(clients, {c \in Conns : Readable(c)})
    /\ ph' = "header"
    /\ UNCHANGED <<libvars, gui, sig, backlog, cnt, blocking, closed, models, up,
                   down, dropped, uses>>

\* Mutant: only the client accepted last is looked at.
Poll_Last ==
    /\ gui = "loop" /\ turn = <<>>
    /\ clients' = clients \o backlog /\ backlog' = <<>>
    /\ turn' = IF clients' # <<>> THEN <<Last(clients')>> ELSE <<>>
    /\ ph' = "header"
    /\ UNCHANGED <<libvars, gui, sig, cnt, blocking, closed, models, up, down, dropped, uses>>

\* ipc_pool_process up to the clients' messages: poll looks at the accepted
\* connections, then the waiting ones are accepted; their `revents' have not
\* been written by poll and may hold anything.
Poll ==
    /\ gui = "loop" /\ turn = <<>>
    /\ clients' = clients \o backlog /\ backlog' = <<>>
    /\ \E new \in SUBSET ToSet(backlog) :
          turn' = Those(clients', {c \in ToSet(clients) : Readable(c)} \cup new)
    /\ ph' = "header"
    /\ UNCHANGED <<libvars, gui, sig, cnt, blocking, closed, models, up, down, dropped, uses>>

\* A step of gui_ipc_handle_client for the client c: where it goes on, and
\* what it leaves of the streams.
Handling(c) == gui = "loop" /\ turn # <<>> /\ c = Head(turn)

Consume(c) == up' = [up EXCEPT ![c] = Tail(@)]
Reply(c, ans) == down' = [down EXCEPT ![c] = Append(@, ans)]

\* gui_ipc_handle_client returns and the loop goes to the next client.
NextClient == turn' = Tail(turn) /\ ph' = "header"

\* What a step of the handler leaves alone.
HandlerFrame == UNCHANGED <<libvars, gui, sig, backlog, dropped, uses>>

\* Reading a header fails with EAGAIN, or finds the end of file.
NoMore(c) ==
    /\ Handling(c) /\ ph = "header" /\ up[c] = <<>>
    /\ c \notin blocking \/ lib = "gone"
    /\ NextClient
    /\ UNCHANGED <<clients, cnt, blocking, closed, models, up, down>> /\ HandlerFrame

\* The header of a log message.
LogMsgSolver(c) ==
    /\ Handling(c) /\ ph = "header" /\ up[c] # <<>>
    /\ Head(up[c]).type = "LogMsgSolver"
    /\ Consume(c) /\ ph' = "logbody"
    /\ UNCHANGED <<turn, clients, cnt, blocking, closed, models, down>> /\ HandlerFrame

\* READ_LOGMSG on a descriptor that does not block: no text, no connection.
ReadLogMsg(c) ==
    /\ Handling(c) /\ ph = "logbody"
    /\ \/ /\ up[c] # <<>> /\ Consume(c) /\ ph' = "header"
          /\ UNCHANGED <<turn, clients, closed>>
       \/ /\ up[c] = <<>> /\ NextClient
          /\ closed' = closed \cup {c}
          /\ clients' = Those(clients, Conns \ {c})
          /\ UNCHANGED up
    /\ UNCHANGED <<cnt, blocking, models, down>> /\ HandlerFrame

\* Anything else where a header is expected is reported and given up.
InvalidType(c) ==
    /\ Handling(c) /\ ph = "header" /\ up[c] # <<>>
    /\ Head(up[c]).type \notin {"LogMsgSolver", "NewModelStart"}
    /\ Consume(c) /\ NextClient
    /\ UNCHANGED <<clients, cnt, blocking, closed, models, down>> /\ HandlerFrame

\* newmodel: the descriptor blocks from here on.
NewModelStart(c) ==
    /\ Handling(c) /\ ph = "header" /\ up[c] # <<>>
    /\ Head(up[c]).type = "NewModelStart"
    /\ Consume(c)
    /\ blocking' = blocking \cup {c}
    /\ models' = Append(models, [id |-> job.id, dags |-> <<>>])
    /\ Reply(c, "GuiAckReq")
    /\ ph' = "mdlname"
    /\ UNCHANGED <<turn, clients, cnt, closed>> /\ HandlerFrame

NewModelName(c) ==
    /\ Handling(c) /\ ph = "mdlname" /\ up[c] # <<>>
    /\ Consume(c) /\ Reply(c, "GuiAck") /\ ph' = "mdlend"
    /\ UNCHANGED <<turn, clients, cnt, blocking, closed, models>> /\ HandlerFrame

\* Mutant: the descriptor is left blocking.
NewModelEnd_Blocking(c) ==
    /\ Handling(c) /\ ph = "mdlend" /\ up[c] # <<>>
    /\ Head(up[c]).type = "NewModelEnd"
    /\ Consume(c) /\ Reply(c, "GuiAck") /\ ph' = "header"
    /\ UNCHANGED <<turn, clients, cnt, blocking, closed, models>> /\ HandlerFrame

NewModelEnd(c) ==
    /\ Handling(c) /\ ph = "mdlend" /\ up[c] # <<>>
    /\ Head(up[c]).type = "NewModelEnd"
    /\ Consume(c) /\ Reply(c, "GuiAck") /\ ph' = "header"
    /\ blocking' = blocking \ {c}
    /\ UNCHANGED <<turn, clients, cnt, closed, models>> /\ HandlerFrame

\* newempdag: the EMPDAG goes to the model at the index `mdlid'.
NewEmpDagStart(c) ==
    /\ Handling(c) /\ ph = "mdlend" /\ up[c] # <<>>
    /\ Head(up[c]).type = "NewEmpDagStart"
    /\ Consume(c)
    /\ \/ /\ job.id >= Len(models)
          /\ Reply(c, "GuiRaiseError") /\ ph' = "header" /\ UNCHANGED <<models, cnt>>
       \/ /\ job.id < Len(models)
          /\ models' = [models EXCEPT ![job.id + 1].dags =
                           Append(@, [of |-> job.id, mps |-> 0, names |-> 0, nashs |-> 0])]
          /\ Reply(c, "GuiAck") /\ ph' = "mps" /\ cnt' = job.mps
    /\ UNCHANGED <<turn, clients, blocking, closed>> /\ HandlerFrame

\* The EMPDAG being received: the last one of the model with the index mdlid.
WithEmpDag(field, n) ==
    models' = [models EXCEPT ![job.id + 1].dags[Len(models[job.id + 1].dags)][field] = @ + n]

\* What follows the names of the MPs.
AfterNames == IF job.nashs > 0 THEN "nash" ELSE "end"

\* The bytes a read left behind are taken for a message: the nodes it seems
\* to announce are copied from a buffer that does not hold them.
ReadTail(c) ==
    /\ Handling(c) /\ ph \in {"mps", "mpname", "nash", "nashname", "end"}
    /\ up[c] # <<>> /\ Head(up[c]).type = "Tail"
    /\ gui' = "corrupt"
    /\ UNCHANGED <<libvars, sig, backlog, clients, turn, ph, cnt, blocking, closed,
                   models, up, down, dropped, uses>>

ReadMps(c) ==
    /\ Handling(c) /\ ph = "mps" /\ up[c] # <<>> /\ Head(up[c]).type # "Tail"
    /\ Consume(c) /\ Reply(c, "GuiAck")
    /\ WithEmpDag("mps", Head(up[c]).n)
    /\ ph' = CASE Head(up[c]).type = "MathPrgmGuiData" -> "mps"
               [] Head(up[c]).type = "MathPrgmGuiDataEnd" ->
                     (IF cnt > 0 THEN "mpname" ELSE AfterNames)
               [] OTHER -> "header"
    /\ UNCHANGED <<turn, clients, cnt, blocking, closed>> /\ HandlerFrame

\* Mutant: the last name is not acknowledged.
ReadMpName_NoLastAck(c) ==
    /\ Handling(c) /\ ph = "mpname" /\ up[c] # <<>> /\ Head(up[c]).type # "Tail"
    /\ Consume(c)
    /\ IF cnt > 1 THEN Reply(c, "GuiAck") ELSE UNCHANGED down
    /\ WithEmpDag("names", 1) /\ cnt' = cnt - 1
    /\ ph' = IF cnt = 1 THEN AfterNames ELSE "mpname"
    /\ UNCHANGED <<turn, clients, blocking, closed>> /\ HandlerFrame

ReadMpName(c) ==
    /\ Handling(c) /\ ph = "mpname" /\ up[c] # <<>> /\ Head(up[c]).type # "Tail"
    /\ Consume(c)
    /\ IF Head(up[c]).type = "MathPrgmGuiName"
       THEN /\ Reply(c, "GuiAck") /\ WithEmpDag("names", 1)
            /\ cnt' = cnt - 1
            /\ ph' = IF cnt = 1 THEN AfterNames ELSE "mpname"
       ELSE ph' = "header" /\ UNCHANGED <<cnt, models, down>>
    /\ UNCHANGED <<turn, clients, blocking, closed>> /\ HandlerFrame

ReadNashs(c) ==
    /\ Handling(c) /\ ph = "nash" /\ up[c] # <<>> /\ Head(up[c]).type # "Tail"
    /\ Consume(c) /\ Reply(c, "GuiAck")
    /\ WithEmpDag("nashs", Head(up[c]).n)
    /\ ph' = CASE Head(up[c]).type = "NashGuiData" -> "nash"
               [] Head(up[c]).type = "NashGuiDataEnd" -> "nashname"
               [] OTHER -> "header"
    /\ cnt' = job.nashs
    /\ UNCHANGED <<turn, clients, blocking, closed>> /\ HandlerFrame

ReadNashName(c) ==
    /\ Handling(c) /\ ph = "nashname" /\ up[c] # <<>> /\ Head(up[c]).type # "Tail"
    /\ Consume(c)
    /\ IF Head(up[c]).type = "NashGuiName"
       THEN /\ Reply(c, "GuiAck") /\ cnt' = cnt - 1
            /\ ph' = IF cnt = 1 THEN "end" ELSE "nashname"
       ELSE ph' = "header" /\ UNCHANGED <<cnt, down>>
    /\ UNCHANGED <<turn, clients, blocking, closed, models>> /\ HandlerFrame

\* read_expect only reports another type: the answer is sent all the same.
ReadEnd(c) ==
    /\ Handling(c) /\ ph = "end" /\ up[c] # <<>> /\ Head(up[c]).type # "Tail"
    /\ Consume(c) /\ Reply(c, "GuiAck") /\ ph' = "header"
    /\ blocking' = blocking \ {c}
    /\ UNCHANGED <<turn, clients, cnt, closed, models>> /\ HandlerFrame

-----------------------------------------------------------------------------

Init ==
    /\ lib = "idle" /\ fds = {} /\ logging = FALSE
    /\ job = NoModel /\ k = 0 /\ rc = <<"none", "OK">>
    /\ gui = "none" /\ sig = FALSE /\ backlog = <<>> /\ clients = <<>>
    /\ turn = <<>> /\ ph = "header" /\ cnt = 0
    /\ blocking = {} /\ closed = {} /\ models = <<>>
    /\ up = [c \in Conns |-> <<>>] /\ down = [c \in Conns |-> <<>>]
    /\ dropped = FALSE /\ uses = [starts |-> 0, sends |-> 0, logs |-> 0]

\* The steps the library's thread takes by itself once it is in a call.
LibStep ==
    SigWait \/ ConnectGui \/ ConnectData \/ LogBody \/ WriteMsg \/ ReadAck

\* The steps of the GUI's thread.
Serve(c) ==
    \/ NoMore(c) \/ LogMsgSolver(c) \/ ReadLogMsg(c) \/ InvalidType(c)
    \/ NewModelStart(c) \/ NewModelName(c) \/ NewModelEnd(c)
    \/ NewEmpDagStart(c) \/ ReadTail(c) \/ ReadMps(c) \/ ReadMpName(c)
    \/ ReadNashs(c) \/ ReadNashName(c) \/ ReadEnd(c)

GuiStep == Exec \/ ServerInitSocket \/ Listen \/ Poll \/ (\E c \in Conns : Serve(c))

Next ==
    \/ ImguiStart \/ SendModel \/ LogHeader \/ Exit \/ CloseWindow
    \/ LibStep \/ GuiStep

\* Both threads go on whenever they can: each has nothing else to wait for
\* than its read, its signal or its connection.  Nobody has to call.
Fairness == WF_vars(LibStep) /\ WF_vars(GuiStep)

Spec == Init /\ [][Next]_vars /\ Fairness

-----------------------------------------------------------------------------
(***************************************************************************)
(* Properties.                                                             *)
(***************************************************************************)

Phases == {"header", "logbody", "mdlname", "mdlend", "mps", "mpname",
           "nash", "nashname", "end"}

\* The type invariant: what every variable of the link can hold.
TypeOK ==
    /\ lib \in {"idle", "sigwait", "connect_gui", "connect_data", "logbody",
                "write", "ack", "gone"}
    /\ fds \in SUBSET Conns /\ logging \in BOOLEAN
    /\ job \in Models \cup {NoModel} /\ k \in 0..Len(Script(job))
    /\ gui \in {"none", "exec", "noexec", "init", "bound", "loop", "dead", "corrupt"}
    /\ ph \in Phases /\ cnt \in Nat
    /\ blocking \in SUBSET Conns /\ closed \in SUBSET Conns
    /\ Range(clients) \subseteq Conns /\ Range(turn) \subseteq Range(clients)
    /\ Len(clients) + Len(backlog) <= Cardinality(Conns)

\* The messages a phase of newmodel and newempdag is written for.
Takes(p) ==
    CASE p = "mdlname"  -> {"NewModelName"}
      [] p = "mdlend"   -> {"NewModelEnd", "NewEmpDagStart"}
      [] p = "mps"      -> {"MathPrgmGuiData", "MathPrgmGuiDataEnd"}
      [] p = "mpname"   -> {"MathPrgmGuiName"}
      [] p = "nash"     -> {"NashGuiData", "NashGuiDataEnd"}
      [] p = "nashname" -> {"NashGuiName"}
      [] p = "end"      -> {"NewModelEnd"}
      [] OTHER          -> {"NewModelStart"}

\* The GUI reads the nodes of the model's chunks whole.
ChunksFit(m) == MpMax <= BufMax \/ (m.mps <= BufMax /\ m.nashs <= BufMax)

\* The two sides of the transfer stay in step: a message of ipc_send_mdl
\* finds newmodel and newempdag where they expect a message of its type,
\* whatever transfers failed before it and however the log messages are
\* served in between.  (The names of the Nash nodes are expected but never
\* sent: that phase is left out, see EveryTransferEnds.)
InStep ==
    ( /\ gui = "loop" /\ up["data"] # <<>> /\ ChunksFit(job)
      /\ ph # "nashname" )
    => Head(up["data"]).type \in
          (IF turn # <<>> /\ Head(turn) = "data" THEN Takes(ph) ELSE Takes("header"))

\* When ipc_send_mdl returns OK the GUI has it all: the model is its last
\* one, the EMPDAG at the index mdlid has every MP with its name and every
\* Nash node, and the GUI's thread is not left in a blocking read.
OkMeansReceived ==
    (rc = <<"ipc_send_mdl", "OK">> /\ gui = "loop" /\ lib = "idle")
    => /\ models # <<>> /\ Last(models).id = job.id
       /\ "data" \notin blocking
       /\ job.dag =>
            LET dags == models[job.id + 1].dags
            IN  /\ dags # <<>> /\ Last(dags).of = job.id
                /\ Last(dags).mps = job.mps /\ Last(dags).names = job.mps
                /\ Last(dags).nashs = job.nashs

\* As long as no text was refused by a full buffer, the GUI takes no text of
\* a log message for a header: print_fd gives up a message whose header was
\* refused.
LogFramed ==
    ( /\ ~dropped /\ turn # <<>> /\ Head(turn) = "log" /\ ph = "header"
      /\ up["log"] # <<>> )
    => Head(up["log"]).type = "LogMsgSolver"

\* Both streams are read as they were written.
StreamsInStep == TypeOK /\ InStep /\ LogFramed

\* imgui_start is not left waiting for the signal: it comes from the GUI or
\* from the child that could not run it.  Only a GUI that dies between
\* execlp and its signal leaves the library waiting.
StartEnds == (lib = "sigwait") ~> (lib # "sigwait" \/ gui = "dead")

\* A transfer without Nash nodes ends, with the model received or with an
\* error: when the GUI is closed meanwhile, when it refuses the EMPDAG, when
\* it is busy with log messages or waits in a read an earlier error left
\* blocking.
TransferEnds ==
    (lib \in {"write", "ack"} /\ (job.dag => job.nashs = 0))
    ~> (lib \in {"idle", "gone"} \/ gui = "corrupt")

\* No call of the library waits for ever.
CallsEnd == StartEnds /\ TransferEnds

\* The GUI's thread waits for a client it expects nothing of.
StuckInRead == "data" \in blocking /\ ph = "header"

\* The transfers do not starve the log: its messages are read, unless an
\* error left the GUI's only thread in a blocking read of the other
\* connection, or the connection or the GUI is gone.
LogIsServed ==
    (up["log"] # <<>>)
    ~> (up["log"] = <<>> \/ "log" \in closed \/ gui # "loop" \/ StuckInRead)

\* The protocol in the comment of ipc_send_mdl: Nash nodes are sent, then
\* their names, each step is acknowledged, so every transfer ends.
EveryTransferEnds ==
    (lib \in {"write", "ack"}) ~> (lib \in {"idle", "gone"} \/ gui = "corrupt")

\* The GUI closes a connection, and reports that the client disconnected,
\* only when the client did.
ClosedMeansDisconnected == closed # {} => lib = "gone"

=============================================================================
