---------------------------- MODULE GuiIpcProofs ----------------------------
(***************************************************************************)
(* Proofs about the link to the GUI, for any models, buffers and numbers   *)
(* of calls: both streams are read as they were written, and OK means that *)
(* the GUI has the model.                                                  *)
(*                                                                         *)
(* The inductive invariant relates the position k of the library in the    *)
(* script of the model it sends to the phase of the GUI, to the units and  *)
(* answers under way and to the EMPDAG received so far.                    *)
(***************************************************************************)
EXTENDS GuiIpc, FiniteSetTheorems, TLAPS

AP == INSTANCE UIntArrayProofs

-----------------------------------------------------------------------------
(***************************************************************************)
(* The inductive invariant.                                                *)
(***************************************************************************)

Types == {"LogMsgSolver", "Text", "Tail", "NewModelStart", "NewModelName", "NewModelEnd",
          "NewEmpDagStart", "MathPrgmGuiData", "MathPrgmGuiDataEnd", "MathPrgmGuiName",
          "NashGuiData", "NashGuiDataEnd"}
Answers == {"GuiAck", "GuiAckReq", "GuiRaiseError"}
Unit == [type : Types, n : Nat]
DagRec == [of : Nat, mps : Nat, names : Nat, nashs : Nat]
ModelRec == [id : Nat, dags : Seq(DagRec)]

NoRep(s) == \A i, j \in 1..Len(s) : s[i] = s[j] => i = j

\* The values of the variables: TypeOK without what it says of the lists, and the
\* contents of the streams and of the models.
Values ==
    /\ lib \in {"idle", "sigwait", "connect_gui", "connect_data", "logbody",
                "write", "ack", "gone"}
    /\ fds \in SUBSET Conns /\ logging \in BOOLEAN
    /\ job \in Models \cup {NoModel} /\ k \in 0..Len(Script(job))
    /\ gui \in {"none", "exec", "noexec", "init", "bound", "loop", "dead", "corrupt"}
    /\ ph \in Phases /\ cnt \in Nat
    /\ blocking \in SUBSET Conns /\ closed \in SUBSET Conns
Streams ==
    /\ up \in [Conns -> Seq(Unit)] /\ down \in [Conns -> Seq(Answers)]
    /\ models \in Seq(ModelRec) /\ dropped \in BOOLEAN

\* The connections: which exist when, and that each is in one place only.
Lists ==
    /\ clients \in Seq(Conns) /\ backlog \in Seq(Conns) /\ turn \in Seq(Conns)
    /\ NoRep(clients) /\ NoRep(backlog) /\ NoRep(turn)
    /\ ToSet(clients) \cap ToSet(backlog) = {}
    /\ ToSet(clients) \cup ToSet(backlog) \subseteq fds
    /\ ToSet(turn) \subseteq ToSet(clients)
    /\ closed \subseteq fds \ {"data"}
    /\ closed \cap (ToSet(clients) \cup ToSet(backlog)) = {}

Life ==
    /\ turn = <<>> => ph = "header"
    /\ gui \in {"none", "exec", "noexec", "init", "bound"} => fds = {} /\ turn = <<>>
    /\ gui = "dead" => turn = <<>>
    /\ gui = "corrupt" => turn # <<>> /\ Head(turn) = "data"
    /\ lib \in {"sigwait", "connect_gui"} => fds = {}
    /\ lib = "connect_data" => fds = {"log"}
    /\ "data" \in fds => "log" \in fds
    /\ lib \in {"write", "ack"} => "data" \in fds /\ k \in 1..Len(Script(job))
    /\ rc = <<"ipc_send_mdl", "OK">> => "data" \in fds
    /\ logging => "log" \in fds
    /\ lib = "logbody" => logging

\* Where gui_ipc_handle_client is with the connection c.
PhaseOf(c) == IF turn # <<>> /\ Head(turn) = c THEN ph ELSE "header"

\* Headers and texts alternate in the stream of the log messages.
Framed ==
    /\ \A i \in 1..Len(up["log"]) : up["log"][i] \in {Msg("LogMsgSolver"), Msg("Text")}
    /\ PhaseOf("log") \in {"header", "logbody"}
    /\ ~dropped /\ ~Broken("log") =>
         /\ \A i \in 1..Len(up["log"]) :
              up["log"][i] = IF (i % 2 = 1) <=> (PhaseOf("log") = "header")
                             THEN Msg("LogMsgSolver") ELSE Msg("Text")
         /\ (lib = "logbody") <=> ((Len(up["log"]) % 2 = 1) <=> (PhaseOf("log") = "header"))

\* The number of chunks n nodes make, and the messages of a model.
NumChunks(n) == IF n = 0 THEN 1 ELSE (n - 1) \div MpMax + 1
N1(m) == NumChunks(m.mps)
N2(m) == IF m.nashs > 0 THEN NumChunks(m.nashs) ELSE 0
Total(m) == IF m.dag THEN 4 + N1(m) + m.mps + N2(m) ELSE 3

\* The EMPDAG the GUI has received so far.
Got(a, b, c) ==
    /\ job.id < Len(models) /\ models[job.id + 1].dags # <<>>
    /\ models[job.id + 1].dags[Len(models[job.id + 1].dags)] =
         [of |-> job.id, mps |-> a, names |-> b, nashs |-> c]
Arrived == models # <<>> /\ models[Len(models)].id = job.id

\* The GUI is ready for message j of the script.
ExpectsHeader(j) == j = 1 /\ PhaseOf("data") = "header"
ExpectsName(j) == j = 2 /\ Arrived /\ PhaseOf("data") = "mdlname"
ExpectsMdlEnd(j) == j = 3 /\ Arrived /\ PhaseOf("data") = "mdlend"
ExpectsMps(j) ==
    /\ job.dag /\ Arrived /\ PhaseOf("data") = "mps" /\ cnt = job.mps
    /\ \E i \in 1..N1(job) : j = 3 + i /\ Got((i - 1) * MpMax, 0, 0)
ExpectsMpName(j) ==
    /\ job.dag /\ Arrived /\ PhaseOf("data") = "mpname"
    /\ \E i \in 1..job.mps : /\ j = 3 + N1(job) + i /\ cnt = job.mps - i + 1
                             /\ Got(job.mps, i - 1, 0)
ExpectsNashs(j) ==
    /\ job.dag /\ Arrived /\ PhaseOf("data") = "nash"
    /\ \E i \in 1..N2(job) : /\ j = 3 + N1(job) + job.mps + i
                             /\ Got(job.mps, job.mps, (i - 1) * MpMax)
ExpectsEnd(j) ==
    /\ job.dag /\ Arrived
    /\ PhaseOf("data") = IF job.nashs > 0 THEN "nashname" ELSE "end"
    /\ j = Total(job) /\ Got(job.mps, job.mps, job.nashs)
HasAll(j) ==
    /\ j = Total(job) + 1 /\ Arrived /\ PhaseOf("data") = "header"
    /\ "data" \notin blocking
    /\ job.dag => Got(job.mps, job.mps, job.nashs)
Expects(j) ==
    \/ ExpectsHeader(j) \/ ExpectsName(j) \/ ExpectsMdlEnd(j) \/ ExpectsMps(j)
    \/ ExpectsMpName(j) \/ ExpectsNashs(j) \/ ExpectsEnd(j) \/ HasAll(j)

\* No transfer is under way.
Quiet ==
    /\ lib \notin {"write", "ack"} /\ up["data"] = <<>> /\ down["data"] = <<>>
    /\ PhaseOf("data") = "header"
    /\ rc = <<"ipc_send_mdl", "OK">> => HasAll(Total(job) + 1)
\* The library is about to write, its message or the answer is under way.
Writing == lib = "write" /\ up["data"] = <<>> /\ down["data"] = <<>> /\ Expects(k)
Sent ==
    /\ lib = "ack" /\ up["data"] = Units(Script(job)[k]) /\ down["data"] = <<>>
    /\ Expects(k)
Answered ==
    /\ lib = "ack" /\ up["data"] = <<>> /\ down["data"] = <<Answer(k)>>
    /\ Expects(k + 1)
\* The GUI refused the EMPDAG, or gave up the names of the Nash nodes.
Refused ==
    /\ lib = "ack" /\ up["data"] = <<>> /\ down["data"] = <<"GuiRaiseError">>
    /\ PhaseOf("data") = "header"
GivenUp ==
    /\ lib = "ack" /\ up["data"] = <<>> /\ down["data"] = <<>>
    /\ PhaseOf("data") = "header" /\ job.nashs > 0
\* A read of a chunk left a part of it in the stream.
Overrun ==
    /\ ~ChunksFit(job) /\ PhaseOf("data") \in {"mps", "mpname", "nash", "nashname", "end"}
    /\ up["data"] # <<>> /\ Head(up["data"]) = Msg("Tail")
    /\ \/ lib = "ack" /\ down["data"] = <<Answer(k)>> /\ k < Len(Script(job))
       \/ lib \in {"write", "ack"} /\ down["data"] = <<>>
Sync ==
    Quiet \/ Writing \/ Sent \/ Answered \/ Refused \/ GivenUp \/ Overrun

IInv ==
    /\ Values /\ Streams /\ Lists /\ Life /\ Framed
    /\ gui \notin {"dead", "corrupt"} => Sync

-----------------------------------------------------------------------------
(***************************************************************************)
(* Lemmas on the lists of connections.                                     *)
(***************************************************************************)

\* The elements of a list; Range of Functions and ToSet of SequencesExt agree.
LEMMA ElementsOf ==
  ASSUME NEW C, NEW s \in Seq(C)
  PROVE  ToSet(s) = {s[i] : i \in 1..Len(s)} /\ Range(s) = ToSet(s)
BY DEF ToSet, Range

\* Those keeps the order of the list, so it keeps a list without repetitions,
\* and it holds the elements of the list that are in S.
LEMMA ThoseProperties ==
  ASSUME NEW C, NEW s \in Seq(C), NEW S
  PROVE  /\ Those(s, S) \in Seq(C)
         /\ ToSet(Those(s, S)) = ToSet(s) \cap S
         /\ NoRep(s) => NoRep(Those(s, S))
<1> DEFINE l == Len(s)
           Fix(h) == h = [n \in 0..l |-> IF n = 0 THEN <<>>
                                         ELSE IF s[n] \in S THEN Append(h[n - 1], s[n])
                                         ELSE h[n - 1]]
           upto == CHOOSE h : Fix(h)
<1>0. l \in Nat /\ \A n \in 1..l : s[n] \in C
  OBVIOUS
<1>1. Those(s, S) = upto[l]
  BY DEF Those
<1>2. \E h : Fix(h)
  <2> DEFINE step(x, n) == IF n < l /\ s[n + 1] \in S THEN Append(x, s[n + 1]) ELSE x
  <2>8. \A n \in Nat, x \in Seq(C) : step(x, n) \in Seq(C)
    BY <1>0
  <2>9. \A n \in 0..(l - 1), x \in Seq(C) :
           step(x, n) = IF s[n + 1] \in S THEN Append(x, s[n + 1]) ELSE x
    BY <1>0
  <2> HIDE DEF step
  <2> DEFINE G == [n \in Nat |-> [x \in Seq(C) |-> step(x, n)]]
  <2>1. G \in [Nat -> [Seq(C) -> Seq(C)]] /\ <<>> \in Seq(C)
    BY <2>8
  <2>2. \A n \in Nat, x \in Seq(C) : G[n][x] = step(x, n)
    OBVIOUS
  <2> HIDE DEF G
  <2>3. PICK f : AP!Iterates(f, Seq(C), <<>>, G)
    BY <2>1, AP!RecursiveFunction
  <2>4. /\ f \in [Nat -> Seq(C)] /\ f[0] = <<>>
        /\ \A n \in Nat : f[n + 1] = G[n][f[n]]
    BY <2>3 DEF AP!Iterates
  <2> DEFINE h == [n \in 0..l |-> f[n]]
  <2>5. ASSUME NEW n \in 0..l, n # 0
        PROVE  h[n] = IF s[n] \in S THEN Append(h[n - 1], s[n]) ELSE h[n - 1]
    <3>1. n - 1 \in Nat /\ (n - 1) + 1 = n /\ n - 1 \in 0..l /\ n - 1 \in 0..(l - 1)
      BY <2>5, <1>0
    <3>2. f[n] = G[n - 1][f[n - 1]] /\ f[n - 1] \in Seq(C)
      BY <3>1, <2>4
    <3>3. f[n] = IF s[n] \in S THEN Append(f[n - 1], s[n]) ELSE f[n - 1]
      <4>1. G[n - 1][f[n - 1]] = step(f[n - 1], n - 1)
        BY <3>1, <3>2, <2>2
      <4> QED BY <3>1, <3>2, <4>1, <2>9
    <3>4. h[n] = f[n] /\ h[n - 1] = f[n - 1]
      BY <3>1
    <3> QED BY <3>3, <3>4
  <2>6. h[0] = <<>>
    BY <2>4, <1>0
  <2>7. Fix(h)
    BY <2>5, <2>6
  <2> QED BY <2>7
<1>3. Fix(upto)
  BY <1>2
<1> HIDE DEF upto
<1>4. /\ upto[0] = <<>>
      /\ \A n \in 0..(l - 1) :
           upto[n + 1] = IF s[n + 1] \in S THEN Append(upto[n], s[n + 1]) ELSE upto[n]
  <2>1. upto[0] = <<>>
    BY <1>3, <1>0
  <2>2. ASSUME NEW n \in 0..(l - 1)
        PROVE  upto[n + 1] = IF s[n + 1] \in S THEN Append(upto[n], s[n + 1]) ELSE upto[n]
    <3>1. n + 1 \in 0..l /\ n + 1 # 0 /\ (n + 1) - 1 = n
      BY <1>0
    <3>2. upto[n + 1] = IF n + 1 = 0 THEN <<>>
                        ELSE IF s[n + 1] \in S THEN Append(upto[(n + 1) - 1], s[n + 1])
                        ELSE upto[(n + 1) - 1]
      BY <1>3, <3>1
    <3> QED BY <3>1, <3>2
  <2> QED BY <2>1, <2>2
<1> DEFINE Good(x, n) ==
             /\ x \in Seq(C)
             /\ \A i \in 1..Len(x) : \E m \in 1..n : x[i] = s[m] /\ s[m] \in S
             /\ \A m \in 1..n : s[m] \in S => \E i \in 1..Len(x) : x[i] = s[m]
             /\ NoRep(s) => NoRep(x)
<1>5. Good(<<>>, 0)
  BY DEF NoRep
<1>6. ASSUME NEW n \in Nat, n + 1 <= l, Good(upto[n], n)
      PROVE  Good(upto[n + 1], n + 1)
  <2>2. Good(upto[n], n) /\ n \in 0..(l - 1) /\ n + 1 \in 1..l
    BY <1>6, <1>0
  <2>3. CASE s[n + 1] \notin S
    <3>1. upto[n + 1] = upto[n]
      BY <1>4, <2>2, <2>3
    <3>2. \A m \in 1..(n + 1) : s[m] \in S => m \in 1..n
      BY <2>3
    <3>3. 1..n \subseteq 1..(n + 1)
      OBVIOUS
    <3> QED BY <3>1, <3>2, <3>3, <2>2
  <2>4. CASE s[n + 1] \in S
    <3> DEFINE x == upto[n]
               y == Append(x, s[n + 1])
    <3>1. upto[n + 1] = y
      BY <1>4, <2>2, <2>4
    <3>2. /\ y \in Seq(C) /\ Len(y) = Len(x) + 1 /\ y[Len(x) + 1] = s[n + 1]
          /\ \A i \in 1..Len(x) : y[i] = x[i]
          /\ Len(x) \in Nat
      BY <1>0, <2>2
    <3> HIDE DEF x, y
    <3>6. Good(x, n)
      BY <2>2 DEF x
    <3>3. ASSUME NEW i \in 1..Len(y) PROVE \E m \in 1..(n + 1) : y[i] = s[m] /\ s[m] \in S
      <4>1. CASE i = Len(x) + 1
        BY <4>1, <3>2, <2>4
      <4>2. CASE i \in 1..Len(x)
        <5>1. PICK m \in 1..n : x[i] = s[m] /\ s[m] \in S
          BY <4>2, <3>6
        <5>2. y[i] = x[i]
          BY <4>2, <3>2
        <5>3. m \in 1..(n + 1)
          BY <5>1
        <5> QED BY <5>1, <5>2, <5>3
      <4>3. i = Len(x) + 1 \/ i \in 1..Len(x)
        BY <3>2
      <4> QED BY <4>1, <4>2, <4>3
    <3>4. ASSUME NEW m \in 1..(n + 1), s[m] \in S PROVE \E i \in 1..Len(y) : y[i] = s[m]
      <4>1. CASE m = n + 1
        BY <4>1, <3>2
      <4>2. CASE m \in 1..n
        <5>1. PICK i \in 1..Len(x) : x[i] = s[m]
          BY <4>2, <3>4, <3>6
        <5> QED BY <5>1, <3>2
      <4> QED BY <4>1, <4>2
    <3>5. ASSUME NoRep(s) PROVE NoRep(y)
      <4> SUFFICES ASSUME NEW i \in 1..Len(y), NEW j \in 1..Len(y), y[i] = y[j]
                   PROVE  i = j
        BY DEF NoRep
      <4>1. CASE i \in 1..Len(x) /\ j \in 1..Len(x)
        BY <4>1, <3>5, <3>6, <3>2 DEF NoRep
      <4>2. ASSUME NEW a \in 1..Len(x) PROVE x[a] # s[n + 1]
        <5>1. PICK m \in 1..n : x[a] = s[m]
          BY <3>6
        <5>2. m \in 1..l /\ n + 1 \in 1..l /\ m # n + 1
          BY <2>2, <1>0
        <5> QED BY <5>1, <5>2, <3>5 DEF NoRep
      <4> QED BY <4>1, <4>2, <3>2
    <3>7. Good(y, n + 1)
      BY <3>2, <3>3, <3>4, <3>5
    <3> QED BY <3>1, <3>7
  <2> QED BY <2>3, <2>4
<1> HIDE DEF Good
<1> DEFINE T == {n \in Nat : n <= l => Good(upto[n], n)}
<1>7. 0 \in T
  BY <1>4, <1>5
<1>8. ASSUME NEW n \in Nat, n \in T PROVE n + 1 \in T
  <2>1. n + 1 <= l => n <= l
    BY <1>0
  <2> QED BY <2>1, <1>6, <1>8
<1>9. Nat \subseteq T
  <2> HIDE DEF T
  <2> QED BY <1>7, <1>8, AP!NatSetInduction
<1>10. Good(upto[l], l)
  <2>1. l \in T
    <3> HIDE DEF T
    <3> QED BY <1>9, <1>0
  <2> QED BY <2>1, <1>0
<1>11. /\ upto[l] \in Seq(C)
       /\ \A i \in 1..Len(upto[l]) : \E m \in 1..l : upto[l][i] = s[m] /\ s[m] \in S
       /\ \A m \in 1..l : s[m] \in S => \E i \in 1..Len(upto[l]) : upto[l][i] = s[m]
       /\ NoRep(s) => NoRep(upto[l])
  BY <1>10 DEF Good
<1>12. ToSet(s) = {s[i] : i \in 1..l} /\ ToSet(upto[l]) = {upto[l][i] : i \in 1..Len(upto[l])}
  BY <1>11, ElementsOf
<1>13. ToSet(upto[l]) = ToSet(s) \cap S
  <2> DEFINE u == upto[l]
  <2> HIDE DEF l, u
  <2>1. ASSUME NEW x \in ToSet(u) PROVE x \in ToSet(s) \cap S
    <3>1. PICK i \in 1..Len(u) : x = u[i]
      BY <2>1, <1>12 DEF u
    <3> QED BY <3>1, <1>11, <1>12 DEF u
  <2>2. ASSUME NEW x \in ToSet(s), x \in S PROVE x \in ToSet(u)
    <3>1. PICK m \in 1..l : x = s[m]
      BY <2>2, <1>12
    <3>2. PICK i \in 1..Len(u) : u[i] = s[m]
      BY <3>1, <2>2, <1>11 DEF u
    <3> QED BY <3>1, <3>2, <1>12 DEF u
  <2> QED BY <2>1, <2>2 DEF u
<1> QED BY <1>1, <1>11, <1>13

\* A connection that is new to a list.
LEMMA AppendToList ==
  ASSUME NEW C, NEW s \in Seq(C), NoRep(s), NEW x \in C, x \notin ToSet(s)
  PROVE  /\ Append(s, x) \in Seq(C) /\ NoRep(Append(s, x))
         /\ ToSet(Append(s, x)) = ToSet(s) \cup {x}
<1> DEFINE y == Append(s, x)
<1>1. /\ y \in Seq(C) /\ Len(y) = Len(s) + 1 /\ y[Len(s) + 1] = x /\ Len(s) \in Nat
      /\ \A i \in 1..Len(s) : y[i] = s[i]
  OBVIOUS
<1> HIDE DEF y
<1>2. \A i \in 1..Len(s) : s[i] # x
  BY ElementsOf
<1>3. NoRep(y)
  <2> SUFFICES ASSUME NEW i \in 1..Len(y), NEW j \in 1..Len(y), y[i] = y[j] PROVE i = j
    BY DEF NoRep
  <2> QED BY <1>1, <1>2 DEF NoRep
<1>4. ToSet(y) = {y[i] : i \in 1..Len(y)} /\ ToSet(s) = {s[i] : i \in 1..Len(s)}
  BY <1>1, ElementsOf
<1>5. ToSet(y) = ToSet(s) \cup {x}
  BY <1>1, <1>4
<1> QED BY <1>1, <1>3, <1>5 DEF y

\* The lists of two sets of connections, one after the other.
LEMMA ConcatOfLists ==
  ASSUME NEW C, NEW s \in Seq(C), NEW t \in Seq(C), NoRep(s), NoRep(t),
         ToSet(s) \cap ToSet(t) = {}
  PROVE  /\ s \o t \in Seq(C) /\ NoRep(s \o t) /\ ToSet(s \o t) = ToSet(s) \cup ToSet(t)
<1> DEFINE y == s \o t
<1>1. /\ y \in Seq(C) /\ Len(y) = Len(s) + Len(t) /\ Len(s) \in Nat /\ Len(t) \in Nat
      /\ \A i \in 1..Len(s) : y[i] = s[i]
      /\ \A i \in 1..Len(t) : y[i + Len(s)] = t[i]
  OBVIOUS
<1> HIDE DEF y
<1>2. /\ ToSet(y) = {y[i] : i \in 1..Len(y)} /\ ToSet(s) = {s[i] : i \in 1..Len(s)}
      /\ ToSet(t) = {t[i] : i \in 1..Len(t)}
  BY <1>1, ElementsOf
<1>3. \A i \in 1..Len(y) : \/ i \in 1..Len(s) /\ y[i] = s[i]
                           \/ i - Len(s) \in 1..Len(t) /\ y[i] = t[i - Len(s)]
  <2> TAKE i \in 1..Len(y)
  <2>1. CASE i <= Len(s)
    BY <2>1, <1>1
  <2>2. CASE i > Len(s)
    <3>1. i - Len(s) \in 1..Len(t) /\ (i - Len(s)) + Len(s) = i
      BY <2>2, <1>1
    <3> QED BY <3>1, <1>1
  <2> QED BY <2>1, <2>2, <1>1
<1>4. \A i \in 1..Len(s), j \in 1..Len(t) : s[i] # t[j]
  BY <1>2
<1>5. NoRep(y)
  <2> SUFFICES ASSUME NEW i \in 1..Len(y), NEW j \in 1..Len(y), y[i] = y[j] PROVE i = j
    BY DEF NoRep
  <2> QED BY <1>1, <1>3, <1>4 DEF NoRep
<1>6. ToSet(y) \subseteq ToSet(s) \cup ToSet(t)
  BY <1>2, <1>3
<1>7. ToSet(s) \subseteq ToSet(y)
  BY <1>1, <1>2
<1>8. ToSet(t) \subseteq ToSet(y)
  <2>1. \A i \in 1..Len(t) : i + Len(s) \in 1..Len(y)
    BY <1>1
  <2> QED BY <2>1, <1>1, <1>2
<1> QED BY <1>1, <1>5, <1>6, <1>7, <1>8 DEF y

\* The list without its first connection.
LEMMA TailOfList ==
  ASSUME NEW C, NEW s \in Seq(C), NoRep(s), s # <<>>
  PROVE  /\ Head(s) \in ToSet(s) /\ Tail(s) \in Seq(C) /\ NoRep(Tail(s))
         /\ ToSet(Tail(s)) = ToSet(s) \ {Head(s)}
<1> DEFINE y == Tail(s)
<1>1. /\ y \in Seq(C) /\ Len(s) \in Nat /\ Len(s) > 0 /\ Len(y) = Len(s) - 1
      /\ \A i \in 1..Len(y) : y[i] = s[i + 1]
      /\ Head(s) = s[1]
  OBVIOUS
<1> HIDE DEF y
<1>2. ToSet(y) = {y[i] : i \in 1..Len(y)} /\ ToSet(s) = {s[i] : i \in 1..Len(s)}
  BY <1>1, ElementsOf
<1>3. NoRep(y)
  <2> SUFFICES ASSUME NEW i \in 1..Len(y), NEW j \in 1..Len(y), y[i] = y[j] PROVE i = j
    BY DEF NoRep
  <2>1. i + 1 \in 1..Len(s) /\ j + 1 \in 1..Len(s)
    BY <1>1
  <2> QED BY <2>1, <1>1 DEF NoRep
<1>4. ASSUME NEW x \in ToSet(y) PROVE x \in ToSet(s) \ {s[1]}
  <2>1. PICK i \in 1..Len(y) : x = s[i + 1]
    BY <1>1, <1>2, <1>4
  <2>2. i + 1 \in 1..Len(s) /\ 1 \in 1..Len(s) /\ i + 1 # 1
    BY <1>1
  <2> QED BY <2>1, <2>2, <1>2 DEF NoRep
<1>5. ASSUME NEW x \in ToSet(s), x # s[1] PROVE x \in ToSet(y)
  <2>1. PICK i \in 1..Len(s) : x = s[i]
    BY <1>2, <1>5
  <2>2. i - 1 \in 1..Len(y) /\ (i - 1) + 1 = i
    BY <2>1, <1>5, <1>1
  <2> QED BY <2>1, <2>2, <1>1, <1>2
<1>6. Head(s) \in ToSet(s)
  BY <1>1, <1>2
<1> QED BY <1>1, <1>3, <1>4, <1>5, <1>6 DEF y

\* There are two connections: two lists without repetitions and without a common
\* connection are no longer than that.
LEMMA TwoConnections ==
  ASSUME NEW s \in Seq(Conns), NEW t \in Seq(Conns), NoRep(s), NoRep(t),
         ToSet(s) \cap ToSet(t) = {}
  PROVE  Len(s) + Len(t) <= Cardinality(Conns)
<1>1. Cardinality(Conns) = 2
  <2>1. IsFiniteSet({"log"}) /\ Cardinality({"log"}) = 1
    BY FS_Singleton
  <2>2. Cardinality({"log"} \cup {"data"}) = 1 + 1
    BY <2>1, FS_AddElement
  <2>3. Conns = {"log"} \cup {"data"}
    BY DEF Conns
  <2> QED BY <2>2, <2>3
<1> DEFINE y == s \o t
<1>2. y \in Seq(Conns) /\ NoRep(y) /\ Len(y) = Len(s) + Len(t)
  BY ConcatOfLists
<1> HIDE DEF y
<1>3. Len(y) <= 2
  <2> SUFFICES ASSUME Len(y) > 2 PROVE FALSE
    BY <1>2
  <2>1. 1 \in 1..Len(y) /\ 2 \in 1..Len(y) /\ 3 \in 1..Len(y)
    BY <1>2
  <2>2. y[1] # y[2] /\ y[1] # y[3] /\ y[2] # y[3]
    BY <1>2, <2>1 DEF NoRep
  <2>3. y[1] \in Conns /\ y[2] \in Conns /\ y[3] \in Conns
    BY <1>2, <2>1
  <2> QED BY <2>2, <2>3 DEF Conns
<1> QED BY <1>1, <1>2, <1>3

-----------------------------------------------------------------------------
(***************************************************************************)
(* Lemmas on the script of a transfer.                                     *)
(***************************************************************************)

\* A function on 1..n is a list of length n.
LEMMA FunctionIsList ==
  ASSUME NEW C, NEW n \in Nat, NEW f \in [1..n -> C]
  PROVE  f \in Seq(C) /\ Len(f) = n
OBVIOUS

\* Two lists of messages, one after the other.
LEMMA ConcatIs ==
  ASSUME NEW C, NEW s \in Seq(C), NEW t \in Seq(C)
  PROVE  /\ s \o t \in Seq(C) /\ Len(s \o t) = Len(s) + Len(t)
         /\ \A i \in 1..Len(s) : (s \o t)[i] = s[i]
         /\ \A i \in 1..Len(t) : (s \o t)[Len(s) + i] = t[i]
OBVIOUS

\* The chunks of n nodes: all but the last are full, the last holds the rest, and no
\* chunk is longer than MpMax or n.
LEMMA ChunksAre ==
  ASSUME NEW n \in Nat, NEW data \in Types, NEW dataend \in Types
  PROVE  /\ Chunks(n, data, dataend) \in Seq(Unit)
         /\ NumChunks(n) \in Nat \ {0} /\ (NumChunks(n) - 1) * MpMax <= n
         /\ n - (NumChunks(n) - 1) * MpMax <= MpMax
         /\ Len(Chunks(n, data, dataend)) = NumChunks(n)
         /\ \A i \in 1..NumChunks(n) :
              Chunks(n, data, dataend)[i] =
                 IF i < NumChunks(n) THEN [type |-> data, n |-> MpMax]
                 ELSE [type |-> dataend, n |-> n - (NumChunks(n) - 1) * MpMax]
         /\ NumChunks(n) > 1 => MpMax <= n
<1> DEFINE last == IF n = 0 THEN 0 ELSE (n - 1) \div MpMax
<1>1. MpMax \in Nat /\ MpMax > 0
  BY BoundsAssumption
<1>2. last \in Nat /\ last * MpMax <= n /\ n - last * MpMax <= MpMax
  BY <1>1
<1>3. NumChunks(n) = last + 1
  BY <1>2 DEF NumChunks
<1>4. last > 0 => MpMax <= n
  BY <1>1
<1> USE DEF Chunks
<1>5. Chunks(n, data, dataend) = [i \in 1..(last + 1) |->
            IF i <= last THEN [type |-> data, n |-> MpMax]
                         ELSE [type |-> dataend, n |-> n - last * MpMax]]
  OBVIOUS
<1> HIDE DEF Chunks, last
<1>6. Len(Chunks(n, data, dataend)) = last + 1
  BY <1>2, <1>5
<1>7. (NumChunks(n) - 1) * MpMax = last * MpMax
  BY <1>2, <1>3
<1>8. Chunks(n, data, dataend) \in Seq(Unit)
  <2>1. /\ [type |-> data, n |-> MpMax] \in Unit
        /\ [type |-> dataend, n |-> n - last * MpMax] \in Unit
    BY <1>1, <1>2 DEF Unit
  <2>2. \A i \in 1..(last + 1) : Chunks(n, data, dataend)[i] \in Unit
    BY <2>1, <1>5
  <2>3. Chunks(n, data, dataend) \in [1..(last + 1) -> Unit]
    BY <2>2, <1>5
  <2>4. last + 1 \in Nat
    BY <1>2
  <2> QED BY <2>3, <2>4, FunctionIsList
<1>9. NumChunks(n) \in Nat \ {0} /\ (NumChunks(n) > 1 => MpMax <= n)
  BY <1>2, <1>3, <1>4
<1>10. /\ (NumChunks(n) - 1) * MpMax <= n /\ n - (NumChunks(n) - 1) * MpMax <= MpMax
  BY <1>2, <1>7
<1>11. \A i \in 1..NumChunks(n) :
          Chunks(n, data, dataend)[i] =
             IF i < NumChunks(n) THEN [type |-> data, n |-> MpMax]
             ELSE [type |-> dataend, n |-> n - (NumChunks(n) - 1) * MpMax]
  <2>1. \A i \in 1..(last + 1) : i <= last <=> i < last + 1
    BY <1>2
  <2> QED BY <2>1, <1>3, <1>5, <1>7
<1> QED BY <1>3, <1>6, <1>8, <1>9, <1>10, <1>11

\* The i-th of the n messages that carry nodes.
ChunkMsg(n, i, data, dataend) ==
    IF i < NumChunks(n) THEN [type |-> data, n |-> MpMax]
    ELSE [type |-> dataend, n |-> n - (NumChunks(n) - 1) * MpMax]

\* w is the list s, then the list t.
Joins(w, s, t) ==
    /\ Len(w) = Len(s) + Len(t)
    /\ \A i \in 1..Len(s) : w[i] = s[i]
    /\ \A i \in 1..Len(t) : w[Len(s) + i] = t[i]

\* What Joins says of a concatenation.
LEMMA ConcatJoins ==
  ASSUME NEW s \in Seq(Unit), NEW t \in Seq(Unit)
  PROVE  s \o t \in Seq(Unit) /\ Joins(s \o t, s, t)
BY ConcatIs DEF Joins

\* Six lists of messages, one after the other as in a script with an EMPDAG.
LEMMA JoinedIs ==
  ASSUME NEW h, NEW d, NEW x, NEW y, NEW z, NEW e, NEW w, NEW w1, NEW w2, NEW w3, NEW w4,
         Len(h) = 2, Len(d) = 1, Len(e) = 1, Len(x) \in Nat, Len(y) \in Nat, Len(z) \in Nat,
         Joins(w1, d, x), Joins(w2, w1, y), Joins(w3, w2, z), Joins(w4, h, w3),
         Joins(w, w4, e)
  PROVE  /\ Len(w) = 4 + Len(x) + Len(y) + Len(z)
         /\ w[1] = h[1] /\ w[2] = h[2] /\ w[3] = d[1] /\ w[Len(w)] = e[1]
         /\ \A i \in 1..Len(x) : w[3 + i] = x[i]
         /\ \A i \in 1..Len(y) : w[3 + Len(x) + i] = y[i]
         /\ \A i \in 1..Len(z) : w[3 + Len(x) + Len(y) + i] = z[i]
<1> DEFINE n1 == Len(x)
           n2 == Len(z)
           p == Len(y)
<1> HIDE DEF n1, n2, p
<1>0. n1 \in Nat /\ n2 \in Nat /\ p \in Nat
  BY DEF n1, n2, p
<1>1. /\ Len(w1) = 1 + n1 /\ w1[1] = d[1]
      /\ \A i \in 1..n1 : w1[1 + i] = x[i]
  BY <1>0 DEF Joins, n1
<1>2. /\ Len(w2) = 1 + n1 + p
      /\ \A i \in 1..(1 + n1) : w2[i] = w1[i]
      /\ \A i \in 1..p : w2[1 + n1 + i] = y[i]
  BY <1>0, <1>1 DEF Joins, p
<1>3. /\ Len(w3) = 1 + n1 + p + n2
      /\ \A i \in 1..(1 + n1 + p) : w3[i] = w2[i]
      /\ \A i \in 1..n2 : w3[1 + n1 + p + i] = z[i]
  BY <1>0, <1>2 DEF Joins, n2
<1>4. /\ Len(w4) = 3 + n1 + p + n2
      /\ w4[1] = h[1] /\ w4[2] = h[2]
      /\ \A i \in 1..(1 + n1 + p + n2) : w4[2 + i] = w3[i]
  BY <1>0, <1>3 DEF Joins
<1>5. /\ Len(w) = 4 + n1 + p + n2 /\ w[Len(w)] = e[1]
      /\ \A i \in 1..(3 + n1 + p + n2) : w[i] = w4[i]
  <2>1. Len(w) = Len(w4) + 1 /\ w[Len(w4) + 1] = e[1]
    BY DEF Joins
  <2>2. \A i \in 1..Len(w4) : w[i] = w4[i]
    BY DEF Joins
  <2> QED BY <1>0, <1>4, <2>1, <2>2
<1>8. w[1] = h[1] /\ w[2] = h[2] /\ w[3] = d[1]
  <2>1. /\ 1 \in 1..(3 + n1 + p + n2) /\ 2 \in 1..(3 + n1 + p + n2)
        /\ 3 \in 1..(3 + n1 + p + n2)
        /\ 1 \in 1..(1 + n1 + p + n2) /\ 1 \in 1..(1 + n1 + p) /\ 1 \in 1..(1 + n1)
    BY <1>0
  <2>2. w[3] = w4[2 + 1] /\ w4[2 + 1] = w3[1] /\ w3[1] = w2[1] /\ w2[1] = w1[1]
    BY <2>1, <1>5, <1>4, <1>3, <1>2
  <2> QED BY <2>1, <2>2, <1>5, <1>4, <1>1
<1>9. ASSUME NEW i \in 1..n1 PROVE w[3 + i] = x[i]
  <2>1. /\ 3 + i \in 1..(3 + n1 + p + n2) /\ 2 + (1 + i) = 3 + i
        /\ 1 + i \in 1..(1 + n1 + p + n2) /\ 1 + i \in 1..(1 + n1 + p)
        /\ 1 + i \in 1..(1 + n1)
    BY <1>0
  <2>2. w[3 + i] = w4[2 + (1 + i)] /\ w4[2 + (1 + i)] = w3[1 + i]
    BY <2>1, <1>5, <1>4
  <2>3. w3[1 + i] = w2[1 + i] /\ w2[1 + i] = w1[1 + i] /\ w1[1 + i] = x[i]
    BY <2>1, <1>1, <1>2, <1>3
  <2> QED BY <2>2, <2>3
<1>10. ASSUME NEW i \in 1..p PROVE w[3 + n1 + i] = y[i]
  <2>1. /\ 3 + n1 + i \in 1..(3 + n1 + p + n2) /\ 2 + (1 + n1 + i) = 3 + n1 + i
        /\ 1 + n1 + i \in 1..(1 + n1 + p + n2) /\ 1 + n1 + i \in 1..(1 + n1 + p)
    BY <1>0
  <2>2. w[3 + n1 + i] = w4[2 + (1 + n1 + i)] /\ w4[2 + (1 + n1 + i)] = w3[1 + n1 + i]
    BY <2>1, <1>5, <1>4
  <2>3. w3[1 + n1 + i] = w2[1 + n1 + i] /\ w2[1 + n1 + i] = y[i]
    BY <2>1, <1>2, <1>3
  <2> QED BY <2>2, <2>3
<1>11. ASSUME NEW i \in 1..n2 PROVE w[3 + n1 + p + i] = z[i]
  <2>1. /\ 3 + n1 + p + i \in 1..(3 + n1 + p + n2)
        /\ 2 + (1 + n1 + p + i) = 3 + n1 + p + i
        /\ 1 + n1 + p + i \in 1..(1 + n1 + p + n2)
    BY <1>0
  <2>2. w[3 + n1 + p + i] = w4[2 + (1 + n1 + p + i)]
    BY <2>1, <1>5
  <2>3. w4[2 + (1 + n1 + p + i)] = w3[1 + n1 + p + i] /\ w3[1 + n1 + p + i] = z[i]
    BY <2>1, <1>3, <1>4
  <2> QED BY <2>2, <2>3
<1> QED BY <1>5, <1>8, <1>9, <1>10, <1>11 DEF n1, n2, p

\* The script of a model, message by message.
LEMMA ScriptIs ==
  ASSUME NEW m \in Models \cup {NoModel}
  PROVE  /\ m.mps \in Nat /\ m.nashs \in Nat /\ m.id \in Nat /\ m.dag \in BOOLEAN
         /\ N1(m) \in Nat \ {0} /\ N2(m) \in Nat /\ Total(m) \in Nat /\ Total(m) >= 3
         /\ Script(m) \in Seq(Unit) /\ Len(Script(m)) = Total(m)
         /\ Script(m)[1] = Msg("NewModelStart") /\ Script(m)[2] = Msg("NewModelName")
         /\ Script(m)[Total(m)] = Msg("NewModelEnd")
         /\ m.dag =>
              /\ Total(m) = 4 + N1(m) + m.mps + N2(m)
              /\ Script(m)[3] = Msg("NewEmpDagStart")
              /\ \A i \in 1..N1(m) : Script(m)[3 + i] =
                   ChunkMsg(m.mps, i, "MathPrgmGuiData", "MathPrgmGuiDataEnd")
              /\ \A i \in 1..m.mps : Script(m)[3 + N1(m) + i] = Msg("MathPrgmGuiName")
              /\ \A i \in 1..N2(m) : Script(m)[3 + N1(m) + m.mps + i] =
                   ChunkMsg(m.nashs, i, "NashGuiData", "NashGuiDataEnd")
<1> DEFINE h == <<Msg("NewModelStart"), Msg("NewModelName")>>
           d == <<Msg("NewEmpDagStart")>>
           x == Chunks(m.mps, "MathPrgmGuiData", "MathPrgmGuiDataEnd")
           y == [i \in 1..m.mps |-> Msg("MathPrgmGuiName")]
           z == IF m.nashs > 0 THEN Chunks(m.nashs, "NashGuiData", "NashGuiDataEnd")
                ELSE <<>>
           e == <<Msg("NewModelEnd")>>
<1>7. Script(m) = IF m.dag THEN (h \o (((d \o x) \o y) \o z)) \o e ELSE (h \o <<>>) \o e
  BY DEF Script, EmpDagScript
<1>0. \A t \in Types : Msg(t) \in Unit
  BY DEF Msg, Unit
<1>5. /\ h \in Seq(Unit) /\ Len(h) = 2
      /\ h[1] = Msg("NewModelStart") /\ h[2] = Msg("NewModelName")
  BY <1>0 DEF Types
<1> HIDE DEF h
<1>6. d \in Seq(Unit) /\ Len(d) = 1 /\ d[1] = Msg("NewEmpDagStart")
  BY <1>0 DEF Types
<1> HIDE DEF d
<1>8. e \in Seq(Unit) /\ Len(e) = 1 /\ e[1] = Msg("NewModelEnd")
  BY <1>0 DEF Types
<1> HIDE DEF e, x, y, z
<1>1. m.mps \in Nat /\ m.nashs \in Nat /\ m.id \in Nat /\ m.dag \in BOOLEAN
  <2>1. CASE m \in Models
    BY <2>1, BoundsAssumption
  <2>2. CASE m = NoModel
    BY <2>2 DEF NoModel
  <2> QED BY <2>1, <2>2
<1>2. /\ N1(m) \in Nat \ {0} /\ x \in Seq(Unit) /\ Len(x) = N1(m)
      /\ \A i \in 1..N1(m) : x[i] = ChunkMsg(m.mps, i, "MathPrgmGuiData", "MathPrgmGuiDataEnd")
  BY <1>1, ChunksAre DEF N1, ChunkMsg, x, Types
<1>3. /\ N2(m) \in Nat /\ z \in Seq(Unit) /\ Len(z) = N2(m)
      /\ \A i \in 1..N2(m) : z[i] = ChunkMsg(m.nashs, i, "NashGuiData", "NashGuiDataEnd")
  <2>1. CASE m.nashs > 0
    BY <2>1, <1>1, ChunksAre, ZenonT(30) DEF N2, ChunkMsg, z, Types
  <2>2. CASE ~(m.nashs > 0)
    BY <2>2, <1>1 DEF N2, z
  <2> QED BY <2>1, <2>2
<1>4. /\ y \in Seq(Unit) /\ Len(y) = m.mps
      /\ \A i \in 1..m.mps : y[i] = Msg("MathPrgmGuiName")
  <2>1. y \in [1..m.mps -> Unit] /\ \A i \in 1..m.mps : y[i] = Msg("MathPrgmGuiName")
    BY <1>0 DEF y, Types
  <2> QED BY <2>1, <1>1, FunctionIsList
<1>9. Total(m) \in Nat /\ Total(m) >= 3
  BY <1>1, <1>2, <1>3 DEF Total
<1>10. CASE m.dag
  <2>1. Script(m) = (h \o (((d \o x) \o y) \o z)) \o e
    BY <1>7, <1>10
  <2>2. Total(m) = 4 + N1(m) + m.mps + N2(m)
    BY <1>10 DEF Total
  <2> DEFINE w == Script(m)
  <2> HIDE DEF w
  <2>3. /\ w \in Seq(Unit) /\ Len(w) = 4 + Len(x) + Len(y) + Len(z)
        /\ w[1] = h[1] /\ w[2] = h[2] /\ w[3] = d[1] /\ w[Len(w)] = e[1]
        /\ \A i \in 1..Len(x) : w[3 + i] = x[i]
        /\ \A i \in 1..Len(y) : w[3 + Len(x) + i] = y[i]
        /\ \A i \in 1..Len(z) : w[3 + Len(x) + Len(y) + i] = z[i]
    <3> DEFINE w1 == d \o x
               w2 == w1 \o y
               w3 == w2 \o z
               w4 == h \o w3
    <3>1. w1 \in Seq(Unit) /\ Joins(w1, d, x)
      BY <1>2, <1>6, ConcatJoins
    <3>6. w = w4 \o e
      BY <2>1 DEF w
    <3> HIDE DEF w1
    <3>2. w2 \in Seq(Unit) /\ Joins(w2, w1, y)
      BY <3>1, <1>4, ConcatJoins
    <3> HIDE DEF w2
    <3>3. w3 \in Seq(Unit) /\ Joins(w3, w2, z)
      BY <3>2, <1>3, ConcatJoins
    <3> HIDE DEF w3
    <3>4. w4 \in Seq(Unit) /\ Joins(w4, h, w3)
      BY <3>3, <1>5, ConcatJoins
    <3> HIDE DEF w4
    <3>5. w \in Seq(Unit) /\ Joins(w, w4, e)
      BY <3>4, <3>6, <1>8, ConcatJoins
    <3>7. Len(x) \in Nat /\ Len(y) \in Nat /\ Len(z) \in Nat
      BY <1>1, <1>2, <1>3, <1>4
    <3>8. Len(h) = 2 /\ Len(d) = 1 /\ Len(e) = 1
      BY <1>5, <1>6, <1>8
    <3>9. Joins(w1, d, x) /\ Joins(w2, w1, y) /\ Joins(w3, w2, z) /\ Joins(w4, h, w3) /\ Joins(w, w4, e)
      BY <3>1, <3>2, <3>3, <3>4, <3>5
    <3>10. /\ Len(w) = 4 + Len(x) + Len(y) + Len(z)
           /\ w[1] = h[1] /\ w[2] = h[2] /\ w[3] = d[1] /\ w[Len(w)] = e[1]
           /\ \A i \in 1..Len(x) : w[3 + i] = x[i]
           /\ \A i \in 1..Len(y) : w[3 + Len(x) + i] = y[i]
           /\ \A i \in 1..Len(z) : w[3 + Len(x) + Len(y) + i] = z[i]
      BY ONLY <3>7, <3>8, <3>9, JoinedIs
    <3> QED BY <3>5, <3>10
  <2>4. Len(w) = Total(m) /\ w[Total(m)] = e[1]
    BY <2>2, <2>3, <1>2, <1>3, <1>4
  <2>5. /\ w[1] = Msg("NewModelStart") /\ w[2] = Msg("NewModelName")
        /\ w[3] = Msg("NewEmpDagStart") /\ w[Total(m)] = Msg("NewModelEnd")
    BY <2>3, <2>4, <1>5, <1>6, <1>8
  <2>6. /\ \A i \in 1..N1(m) : w[3 + i] =
              ChunkMsg(m.mps, i, "MathPrgmGuiData", "MathPrgmGuiDataEnd")
        /\ \A i \in 1..m.mps : w[3 + N1(m) + i] = Msg("MathPrgmGuiName")
        /\ \A i \in 1..N2(m) : w[3 + N1(m) + m.mps + i] =
              ChunkMsg(m.nashs, i, "NashGuiData", "NashGuiDataEnd")
    BY <2>3, <1>2, <1>3, <1>4, ZenonT(30)
  <2> QED BY <1>1, <1>2, <1>3, <1>9, <1>10, <2>2, <2>3, <2>4, <2>5, <2>6 DEF w
<1>11. CASE ~m.dag
  <2>1. Total(m) = 3
    BY <1>11 DEF Total
  <2>2. h \o <<>> = h
    BY <1>5
  <2>3. /\ h \o e \in Seq(Unit) /\ Len(h \o e) = 3 /\ \A i \in 1..2 : (h \o e)[i] = h[i]
        /\ \A i \in 1..1 : (h \o e)[2 + i] = e[i]
    <3>1. h \o e \in Seq(Unit) /\ Joins(h \o e, h, e)
      BY <1>5, <1>8, ConcatJoins
    <3> QED BY <3>1, <1>5, <1>8 DEF Joins
  <2>4. 1 \in 1..2 /\ 2 \in 1..2 /\ 1 \in 1..1 /\ 2 + 1 = 3
    OBVIOUS
  <2>5. /\ Script(m) \in Seq(Unit) /\ Len(Script(m)) = 3 /\ Script(m)[1] = h[1] /\ Script(m)[2] = h[2]
        /\ Script(m)[3] = e[1]
    BY <1>7, <1>11, <2>2, <2>3, <2>4
  <2> QED BY <1>1, <1>2, <1>3, <1>5, <1>8, <1>9, <1>11, <2>1, <2>5
<1> QED BY <1>10, <1>11, <1>1

\* The units of a message: the message, and what a read leaves of a long one.
LEMMA UnitsAre ==
  ASSUME NEW msg \in Unit
  PROVE  /\ Units(msg) \in Seq(Unit) /\ Units(msg) # <<>> /\ Head(Units(msg)) = msg
         /\ msg.n > BufMax => Tail(Units(msg)) = <<Msg("Tail")>>
         /\ ~(msg.n > BufMax) => Tail(Units(msg)) = <<>>
<1>1. Msg("Tail") \in Unit
  BY DEF Msg, Unit, Types
<1> QED BY <1>1 DEF Units

\* A message with nodes does not fit the buffer only when MpMax and the number of
\* nodes do not.
LEMMA ChunkFits ==
  ASSUME NEW n \in Nat, NEW data \in Types, NEW dataend \in Types,
         NEW i \in 1..NumChunks(n)
  PROVE  /\ ChunkMsg(n, i, data, dataend).n \in Nat
         /\ ChunkMsg(n, i, data, dataend).n > BufMax => MpMax > BufMax /\ n > BufMax
<1>1. MpMax \in Nat /\ MpMax > 0 /\ BufMax \in Nat
  BY BoundsAssumption
<1>2. /\ NumChunks(n) \in Nat \ {0} /\ (NumChunks(n) - 1) * MpMax <= n
      /\ n - (NumChunks(n) - 1) * MpMax <= MpMax
      /\ NumChunks(n) > 1 => MpMax <= n
  BY ChunksAre
<1> DEFINE q == (NumChunks(n) - 1) * MpMax
<1>3. q \in Nat
  BY <1>1, <1>2
<1>4. CASE i < NumChunks(n)
  BY <1>1, <1>2, <1>4 DEF ChunkMsg
<1>5. CASE ~(i < NumChunks(n))
  <2>1. ChunkMsg(n, i, data, dataend).n = n - q
    BY <1>5 DEF ChunkMsg
  <2> HIDE DEF q
  <2>2. q <= n /\ n - q <= MpMax
    BY <1>2 DEF q
  <2> QED BY <1>1, <1>3, <2>1, <2>2
<1> QED BY <1>4, <1>5

-----------------------------------------------------------------------------
(***************************************************************************)
(* What a step may change without disturbing a part of the invariant.      *)
(***************************************************************************)

\* The lists are left alone.
LEMMA ListsFrame ==
  ASSUME Lists, UNCHANGED <<clients, backlog, turn, fds, closed>>
  PROVE  Lists'
BY DEF Lists

\* The stream of the log messages is left alone.
LEMMA FramedFrame ==
  ASSUME Framed, up'["log"] = up["log"], dropped' = dropped,
         PhaseOf("log")' = PhaseOf("log"), lib' = "logbody" <=> lib = "logbody",
         Broken("log") => Broken("log")'
  PROVE  Framed'
BY DEF Framed

\* The transfer is left alone.
LEMMA ExpectsFrame ==
  ASSUME NEW j, Expects(j), UNCHANGED <<job, cnt, models>>,
         PhaseOf("data")' = PhaseOf("data"),
         "data" \in blocking' => "data" \in blocking
  PROVE  Expects(j)'
BY DEF Expects, ExpectsHeader, ExpectsName, ExpectsMdlEnd, ExpectsMps, ExpectsMpName,
       ExpectsNashs, ExpectsEnd, HasAll, Got, Arrived

LEMMA SyncFrame ==
  ASSUME Sync, UNCHANGED <<k, job, cnt, models>>,
         up'["data"] = up["data"], down'["data"] = down["data"],
         PhaseOf("data")' = PhaseOf("data"),
         "data" \in blocking' => "data" \in blocking,
         lib' = lib \/ (lib \notin {"write", "ack"} /\ lib' \notin {"write", "ack"}),
         rc' = <<"ipc_send_mdl", "OK">> => rc = <<"ipc_send_mdl", "OK">>
  PROVE  Sync'
<1>1. Expects(k) => Expects(k)'
  BY ExpectsFrame
<1>2. Expects(k + 1) => Expects(k + 1)'
  BY ExpectsFrame
<1>3. HasAll(Total(job) + 1) => HasAll(Total(job) + 1)'
  BY DEF HasAll, Got, Arrived
<1> QED BY <1>1, <1>2, <1>3
        DEF Sync, Quiet, Writing, Sent, Answered, Refused, GivenUp, Overrun

-----------------------------------------------------------------------------
(***************************************************************************)
(* Every step preserves the invariant: the library.                        *)
(***************************************************************************)

\* What the invariant says of the descriptors.
LEMMA Descriptors ==
  ASSUME Lists, Life, Values
  PROVE  /\ fds = {} \/ fds = {"log"} \/ fds = {"log", "data"}
         /\ "log" \notin fds => fds = {} /\ turn = <<>> /\ gui # "corrupt"
         /\ lib \in {"write", "ack"} /\ gui \notin {"dead", "corrupt"} => ~Broken("data")
         /\ rc = <<"ipc_send_mdl", "OK">> => lib \notin {"sigwait", "connect_gui", "connect_data"}
         /\ turn # <<>> => Head(turn) \in fds
<1>1. turn # <<>> => Head(turn) \in fds
  BY TailOfList DEF Lists
<1>2. "data" \notin closed
  BY DEF Lists
<1> QED BY <1>1, <1>2 DEF Life, Values, Conns, Broken, GuiGone

\* The invariant holds before imgui_start is called.
LEMMA InitIInv == Init => IInv
<1> SUFFICES ASSUME Init PROVE IInv
  OBVIOUS
<1> USE DEF Init
<1>1. Values
  <2>1. job \in Models \cup {NoModel} /\ k \in 0..Len(Script(job))
    <3>1. NoModel \in Models \cup {NoModel}
      OBVIOUS
    <3>2. Len(Script(NoModel)) \in Nat
      BY <3>1, ScriptIs
    <3> QED BY <3>2
  <2> QED BY <2>1 DEF Values, Phases
<1>2. Streams
  <2>1. <<>> \in Seq(Unit) /\ <<>> \in Seq(Answers) /\ <<>> \in Seq(ModelRec)
    OBVIOUS
  <2> QED BY <2>1 DEF Streams
<1>3. Lists
  <2>1. <<>> \in Seq(Conns) /\ NoRep(<<>>)
    BY DEF NoRep
  <2>2. ToSet(<<>>) = {}
    BY DEF ToSet
  <2> QED BY <2>1, <2>2 DEF Lists
<1>4. Life
  BY DEF Life
<1>5. Framed
  <2>1. up["log"] = <<>> /\ PhaseOf("log") = "header"
    BY DEF Conns, PhaseOf
  <2>2. lib # "logbody" /\ Len(up["log"]) = 0 /\ 0 % 2 # 1
    BY <2>1
  <2> HIDE DEF Init
  <2> QED BY <2>1, <2>2 DEF Framed
<1>6. Sync
  <2>1. up["data"] = <<>> /\ down["data"] = <<>> /\ PhaseOf("data") = "header"
    BY DEF Conns, PhaseOf
  <2> QED BY <2>1 DEF Sync, Quiet
<1> QED BY <1>1, <1>2, <1>3, <1>4, <1>5, <1>6 DEF IInv

\* imgui_start: a new GUI process starts with empty streams and lists.
LEMMA ImguiStartStep == IInv /\ ImguiStart => IInv'
<1> SUFFICES ASSUME IInv, ImguiStart PROVE IInv'
  OBVIOUS
<1> USE DEF IInv
<1>1. CASE /\ lib' = "idle" /\ rc' # <<"ipc_send_mdl", "OK">>
           /\ UNCHANGED <<gui, turn, ph, backlog, clients, blocking, closed, models, up, down>>
  <2>1. /\ lib = "idle"
        /\ UNCHANGED <<fds, logging, job, k, sig, cnt, dropped>>
    BY DEF ImguiStart
  <2>2. Values' /\ Streams'
    BY <1>1, <2>1 DEF Values, Streams
  <2>3. Lists'
    BY <1>1, <2>1, ListsFrame
  <2>4. Life'
    BY <1>1, <2>1 DEF Life
  <2>5. PhaseOf("log")' = PhaseOf("log") /\ PhaseOf("data")' = PhaseOf("data")
    BY <1>1 DEF PhaseOf
  <2>6. Framed'
    BY <1>1, <2>1, <2>5, FramedFrame DEF Broken, GuiGone
  <2>7. gui' \notin {"dead", "corrupt"} => Sync'
    BY <1>1, <2>1, <2>5, SyncFrame
  <2> QED BY <2>2, <2>3, <2>4, <2>6, <2>7
<1>2. CASE /\ "log" \notin fds /\ lib' = "sigwait" /\ gui' = "exec"
           /\ turn' = <<>> /\ ph' = "header" /\ backlog' = <<>> /\ clients' = <<>>
           /\ blocking' = {} /\ closed' = {} /\ models' = <<>>
           /\ up' = [c \in Conns |-> <<>>] /\ down' = [c \in Conns |-> <<>>]
           /\ UNCHANGED rc
  <2>1. UNCHANGED <<fds, logging, job, k, sig, cnt, dropped>>
    BY DEF ImguiStart
  <2>2. fds = {} /\ rc # <<"ipc_send_mdl", "OK">> /\ ~logging
    BY <1>2, Descriptors DEF Life, Values
  <2>3. Values'
    BY <1>2, <2>1, <2>2 DEF Values, Phases
  <2>4. Streams'
    <3>1. <<>> \in Seq(Unit) /\ <<>> \in Seq(Answers) /\ <<>> \in Seq(ModelRec)
      OBVIOUS
    <3> QED BY <1>2, <2>1, <3>1 DEF Streams
  <2>5. Lists'
    <3>1. <<>> \in Seq(Conns) /\ NoRep(<<>>)
      BY DEF NoRep
    <3>2. ToSet(<<>>) = {}
      BY DEF ToSet
    <3> QED BY <1>2, <3>1, <3>2 DEF Lists
  <2>6. Life'
    BY <1>2, <2>1, <2>2 DEF Life
  <2>7. /\ up'["log"] = <<>> /\ up'["data"] = <<>> /\ down'["data"] = <<>>
        /\ PhaseOf("log")' = "header" /\ PhaseOf("data")' = "header"
    BY <1>2 DEF Conns, PhaseOf
  <2>8. Framed'
    <3>1. lib' # "logbody" /\ Len(up'["log"]) = 0 /\ 0 % 2 # 1
      BY <1>2, <2>7
    <3> QED BY <2>7, <3>1 DEF Framed
  <2>9. Sync'
    BY <1>2, <2>2, <2>7 DEF Sync, Quiet
  <2> QED BY <2>3, <2>4, <2>5, <2>6, <2>8, <2>9
<1> QED BY <1>1, <1>2 DEF ImguiStart, Return

\* The library is woken.
LEMMA SigWaitStep == IInv /\ SigWait => IInv'
<1> SUFFICES ASSUME IInv, SigWait PROVE IInv'
  OBVIOUS
<1> USE DEF IInv
<1>1. /\ lib = "sigwait" /\ lib' = "connect_gui"
      /\ UNCHANGED <<fds, logging, job, k, rc, gui, backlog, clients, turn, ph, cnt,
                     blocking, closed, models, up, down, dropped>>
  BY DEF SigWait
<1>2. Values' /\ Streams'
  BY <1>1 DEF Values, Streams
<1>3. Lists'
  BY <1>1, ListsFrame
<1>4. Life'
  BY <1>1 DEF Life
<1>5. PhaseOf("log")' = PhaseOf("log") /\ PhaseOf("data")' = PhaseOf("data")
  BY <1>1 DEF PhaseOf
<1>6. Framed'
  BY <1>1, <1>5, FramedFrame DEF Broken, GuiGone
<1>7. gui' \notin {"dead", "corrupt"} => Sync'
  BY <1>1, <1>5, SyncFrame
<1> QED BY <1>2, <1>3, <1>4, <1>6, <1>7

\* One connection of the library: it waits for accept, or the call fails.
LEMMA ConnectStep ==
  ASSUME IInv, NEW c \in Conns, lib \in {"connect_gui", "connect_data"},
         UNCHANGED <<job, k, sig, gui, clients, turn, ph, cnt, blocking, closed,
                     models, up, down, dropped>>,
         rc' = rc \/ rc' # <<"ipc_send_mdl", "OK">>,
         c \notin fds, c = "data" => lib = "connect_data",
         \/ /\ gui = "loop" /\ fds' = fds \cup {c} /\ backlog' = Append(backlog, c)
            /\ lib' = IF c = "log" THEN "connect_data" ELSE "idle"
            /\ logging' \in BOOLEAN /\ (logging' => c = "data" \/ logging)
         \/ lib' = "idle" /\ UNCHANGED <<fds, logging, backlog>>
  PROVE  IInv'
<1> USE DEF IInv
<1>1. Values' /\ Streams'
  BY DEF Values, Streams
<1>2. Lists'
  <2>1. CASE UNCHANGED <<fds, logging, backlog>>
    BY <2>1, ListsFrame
  <2>2. CASE fds' = fds \cup {c} /\ backlog' = Append(backlog, c)
    <3>1. c \notin ToSet(backlog) /\ c \notin ToSet(clients) /\ c \notin closed
      BY DEF Lists
    <3>2. /\ Append(backlog, c) \in Seq(Conns) /\ NoRep(Append(backlog, c))
          /\ ToSet(Append(backlog, c)) = ToSet(backlog) \cup {c}
      BY <3>1, AppendToList DEF Lists
    <3> QED BY <2>2, <3>1, <3>2 DEF Lists
  <2> QED BY <2>1, <2>2
<1>3. Life'
  BY DEF Life, Conns
<1>4. PhaseOf("log")' = PhaseOf("log") /\ PhaseOf("data")' = PhaseOf("data")
  BY DEF PhaseOf
<1>5. Framed'
  BY <1>4, FramedFrame DEF Broken, GuiGone
<1>6. gui' \notin {"dead", "corrupt"} => Sync'
  BY <1>4, SyncFrame
<1> QED BY <1>1, <1>2, <1>3, <1>5, <1>6

\* Both connections of imgui_start.
LEMMA ConnectGuiStep == IInv /\ (ConnectGui \/ ConnectData) => IInv'
<1>1. ASSUME IInv, ConnectGui PROVE IInv'
  <2>1. "log" \in Conns /\ "log" \notin fds
    BY <1>1 DEF ConnectGui, IInv, Life, Conns
  <2> QED BY <1>1, <2>1, ConnectStep DEF ConnectGui, Connect, Return, IInv, Values
<1>2. ASSUME IInv, ConnectData PROVE IInv'
  <2>1. "data" \in Conns /\ "data" \notin fds
    BY <1>2 DEF ConnectData, IInv, Life, Conns
  <2>2. /\ lib = "connect_data"
        /\ UNCHANGED <<job, k, sig, gui, clients, turn, ph, cnt, blocking, closed,
                       models, up, down, dropped>>
    BY <1>2 DEF ConnectData, Connect
  <2>3. rc' # <<"ipc_send_mdl", "OK">>
    BY <1>2 DEF ConnectData, Connect, Return
  <2>4. \/ /\ gui = "loop" /\ fds' = fds \cup {"data"} /\ backlog' = Append(backlog, "data")
           /\ lib' = "idle" /\ logging' = TRUE
        \/ lib' = "idle" /\ UNCHANGED <<fds, logging, backlog>>
    BY <1>2 DEF ConnectData, Connect, Return
  <2> QED BY <1>2, <2>1, <2>2, <2>3, <2>4, ConnectStep
<1> QED BY <1>1, <1>2

\* A step that leaves the GUI, the descriptors, the models and the stream of the log
\* messages alone.
LEMMA TransferFrame ==
  ASSUME IInv, UNCHANGED <<fds, logging, guivars, dropped>>, up'["log"] = up["log"],
         lib \in {"idle", "write", "ack"}, lib' \in {"idle", "write", "ack", "gone"},
         Values', Streams', gui' \notin {"dead", "corrupt"} => Sync',
         lib' \in {"write", "ack"} => "data" \in fds /\ k' \in 1..Len(Script(job))',
         rc' = <<"ipc_send_mdl", "OK">> => "data" \in fds
  PROVE  IInv'
<1> USE DEF IInv, guivars
<1>1. Lists'
  BY ListsFrame
<1>2. Life'
  BY DEF Life
<1>3. PhaseOf("log")' = PhaseOf("log")
  BY DEF PhaseOf
<1>4. Framed'
  BY <1>3, FramedFrame DEF Broken, GuiGone
<1> QED BY <1>1, <1>2, <1>4

\* ipc_send_mdl starts; what an earlier transfer left is gone.
LEMMA SendModelStep == IInv /\ SendModel => IInv'
<1> SUFFICES ASSUME IInv, SendModel PROVE IInv'
  OBVIOUS
<1>1. PICK m \in Models : job' = m
  BY DEF SendModel
<1>2. /\ lib = "idle" /\ "data" \in fds /\ k' = 1 /\ lib' = "write"
      /\ UNCHANGED <<fds, logging, rc, guivars, up, down, dropped>>
  BY DEF SendModel
<1>3. Len(Script(m)) \in Nat /\ Len(Script(m)) >= 3 /\ Script(job)' = Script(m)
  BY <1>1, ScriptIs
<1>4. Values' /\ Streams'
  BY <1>1, <1>2, <1>3 DEF IInv, Values, Streams, guivars
<1>5. gui' \notin {"dead", "corrupt"} => Sync'
  <2> SUFFICES ASSUME gui \notin {"dead", "corrupt"} PROVE Sync'
    BY <1>2 DEF guivars
  <2>1. up["data"] = <<>> /\ down["data"] = <<>> /\ PhaseOf("data") = "header"
    BY <1>2 DEF IInv, Sync, Quiet, Writing, Sent, Answered, Refused, GivenUp, Overrun
  <2>2. PhaseOf("data")' = "header"
    BY <1>2, <2>1 DEF PhaseOf, guivars
  <2>3. ExpectsHeader(1)'
    BY <2>2 DEF ExpectsHeader
  <2>4. Expects(k)'
    BY <1>2, <2>3 DEF Expects
  <2>5. Writing'
    BY <1>2, <2>1, <2>4 DEF Writing
  <2> QED BY <2>5 DEF Sync
<1>6. k' \in 1..Len(Script(job))'
  BY <1>2, <1>3
<1> QED BY <1>2, <1>4, <1>5, <1>6, TransferFrame DEF IInv, Life

\* The next message is written, unless the connection is broken.
LEMMA WriteMsgStep == IInv /\ WriteMsg => IInv'
<1> SUFFICES ASSUME IInv, WriteMsg PROVE IInv'
  OBVIOUS
<1>1. lib = "write" /\ UNCHANGED <<fds, logging, job, k, guivars, down, dropped>>
  BY DEF WriteMsg
<1>2. "data" \in fds /\ k \in 1..Len(Script(job))
  BY <1>1 DEF IInv, Life
<1>3. job \in Models \cup {NoModel} /\ up \in [Conns -> Seq(Unit)]
      /\ "data" \in Conns /\ "log" \in Conns
  BY DEF IInv, Values, Streams, Conns
<1>4. CASE Broken("data") /\ UNCHANGED up /\ lib' \in {"idle", "gone"}
           /\ (rc' = rc \/ rc' # <<"ipc_send_mdl", "OK">>)
  <2>1. Values' /\ Streams'
    BY <1>1, <1>4 DEF IInv, Values, Streams, guivars
  <2>2. gui' \in {"dead", "corrupt"}
    BY <1>1, <1>4, Descriptors DEF IInv, guivars
  <2> QED BY <1>1, <1>2, <1>4, <2>1, <2>2, TransferFrame
<1>5. CASE /\ ~Broken("data") /\ lib' = "ack" /\ UNCHANGED rc
           /\ up' = [up EXCEPT !["data"] = @ \o Units(Script(job)[k])]
  <2>1. Script(job)[k] \in Unit
    BY <1>2, <1>3, ScriptIs
  <2>2. Units(Script(job)[k]) \in Seq(Unit) /\ Units(Script(job)[k]) # <<>>
    BY <2>1, UnitsAre
  <2> DEFINE u == Units(Script(job)[k])
  <2> HIDE DEF u
  <2>3. /\ up'["data"] = up["data"] \o u /\ up'["log"] = up["log"] /\ up' \in [Conns -> Seq(Unit)]
        /\ up["data"] \in Seq(Unit)
    BY <1>3, <1>5, <2>2 DEF u
  <2>4. Values' /\ Streams'
    BY <1>1, <1>5, <2>3 DEF IInv, Values, Streams, guivars
  <2>5. gui' \notin {"dead", "corrupt"} => Sync'
    <3> SUFFICES ASSUME gui \notin {"dead", "corrupt"} PROVE Sync'
      BY <1>1 DEF guivars
    <3>0. UNCHANGED <<job, cnt, models, turn, ph, blocking, k>>
      BY <1>1 DEF guivars
    <3>1. PhaseOf("data")' = PhaseOf("data")
      BY <3>0 DEF PhaseOf
    <3>2. Writing \/ Overrun
      BY <1>1 DEF IInv, Sync, Quiet, Sent, Answered, Refused, GivenUp
    <3>3. CASE Writing
      <4>1. Expects(k)'
        BY <3>0, <3>1, <3>3, ExpectsFrame DEF Writing
      <4>2. up'["data"] = u /\ down'["data"] = <<>>
        BY <1>1, <3>3, <2>2, <2>3 DEF Writing, u
      <4>3. u = Units(Script(job)[k])'
        BY <3>0 DEF u
      <4>4. Sent'
        BY <1>5, <4>1, <4>2, <4>3 DEF Sent
      <4> QED BY <4>4 DEF Sync
    <3>4. CASE Overrun
      <4>1. up'["data"] # <<>> /\ Head(up'["data"]) = Head(up["data"])
        <5>1. u \in Seq(Unit) /\ Len(u) \in Nat
          BY <2>2 DEF u
        <5>2. /\ Len(up'["data"]) = Len(up["data"]) + Len(u)
              /\ \A i \in 1..Len(up["data"]) : up'["data"][i] = up["data"][i]
          BY <2>3, <5>1, ConcatIs
        <5>3. up["data"] # <<>> /\ Len(up["data"]) > 0
          BY <2>3, <3>4 DEF Overrun
        <5>4. up'["data"] \in Seq(Unit)
          BY <1>3, <2>3
        <5> QED BY <5>1, <5>2, <5>3, <5>4, <2>3
      <4>2. down["data"] = <<>> /\ down' = down
        BY <1>1, <3>4 DEF Overrun
      <4>3. Overrun'
        BY <1>5, <3>0, <3>1, <3>4, <4>1, <4>2 DEF Overrun, ChunksFit
      <4> QED BY <4>3 DEF Sync
    <3> QED BY <3>2, <3>3, <3>4
  <2> QED BY <1>1, <1>2, <1>5, <2>3, <2>4, <2>5, TransferFrame DEF IInv, Life
<1>6. \/ /\ Broken("data") /\ UNCHANGED up
         /\ \/ lib' = "idle" /\ rc' = <<"ipc_send_mdl", "Error_SystemError">>
            \/ lib' = "gone" /\ UNCHANGED rc
      \/ /\ ~Broken("data") /\ lib' = "ack" /\ UNCHANGED rc
         /\ up' = [up EXCEPT !["data"] = @ \o Units(Script(job)[k])]
  BY DEF WriteMsg, Return
<1>7. <<"ipc_send_mdl", "Error_SystemError">> # <<"ipc_send_mdl", "OK">>
  OBVIOUS
<1> QED BY <1>4, <1>5, <1>6, <1>7

\* After its last message the GUI has all of the model.
LEMMA OnlyHasAll ==
  ASSUME job \in Models \cup {NoModel}, Expects(Total(job) + 1)
  PROVE  HasAll(Total(job) + 1)
<1>1. /\ N1(job) \in Nat /\ N2(job) \in Nat /\ job.mps \in Nat
      /\ Total(job) \in Nat /\ Total(job) >= 3
      /\ job.dag => Total(job) = 4 + N1(job) + job.mps + N2(job)
  BY ScriptIs
<1>2. /\ ~ExpectsHeader(Total(job) + 1) /\ ~ExpectsName(Total(job) + 1)
      /\ ~ExpectsMdlEnd(Total(job) + 1) /\ ~ExpectsEnd(Total(job) + 1)
  BY <1>1 DEF ExpectsHeader, ExpectsName, ExpectsMdlEnd, ExpectsEnd
<1>3. ~ExpectsMps(Total(job) + 1)
  BY <1>1 DEF ExpectsMps
<1>4. ~ExpectsMpName(Total(job) + 1)
  BY <1>1 DEF ExpectsMpName
<1>5. ~ExpectsNashs(Total(job) + 1)
  BY <1>1 DEF ExpectsNashs
<1> QED BY <1>2, <1>3, <1>4, <1>5 DEF Expects

\* The answer is read; the last one ends the transfer.
LEMMA ReadAckStep == IInv /\ ReadAck => IInv'
<1> SUFFICES ASSUME IInv, ReadAck PROVE IInv'
  OBVIOUS
<1>1. lib = "ack" /\ UNCHANGED <<fds, logging, job, guivars, up, dropped>>
  BY DEF ReadAck
<1>2. "data" \in fds /\ k \in 1..Len(Script(job))
  BY <1>1 DEF IInv, Life
<1>3. /\ job \in Models \cup {NoModel} /\ down \in [Conns -> Seq(Answers)]
      /\ "data" \in Conns /\ down["data"] \in Seq(Answers)
  BY DEF IInv, Values, Streams, Conns
<1>4. Len(Script(job)) = Total(job) /\ Total(job) \in Nat
  BY <1>3, ScriptIs
<1>5. UNCHANGED <<job, cnt, models, turn, ph, blocking, gui>>
  BY <1>1 DEF guivars
<1>6. PhaseOf("data")' = PhaseOf("data")
  BY <1>5 DEF PhaseOf
<1>7. CASE /\ down["data"] = <<>> /\ Broken("data") /\ lib' = "idle" /\ UNCHANGED <<k, down>>
           /\ rc' # <<"ipc_send_mdl", "OK">>
  <2>1. Values' /\ Streams'
    BY <1>1, <1>7 DEF IInv, Values, Streams, guivars
  <2>2. gui' \in {"dead", "corrupt"}
    BY <1>1, <1>7, Descriptors DEF IInv, guivars
  <2> QED BY <1>1, <1>2, <1>7, <2>1, <2>2, TransferFrame
<1>8. CASE down["data"] # <<>> /\ down' = [down EXCEPT !["data"] = Tail(@)]
  <2>1. down'["data"] = Tail(down["data"]) /\ down' \in [Conns -> Seq(Answers)]
    BY <1>3, <1>8
  <2>2. CASE /\ Head(down["data"]) # Answer(k) /\ lib' = "idle" /\ UNCHANGED k
             /\ rc' # <<"ipc_send_mdl", "OK">>
    <3>1. Values' /\ Streams'
      BY <1>1, <2>1, <2>2 DEF IInv, Values, Streams, guivars
    <3>2. gui' \notin {"dead", "corrupt"} => Sync'
      <4> SUFFICES ASSUME gui \notin {"dead", "corrupt"} PROVE Sync'
        BY <1>5
      <4>1. Refused
        BY <1>1, <1>8, <2>2
           DEF IInv, Sync, Quiet, Writing, Sent, Answered, Refused, GivenUp, Overrun
      <4>2. Quiet'
        BY <1>1, <1>6, <2>1, <2>2, <4>1 DEF Quiet, Refused
      <4> QED BY <4>2 DEF Sync
    <3> QED BY <1>1, <1>2, <2>2, <3>1, <3>2, TransferFrame
  <2>3. CASE /\ Head(down["data"]) = Answer(k) /\ k = Len(Script(job))
             /\ lib' = "idle" /\ UNCHANGED k
    <3>1. Values' /\ Streams'
      BY <1>1, <2>1, <2>3 DEF IInv, Values, Streams, guivars
    <3>2. gui' \notin {"dead", "corrupt"} => Sync'
      <4> SUFFICES ASSUME gui \notin {"dead", "corrupt"} PROVE Sync'
        BY <1>5
      <4>1. Answered
        BY <1>1, <1>2, <1>8, <2>3
           DEF IInv, Sync, Quiet, Writing, Sent, Refused, GivenUp, Overrun, Answer
      <4>2. HasAll(Total(job) + 1)
        <5>1. Expects(Total(job) + 1)
          BY <1>4, <2>3, <4>1 DEF Answered
        <5> QED BY <1>3, <5>1, OnlyHasAll
      <4>3. HasAll(Total(job) + 1)'
        BY <1>5, <1>6, <4>2 DEF HasAll, Got, Arrived
      <4>4. Quiet'
        BY <1>1, <1>6, <2>1, <2>3, <4>1, <4>2, <4>3 DEF Quiet, Answered, HasAll
      <4> QED BY <4>4 DEF Sync
    <3> QED BY <1>1, <1>2, <2>3, <3>1, <3>2, TransferFrame
  <2>4. CASE /\ Head(down["data"]) = Answer(k) /\ k < Len(Script(job))
             /\ k' = k + 1 /\ lib' = "write" /\ UNCHANGED rc
    <3>0. k' \in 1..Len(Script(job)) /\ Script(job)' = Script(job)
      BY <1>2, <1>4, <1>5, <2>4
    <3>1. Values' /\ Streams'
      BY <1>1, <2>1, <2>4, <3>0 DEF IInv, Values, Streams, guivars
    <3>2. gui' \notin {"dead", "corrupt"} => Sync'
      <4> SUFFICES ASSUME gui \notin {"dead", "corrupt"} PROVE Sync'
        BY <1>5
      <4>1. Answered \/ Overrun
        BY <1>1, <1>2, <1>8, <2>4
           DEF IInv, Sync, Quiet, Writing, Sent, Refused, GivenUp, Overrun, Answer
      <4>2. CASE Answered
        <5>1. Expects(k + 1)
          BY <4>2 DEF Answered
        <5>2. \A j : Expects(j) => Expects(j)'
          BY <1>5, <1>6, ExpectsFrame
        <5>3. Expects(k)'
          <6>1. PICK j : j = k + 1
            OBVIOUS
          <6>2. Expects(j)' /\ k' = j
            BY <2>4, <5>1, <5>2, <6>1
          <6> QED BY <6>2 DEF Expects, ExpectsHeader, ExpectsName,
                ExpectsMdlEnd, ExpectsMps, ExpectsMpName, ExpectsNashs, ExpectsEnd, HasAll,
                Got, Arrived
        <5>4. up'["data"] = <<>> /\ down'["data"] = <<>>
          BY <1>1, <2>1, <4>2 DEF Answered
        <5>5. Writing'
          BY <2>4, <5>3, <5>4 DEF Writing
        <5> QED BY <5>5 DEF Sync
      <4>3. CASE Overrun
        <5>1. down'["data"] = <<>>
          BY <1>8, <2>1, <4>3 DEF Overrun
        <5>2. Overrun'
          BY <1>1, <1>6, <2>4, <4>3, <5>1 DEF Overrun, ChunksFit
        <5> QED BY <5>2 DEF Sync
      <4> QED BY <4>1, <4>2, <4>3
    <3> QED BY <1>1, <1>2, <2>4, <3>0, <3>1, <3>2, TransferFrame DEF IInv, Life
  <2> QED BY <1>8, <2>2, <2>3, <2>4 DEF ReadAck, Return
<1> QED BY <1>7, <1>8 DEF ReadAck, Return

\* A step of the library that leaves the transfers, the GUI and the descriptors alone.
LEMMA LogFrame ==
  ASSUME IInv, UNCHANGED <<fds, logging, job, k, rc, guivars, down>>,
         lib \in {"idle", "logbody"}, lib' \in {"idle", "logbody", "gone"},
         lib' = "logbody" => logging,
         up' \in [Conns -> Seq(Unit)], up'["data"] = up["data"], dropped' \in BOOLEAN, Framed'
  PROVE  IInv'
<1> USE DEF IInv, guivars
<1>1. Values' /\ Streams'
  BY DEF Values, Streams
<1>2. Lists'
  BY ListsFrame
<1>3. Life'
  BY DEF Life
<1>4. PhaseOf("data")' = PhaseOf("data")
  BY DEF PhaseOf
<1>5. gui' \notin {"dead", "corrupt"} => Sync'
  BY <1>4, SyncFrame
<1> QED BY <1>1, <1>2, <1>3, <1>5

\* A header or a text appended to the stream of the log messages.
LEMMA LogAppend ==
  ASSUME Framed, Streams, UNCHANGED guivars, dropped' = dropped,
         ~Broken("log"), NEW msg \in {Msg("LogMsgSolver"), Msg("Text")},
         up' = [up EXCEPT !["log"] = Append(@, msg)],
         (lib' = "logbody") <=> ~(lib = "logbody"),
         msg = IF lib = "logbody" THEN Msg("Text") ELSE Msg("LogMsgSolver")
  PROVE  /\ up' \in [Conns -> Seq(Unit)] /\ up'["data"] = up["data"] /\ Framed'
<1> DEFINE s == up["log"]
           t == Append(s, msg)
<1>1. msg \in Unit /\ s \in Seq(Unit) /\ up'["log"] = t /\ up'["data"] = up["data"]
      /\ up' \in [Conns -> Seq(Unit)]
  BY DEF Msg, Unit, Types, Streams, Conns
<1>2. /\ Len(t) = Len(s) + 1 /\ Len(s) \in Nat /\ t[Len(s) + 1] = msg
      /\ \A i \in 1..Len(s) : t[i] = s[i]
  BY <1>1
<1>3. PhaseOf("log")' = PhaseOf("log")
  BY DEF PhaseOf, guivars
<1>4. (\A i \in 1..Len(s) : s[i] \in {Msg("LogMsgSolver"), Msg("Text")})
      /\ PhaseOf("log") \in {"header", "logbody"}
  BY DEF Framed
<1>5. ~dropped => /\ \A i \in 1..Len(s) :
                       s[i] = IF (i % 2 = 1) <=> (PhaseOf("log") = "header")
                              THEN Msg("LogMsgSolver") ELSE Msg("Text")
                  /\ (lib = "logbody") <=> ((Len(s) % 2 = 1) <=> (PhaseOf("log") = "header"))
  BY DEF Framed
<1> HIDE DEF s, t
<1>6. \A i \in 1..Len(t) : i = Len(s) + 1 \/ i \in 1..Len(s)
  BY <1>2
<1>7. \A i \in 1..Len(t) : t[i] \in {Msg("LogMsgSolver"), Msg("Text")}
  BY <1>2, <1>4, <1>6
<1>8. (Len(t) % 2 = 1) <=> ~(Len(s) % 2 = 1)
  BY <1>2
<1>9. ASSUME ~dropped
      PROVE  /\ \A i \in 1..Len(t) :
                  t[i] = IF (i % 2 = 1) <=> (PhaseOf("log") = "header")
                         THEN Msg("LogMsgSolver") ELSE Msg("Text")
             /\ (lib' = "logbody") <=> ((Len(t) % 2 = 1) <=> (PhaseOf("log") = "header"))
  <2>1. (lib' = "logbody") <=> ((Len(t) % 2 = 1) <=> (PhaseOf("log") = "header"))
    BY <1>5, <1>8, <1>9
  <2>2. t[Len(t)] = IF (Len(t) % 2 = 1) <=> (PhaseOf("log") = "header")
                    THEN Msg("LogMsgSolver") ELSE Msg("Text")
    BY <2>1, <1>2
  <2> QED BY <2>1, <2>2, <1>2, <1>5, <1>6, <1>9
<1>10. Framed'
  BY <1>1, <1>3, <1>4, <1>7, <1>9 DEF Framed
<1> QED BY <1>1, <1>10

\* print_fd writes the header.
LEMMA LogHeaderStep == IInv /\ LogHeader => IInv'
<1> SUFFICES ASSUME IInv, LogHeader PROVE IInv'
  OBVIOUS
<1>1. /\ lib = "idle" /\ logging
      /\ UNCHANGED <<fds, logging, job, k, rc, guivars, down, dropped>>
  BY DEF LogHeader
<1>2. CASE UNCHANGED up /\ (lib' = "idle" \/ (Broken("log") /\ lib' = "gone"))
  <2>1. UNCHANGED <<gui, closed, turn, ph>>
    BY <1>1 DEF guivars
  <2>2. PhaseOf("log")' = PhaseOf("log")
    BY <2>1 DEF PhaseOf
  <2>3. Framed'
    BY <1>1, <1>2, <2>1, <2>2, FramedFrame DEF IInv, Broken, GuiGone
  <2> QED BY <1>1, <1>2, <2>3, LogFrame DEF IInv, Streams
<1>3. CASE /\ ~Broken("log") /\ lib' = "logbody"
           /\ up' = [up EXCEPT !["log"] = Append(@, Msg("LogMsgSolver"))]
  <2>1. /\ up' \in [Conns -> Seq(Unit)] /\ up'["data"] = up["data"] /\ Framed'
    BY <1>1, <1>3, LogAppend DEF IInv
  <2> QED BY <1>1, <1>3, <2>1, LogFrame DEF IInv, Streams
<1> QED BY <1>1, <1>2, <1>3 DEF LogHeader

\* print_fd writes the text, or gives it up.
LEMMA LogBodyStep == IInv /\ LogBody => IInv'
<1> SUFFICES ASSUME IInv, LogBody PROVE IInv'
  OBVIOUS
<1>1. /\ lib = "logbody" /\ UNCHANGED <<fds, logging, job, k, rc, guivars, down>>
  BY DEF LogBody
<1>2. CASE UNCHANGED up /\ lib' \in {"idle", "gone"}
           /\ ((Broken("log") /\ dropped' = dropped) \/ dropped' = TRUE)
  <2>1. UNCHANGED <<gui, closed, turn, ph>>
    BY <1>1 DEF guivars
  <2>2. PhaseOf("log")' = PhaseOf("log")
    BY <2>1 DEF PhaseOf
  <2>3. Broken("log") => Broken("log")'
    BY <1>1, <2>1 DEF Broken, GuiGone
  <2>4. Framed'
    BY <1>2, <2>2, <2>3 DEF IInv, Framed
  <2> QED BY <1>1, <1>2, <2>4, LogFrame DEF IInv, Streams
<1>3. CASE /\ ~Broken("log") /\ lib' = "idle" /\ dropped' = dropped
           /\ up' = [up EXCEPT !["log"] = Append(@, Msg("Text"))]
  <2>1. /\ up' \in [Conns -> Seq(Unit)] /\ up'["data"] = up["data"] /\ Framed'
    BY <1>1, <1>3, LogAppend DEF IInv
  <2> QED BY <1>1, <1>3, <2>1, LogFrame DEF IInv, Streams
<1> QED BY <1>1, <1>2, <1>3 DEF LogBody

\* The program ends.
LEMMA ExitStep == IInv /\ Exit => IInv'
<1> SUFFICES ASSUME IInv, Exit PROVE IInv'
  OBVIOUS
<1>1. /\ lib = "idle" /\ lib' = "gone"
      /\ UNCHANGED <<fds, logging, job, k, rc, guivars, up, down, dropped>>
  BY DEF Exit
<1>2. UNCHANGED <<gui, closed, turn, ph>>
  BY <1>1 DEF guivars
<1>3. PhaseOf("log")' = PhaseOf("log")
  BY <1>2 DEF PhaseOf
<1>4. Framed'
  BY <1>1, <1>2, <1>3, FramedFrame DEF IInv, Broken, GuiGone
<1> QED BY <1>1, <1>4, LogFrame DEF IInv, Streams

-----------------------------------------------------------------------------
(***************************************************************************)
(* Every step preserves the invariant: the GUI.                            *)
(***************************************************************************)

\* The life of the GUI process: its launch, its error exits and its end.
LEMMA LifeStep == IInv /\ (Exec \/ ServerInitSocket \/ Listen \/ CloseWindow) => IInv'
<1> SUFFICES ASSUME IInv, Exec \/ ServerInitSocket \/ Listen \/ CloseWindow PROVE IInv'
  OBVIOUS
<1> USE DEF IInv
<1>1. /\ UNCHANGED <<libvars, backlog, clients, turn, ph, cnt, blocking, closed, models,
                     up, down, dropped>>
      /\ turn = <<>> /\ gui \in {"exec", "init", "bound", "loop"}
      /\ gui' \in {"init", "noexec", "bound", "dead", "loop"}
      /\ gui = "loop" => gui' = "dead"
      /\ gui' \in {"init", "noexec", "bound"} => gui # "loop"
  BY DEF Exec, ServerInitSocket, Listen, CloseWindow, Life
<1>2. UNCHANGED <<lib, fds, logging, job, k, rc>>
  BY <1>1 DEF libvars
<1>3. Values' /\ Streams'
  BY <1>1, <1>2 DEF Values, Streams
<1>4. Lists'
  BY <1>1, <1>2, ListsFrame
<1>5. Life'
  BY <1>1, <1>2 DEF Life
<1>6. PhaseOf("log")' = PhaseOf("log") /\ PhaseOf("data")' = PhaseOf("data")
  BY <1>1 DEF PhaseOf
<1>7. Framed'
  BY <1>1, <1>2, <1>6, FramedFrame DEF Broken, GuiGone
<1>8. gui' \notin {"dead", "corrupt"} => Sync'
  BY <1>1, <1>2, <1>6, SyncFrame
<1> QED BY <1>3, <1>4, <1>5, <1>7, <1>8

\* A turn of the loop starts.
LEMMA PollStep == IInv /\ Poll => IInv'
<1> SUFFICES ASSUME IInv, Poll PROVE IInv'
  OBVIOUS
<1> USE DEF IInv
<1>1. /\ gui = "loop" /\ turn = <<>> /\ clients' = clients \o backlog /\ backlog' = <<>>
      /\ ph' = "header" /\ UNCHANGED <<libvars, gui, cnt, blocking, closed, models, up,
                                       down, dropped>>
  BY DEF Poll
<1>2. PICK new : turn' = Those(clients', {c \in ToSet(clients) : Readable(c)} \cup new)
  BY DEF Poll
<1>3. UNCHANGED <<lib, fds, logging, job, k, rc>>
  BY <1>1 DEF libvars
<1>4. /\ clients' \in Seq(Conns) /\ NoRep(clients')
      /\ ToSet(clients') = ToSet(clients) \cup ToSet(backlog)
  BY <1>1, ConcatOfLists DEF Lists
<1>5. turn' \in Seq(Conns) /\ NoRep(turn') /\ ToSet(turn') \subseteq ToSet(clients')
  <2> DEFINE s == clients'
             S == {c \in ToSet(clients) : Readable(c)} \cup new
  <2>1. s \in Seq(Conns) /\ NoRep(s) /\ turn' = Those(s, S)
    BY <1>2, <1>4
  <2> HIDE DEF s, S
  <2>2. turn' \in Seq(Conns) /\ NoRep(turn') /\ ToSet(turn') = ToSet(s) \cap S
    BY <2>1, ThoseProperties
  <2> QED BY <2>2 DEF s
<1>6. Values' /\ Streams'
  BY <1>1, <1>3 DEF Values, Streams, Phases
<1>7. Lists'
  <2>1. <<>> \in Seq(Conns) /\ NoRep(<<>>)
    BY DEF NoRep
  <2>2. ToSet(<<>>) = {}
    BY DEF ToSet
  <2> QED BY <1>1, <1>3, <1>4, <1>5, <2>1, <2>2 DEF Lists
<1>8. Life'
  BY <1>1, <1>3 DEF Life
<1>9. PhaseOf("log")' = PhaseOf("log") /\ PhaseOf("data")' = PhaseOf("data")
  BY <1>1 DEF PhaseOf
<1>10. Framed'
  BY <1>1, <1>3, <1>9, FramedFrame DEF Broken, GuiGone
<1>11. gui' \notin {"dead", "corrupt"} => Sync'
  BY <1>1, <1>3, <1>9, SyncFrame
<1> QED BY <1>6, <1>7, <1>8, <1>10, <1>11

\* What a step of the handler leaves alone, whoever its client is.
LEMMA HandlerStep ==
  ASSUME IInv, NEW c, Handling(c), HandlerFrame, UNCHANGED <<clients, closed>>,
         turn' = turn \/ NextClient, ph' \in Phases, cnt' \in Nat,
         blocking' \in SUBSET Conns, Streams', Framed', Sync'
  PROVE  IInv'
<1> USE DEF IInv, Handling, HandlerFrame, libvars
<1>1. Values'
  BY DEF Values
<1>2. Lists'
  <2>1. CASE turn' = turn
    BY <2>1, ListsFrame
  <2>2. CASE turn' = Tail(turn)
    <3>1. /\ Tail(turn) \in Seq(Conns) /\ NoRep(Tail(turn))
          /\ ToSet(Tail(turn)) = ToSet(turn) \ {Head(turn)}
      BY TailOfList DEF Lists
    <3> QED BY <2>2, <3>1 DEF Lists
  <2> QED BY <2>1, <2>2 DEF NextClient
<1>3. Life'
  BY DEF Life, NextClient
<1> QED BY <1>1, <1>2, <1>3

\* The client of a step of the handler, and what it does not disturb.
LEMMA ClientIs ==
  ASSUME IInv, NEW c, Handling(c)
  PROVE  /\ c \in fds /\ c \in Conns /\ c \in ToSet(clients) /\ c \notin closed
         /\ PhaseOf(c) = ph /\ (c # "log" => PhaseOf("log") = "header")
         /\ (c # "data" => PhaseOf("data") = "header")
         /\ Sync /\ up[c] \in Seq(Unit) /\ down[c] \in Seq(Answers)
<1> USE DEF Handling, IInv
<1>1. c \in ToSet(turn)
  BY TailOfList DEF Lists
<1> QED BY <1>1 DEF Lists, Values, PhaseOf, Streams

\* The loop of the handler does not change the phase of another client.
LEMMA OtherClient ==
  ASSUME NEW c, Handling(c), turn' = turn \/ NextClient, NEW d, d # c
  PROVE  PhaseOf(d)' = "header"
BY DEF Handling, PhaseOf, NextClient

\* The end of the stream, or nothing to read: any client.
LEMMA NoMoreStep == ASSUME IInv, NEW c, NoMore(c) PROVE IInv'
<1>1. /\ Handling(c) /\ ph = "header" /\ NextClient /\ HandlerFrame
      /\ UNCHANGED <<clients, cnt, blocking, closed, models, up, down>>
  BY DEF NoMore
<1>2. UNCHANGED <<lib, fds, logging, job, k, rc, gui, dropped>>
  BY <1>1 DEF HandlerFrame, libvars
<1>3. \A d \in Conns : PhaseOf(d) = "header" /\ PhaseOf(d)' = "header"
  BY <1>1 DEF NextClient, PhaseOf
<1>4. "log" \in Conns /\ "data" \in Conns
  BY DEF Conns
<1>5. Framed'
  BY <1>1, <1>2, <1>3, <1>4, FramedFrame DEF IInv, Broken, GuiGone
<1>6. Sync'
  BY <1>1, <1>2, <1>3, <1>4, ClientIs, SyncFrame
<1>7. Streams' /\ ph' \in Phases /\ cnt' \in Nat /\ blocking' \in SUBSET Conns
  BY <1>1, <1>2 DEF IInv, Streams, Values, Phases, NextClient
<1> QED BY <1>1, <1>5, <1>6, <1>7, HandlerStep

\* Odd and even numbers take turns.
LEMMA Parity == ASSUME NEW n \in Nat PROVE ((n + 1) % 2 = 1) <=> ~(n % 2 = 1)
OBVIOUS

\* A unit of the log messages is consumed: headers and texts stay in turns.
LEMMA LogConsume ==
  ASSUME IInv, Handling("log"), up["log"] # <<>>, Consume("log"), HandlerFrame,
         UNCHANGED <<turn, closed>>, ph \in {"header", "logbody"},
         ph' = IF ph = "header" THEN "logbody" ELSE "header"
  PROVE  Framed' /\ up' \in [Conns -> Seq(Unit)] /\ up'["data"] = up["data"]
<1> DEFINE s == up["log"]
           t == Tail(s)
<1>1. up \in [Conns -> Seq(Unit)] /\ "log" \in Conns /\ "data" \in Conns
  BY DEF IInv, Streams, Conns
<1>2. /\ s \in Seq(Unit) /\ s # <<>> /\ up'["log"] = t /\ up'["data"] = up["data"]
      /\ up' \in [Conns -> Seq(Unit)]
  BY <1>1 DEF Consume
<1>3. /\ Len(s) \in Nat /\ Len(s) > 0 /\ Len(t) = Len(s) - 1
      /\ \A i \in 1..Len(t) : t[i] = s[i + 1]
  BY <1>2
<1>4. PhaseOf("log") = ph /\ PhaseOf("log")' = ph'
  BY DEF PhaseOf, Handling
<1>5. Broken("log")' = Broken("log") /\ lib' = lib /\ dropped' = dropped
  BY DEF Broken, GuiGone, HandlerFrame, libvars
<1>6. \A i \in 1..Len(s) : s[i] \in {Msg("LogMsgSolver"), Msg("Text")}
  BY DEF IInv, Framed
<1>7. ~dropped /\ ~Broken("log") =>
         /\ \A i \in 1..Len(s) : s[i] = IF (i % 2 = 1) <=> (ph = "header")
                                        THEN Msg("LogMsgSolver") ELSE Msg("Text")
         /\ (lib = "logbody") <=> ((Len(s) % 2 = 1) <=> (ph = "header"))
  BY <1>4 DEF IInv, Framed
<1> HIDE DEF s, t
<1>8. \A i \in 1..Len(t) : i + 1 \in 1..Len(s) /\ ((i % 2 = 1) <=> ~((i + 1) % 2 = 1))
  BY <1>3, Parity
<1>9. (Len(t) % 2 = 1) <=> ~(Len(s) % 2 = 1)
  <2>1. Len(t) \in Nat /\ Len(s) = Len(t) + 1
    BY <1>3
  <2> QED BY <2>1, Parity
<1>10. \A i \in 1..Len(t) : t[i] \in {Msg("LogMsgSolver"), Msg("Text")}
  BY <1>3, <1>6, <1>8
<1>11. ASSUME ~dropped, ~Broken("log")
       PROVE  /\ \A i \in 1..Len(t) : t[i] = IF (i % 2 = 1) <=> (ph' = "header")
                                             THEN Msg("LogMsgSolver") ELSE Msg("Text")
              /\ (lib = "logbody") <=> ((Len(t) % 2 = 1) <=> (ph' = "header"))
  BY <1>3, <1>7, <1>8, <1>9, <1>11
<1>12. Framed'
  BY <1>2, <1>4, <1>5, <1>10, <1>11 DEF Framed
<1> QED BY <1>2, <1>12

\* The client whose messages are log messages.
LEMMA LogClientStep == ASSUME IInv, Serve("log") PROVE IInv'
<1>1. Handling("log")
  BY DEF Serve, NoMore, LogMsgSolver, ReadLogMsg, InvalidType, NewModelStart,
         NewModelName, NewModelEnd, NewEmpDagStart, ReadTail, ReadMps, ReadMpName,
         ReadNashs, ReadNashName, ReadEnd
<1>2. /\ "log" \in Conns /\ "log" \in ToSet(clients) /\ PhaseOf("log") = ph
      /\ PhaseOf("data") = "header" /\ Sync /\ up["log"] \in Seq(Unit)
  BY <1>1, ClientIs
<1>3. ph \in {"header", "logbody"}
  BY <1>2 DEF IInv, Framed
<1>4. up["log"] # <<>> => Head(up["log"]).type \in {"LogMsgSolver", "Text"}
  <2>1. up["log"] # <<>> => /\ 1 \in 1..Len(up["log"]) /\ Head(up["log"]) = up["log"][1]
    BY <1>2
  <2> QED BY <2>1 DEF IInv, Framed, Msg
<1>5. CASE NoMore("log")
  BY <1>5, NoMoreStep
<1>6. ASSUME HandlerFrame, turn' = turn \/ NextClient,
             UNCHANGED <<cnt, blocking, models, down>>, up'["data"] = up["data"]
      PROVE  Sync'
  <2>1. UNCHANGED <<lib, job, k, rc>>
    BY <1>6 DEF HandlerFrame, libvars
  <2>2. PhaseOf("data")' = "header"
    BY <1>1, <1>6, OtherClient
  <2> QED BY <1>2, <1>6, <2>1, <2>2, SyncFrame
<1>7. CASE LogMsgSolver("log")
  <2>1. /\ up["log"] # <<>> /\ Consume("log") /\ ph = "header" /\ ph' = "logbody"
        /\ UNCHANGED <<turn, clients, cnt, blocking, closed, models, down>> /\ HandlerFrame
    BY <1>7 DEF LogMsgSolver
  <2>2. Framed' /\ up' \in [Conns -> Seq(Unit)] /\ up'["data"] = up["data"]
    BY <1>1, <2>1, LogConsume
  <2>3. Sync'
    BY <1>6, <2>1, <2>2
  <2>4. Streams' /\ ph' \in Phases /\ cnt' \in Nat /\ blocking' \in SUBSET Conns
    BY <2>1, <2>2 DEF IInv, Streams, Values, Phases, HandlerFrame
  <2> QED BY <1>1, <2>1, <2>2, <2>3, <2>4, HandlerStep
<1>8. CASE ReadLogMsg("log")
  <2>1. /\ ph = "logbody" /\ UNCHANGED <<cnt, blocking, models, down>> /\ HandlerFrame
    BY <1>8 DEF ReadLogMsg
  <2>2. CASE /\ up["log"] # <<>> /\ Consume("log") /\ ph' = "header"
             /\ UNCHANGED <<turn, clients, closed>>
    <3>2. Framed' /\ up' \in [Conns -> Seq(Unit)] /\ up'["data"] = up["data"]
      BY <1>1, <2>1, <2>2, LogConsume
    <3>3. Sync'
      BY <1>6, <2>1, <2>2, <3>2
    <3>4. Streams' /\ ph' \in Phases /\ cnt' \in Nat /\ blocking' \in SUBSET Conns
      BY <2>1, <2>2, <3>2 DEF IInv, Streams, Values, Phases, HandlerFrame
    <3> QED BY <1>1, <2>1, <2>2, <3>2, <3>3, <3>4, HandlerStep
  <2>3. CASE /\ up["log"] = <<>> /\ NextClient /\ closed' = closed \cup {"log"}
             /\ clients' = Those(clients, Conns \ {"log"}) /\ UNCHANGED up
    <3>1. UNCHANGED <<lib, fds, logging, job, k, rc, gui, backlog, dropped>>
      BY <2>1 DEF HandlerFrame, libvars
    <3>2. /\ clients' \in Seq(Conns) /\ NoRep(clients')
          /\ ToSet(clients') = ToSet(clients) \ {"log"}
      <4>1. ToSet(clients) \subseteq Conns
        <5>1. clients \in Seq(Conns)
          BY DEF IInv, Lists
        <5>2. ToSet(clients) = {clients[i] : i \in 1..Len(clients)}
          BY <5>1, ElementsOf
        <5> QED BY <5>1, <5>2
      <4>2. /\ clients' \in Seq(Conns) /\ NoRep(clients')
            /\ ToSet(clients') = ToSet(clients) \cap (Conns \ {"log"})
        BY <2>3, ThoseProperties DEF IInv, Lists
      <4> QED BY <4>1, <4>2
    <3>3. /\ turn' \in Seq(Conns) /\ NoRep(turn') /\ ToSet(turn') = ToSet(turn) \ {"log"}
      BY <1>1, <2>3, TailOfList DEF IInv, Lists, NextClient, Handling
    <3>4. Lists'
      BY <1>1, <1>2, <2>3, <3>1, <3>2, <3>3, ClientIs DEF IInv, Lists
    <3>5. Values' /\ Streams'
      BY <2>1, <2>3, <3>1, <1>2 DEF IInv, Values, Streams, NextClient, Phases
    <3>6. Life'
      BY <1>1, <2>3, <3>1 DEF IInv, Life, NextClient, Handling
    <3>7. Broken("log")'
      BY <2>3 DEF Broken
    <3>8. PhaseOf("log")' = "header"
      BY <2>3 DEF PhaseOf, NextClient
    <3>9. Framed'
      BY <2>3, <3>1, <3>7, <3>8 DEF IInv, Framed
    <3>10. Sync'
      BY <1>6, <2>1, <2>3
    <3> QED BY <3>4, <3>5, <3>6, <3>9, <3>10 DEF IInv
  <2> QED BY <1>8, <2>2, <2>3 DEF ReadLogMsg
<1>9. CASE InvalidType("log")
  <2>1. /\ up["log"] # <<>> /\ Consume("log") /\ ph = "header" /\ NextClient
        /\ Head(up["log"]).type \notin {"LogMsgSolver", "NewModelStart"}
        /\ UNCHANGED <<clients, cnt, blocking, closed, models, down>> /\ HandlerFrame
    BY <1>9 DEF InvalidType
  <2>2. UNCHANGED <<lib, fds, logging, job, k, rc, gui, dropped>>
    BY <2>1 DEF HandlerFrame, libvars
  <2> DEFINE s == up["log"]
             t == Tail(s)
  <2>3. /\ s \in Seq(Unit) /\ s # <<>> /\ up'["log"] = t /\ up'["data"] = up["data"]
        /\ up' \in [Conns -> Seq(Unit)]
    BY <1>2, <2>1 DEF IInv, Streams, Consume, Conns
  <2>4. /\ Len(s) > 0 /\ Len(t) = Len(s) - 1 /\ s[1] = Head(s) /\ Len(s) \in Nat
        /\ \A i \in 1..Len(t) : t[i] = s[i + 1]
    BY <2>3
  <2>5. PhaseOf("log")' = "header"
    BY <2>1 DEF PhaseOf, NextClient
  <2>6. dropped \/ Broken("log")
    <3>1. ~dropped /\ ~Broken("log") => s[1] = Msg("LogMsgSolver")
      BY <1>2, <2>1, <2>4 DEF IInv, Framed
    <3> QED BY <2>1, <2>4, <3>1 DEF Msg
  <2>7. dropped' \/ Broken("log")'
    BY <2>1, <2>2, <2>6 DEF Broken, GuiGone
  <2>8. \A i \in 1..Len(s) : s[i] \in {Msg("LogMsgSolver"), Msg("Text")}
    BY DEF IInv, Framed
  <2> HIDE DEF s, t
  <2>9. \A i \in 1..Len(t) : t[i] \in {Msg("LogMsgSolver"), Msg("Text")}
    BY <2>4, <2>8
  <2>10. Framed'
    BY <2>3, <2>5, <2>7, <2>9 DEF Framed
  <2>11. Sync'
    BY <1>6, <2>1, <2>3
  <2>12. Streams' /\ ph' \in Phases /\ cnt' \in Nat /\ blocking' \in SUBSET Conns
    BY <2>1, <2>2, <2>3 DEF IInv, Streams, Values, Phases, NextClient
  <2> QED BY <1>1, <2>1, <2>10, <2>11, <2>12, HandlerStep
<1>10. ~NewModelStart("log")
  <2>1. NewModelStart("log") => up["log"] # <<>> /\ Head(up["log"]).type = "NewModelStart"
    BY DEF NewModelStart
  <2> QED BY <1>4, <2>1
<1>11. /\ ~NewModelName("log") /\ ~NewModelEnd("log") /\ ~NewEmpDagStart("log")
       /\ ~ReadTail("log") /\ ~ReadMps("log") /\ ~ReadMpName("log") /\ ~ReadNashs("log")
       /\ ~ReadNashName("log") /\ ~ReadEnd("log")
  <2>1. /\ NewModelName("log") => ph = "mdlname"
        /\ NewModelEnd("log") => ph = "mdlend"
        /\ NewEmpDagStart("log") => ph = "mdlend"
    BY DEF NewModelName, NewModelEnd, NewEmpDagStart
  <2>2. /\ ReadTail("log") => ph \in {"mps", "mpname", "nash", "nashname", "end"}
        /\ ReadMps("log") => ph = "mps" 
        /\ ReadMpName("log") => ph = "mpname"
    BY DEF ReadTail, ReadMps, ReadMpName
  <2>3. /\ ReadNashs("log") => ph = "nash" 
        /\ ReadNashName("log") => ph = "nashname" 
        /\ ReadEnd("log") => ph = "end"
    BY DEF ReadNashs, ReadNashName, ReadEnd
  <2> QED BY <1>3, <2>1, <2>2, <2>3
<1> QED BY <1>5, <1>7, <1>8, <1>9, <1>10, <1>11 DEF Serve

\* A step for the client that sends models.
LEMMA DataHandler ==
  ASSUME IInv, Handling("data"), HandlerFrame, UNCHANGED <<clients, closed, turn>>,
         up' \in [Conns -> Seq(Unit)], up'["log"] = up["log"],
         down' \in [Conns -> Seq(Answers)], models' \in Seq(ModelRec),
         ph' \in Phases, cnt' \in Nat, blocking' \in SUBSET Conns, Sync'
  PROVE  IInv'
<1>1. UNCHANGED <<lib, gui, dropped>>
  BY DEF HandlerFrame, libvars
<1>2. PhaseOf("log") = "header" /\ PhaseOf("log")' = "header"
  BY ClientIs, OtherClient
<1>3. Framed'
  BY <1>1, <1>2, FramedFrame DEF IInv, Broken, GuiGone
<1>4. Streams'
  BY <1>1 DEF IInv, Streams
<1> QED BY <1>3, <1>4, HandlerStep

\* What the GUI reads is the message the library waits for the answer of.
LEMMA DataSent ==
  ASSUME IInv, Handling("data"), up["data"] # <<>>,
         Head(up["data"]).type # "Tail" \/ ph \in {"header", "mdlname", "mdlend"}
  PROVE  /\ lib = "ack" /\ down["data"] = <<>> /\ Expects(k) /\ k \in 1..Total(job)
         /\ job \in Models \cup {NoModel} /\ PhaseOf("data") = ph
         /\ Script(job)[k] \in Unit /\ Head(up["data"]) = Script(job)[k]
         /\ Tail(up["data"]) = IF Script(job)[k].n > BufMax THEN <<Msg("Tail")>> ELSE <<>>
         /\ up \in [Conns -> Seq(Unit)] /\ down \in [Conns -> Seq(Answers)]
         /\ models \in Seq(ModelRec) /\ cnt \in Nat /\ blocking \in SUBSET Conns
<1>1. Sync /\ PhaseOf("data") = ph
  BY ClientIs
<1>2. ~Overrun
  <2>1. Msg("Tail").type = "Tail"
    BY DEF Msg
  <2> QED BY <1>1, <2>1 DEF Overrun
<1>3. Sent
  BY <1>1, <1>2 DEF Sync, Quiet, Writing, Answered, Refused, GivenUp
<1>4. job \in Models \cup {NoModel} /\ k \in 1..Len(Script(job))
  BY <1>3 DEF IInv, Values, Life, Sent
<1>5. k \in 1..Total(job) /\ Script(job)[k] \in Unit
  BY <1>4, ScriptIs
<1>6. /\ Head(up["data"]) = Script(job)[k]
      /\ Tail(up["data"]) = IF Script(job)[k].n > BufMax THEN <<Msg("Tail")>> ELSE <<>>
  BY <1>3, <1>5, UnitsAre DEF Sent
<1> QED BY <1>1, <1>3, <1>4, <1>5, <1>6 DEF Sent, IInv, Streams, Values

\* What reading it and answering makes of the streams.
LEMMA ReadAndReply ==
  ASSUME up \in [Conns -> Seq(Unit)], down \in [Conns -> Seq(Answers)],
         up["data"] # <<>>, down["data"] = <<>>,
         Consume("data"), NEW ans \in Answers, Reply("data", ans) \/ down' = down
  PROVE  /\ up' \in [Conns -> Seq(Unit)] /\ up'["log"] = up["log"]
         /\ up'["data"] = Tail(up["data"])
         /\ down' \in [Conns -> Seq(Answers)]
         /\ Reply("data", ans) => down'["data"] = <<ans>>
<1>1. "log" \in Conns /\ "data" \in Conns
  BY DEF Conns
<1>2. up["data"] \in Seq(Unit) /\ Tail(up["data"]) \in Seq(Unit)
  BY <1>1
<1>3. Append(<<>>, ans) = <<ans>> /\ <<ans>> \in Seq(Answers)
  OBVIOUS
<1> QED BY <1>1, <1>2, <1>3 DEF Consume, Reply

\* A list of models with a new last one, or with another one in its place.
LEMMA NewModelRec ==
  ASSUME models \in Seq(ModelRec), job.id \in Nat, job' = job,
         models' = Append(models, [id |-> job.id, dags |-> <<>>])
  PROVE  models' \in Seq(ModelRec) /\ Arrived'
<1>1. [id |-> job.id, dags |-> <<>>] \in ModelRec
  BY DEF ModelRec
<1> QED BY <1>1 DEF Arrived

\* A list with another element in the place of one of its own.
LEMMA ReplacedIn ==
  ASSUME NEW R, NEW s \in Seq(R), NEW i \in 1..Len(s), NEW x \in R
  PROVE  /\ [s EXCEPT ![i] = x] \in Seq(R) /\ Len([s EXCEPT ![i] = x]) = Len(s)
         /\ [s EXCEPT ![i] = x][i] = x
         /\ \A n \in 1..Len(s) : n # i => [s EXCEPT ![i] = x][n] = s[n]
<1> DEFINE l == Len(s)
<1>1. l \in Nat /\ s \in [1..l -> R]
  OBVIOUS
<1> HIDE DEF l
<1>2. [s EXCEPT ![i] = x] \in [1..l -> R]
  BY <1>1
<1>3. [s EXCEPT ![i] = x] \in Seq(R) /\ Len([s EXCEPT ![i] = x]) = l
  BY <1>1, <1>2, FunctionIsList
<1>4. i \in 1..l
  BY DEF l
<1>5. /\ [s EXCEPT ![i] = x][i] = x
      /\ \A n \in 1..l : n # i => [s EXCEPT ![i] = x][n] = s[n]
  BY <1>1, <1>4
<1> QED BY <1>3, <1>5 DEF l

\* The model at the index mdlid gets another list of EMPDAGs.
LEMMA PutDags ==
  ASSUME models \in Seq(ModelRec), job.id \in Nat, job.id < Len(models), job' = job,
         NEW ds \in Seq(DagRec), ds # <<>>, NEW a, NEW b, NEW c,
         ds[Len(ds)] = [of |-> job.id, mps |-> a, names |-> b, nashs |-> c],
         models' = [models EXCEPT ![job.id + 1] = [models[job.id + 1] EXCEPT !.dags = ds]]
  PROVE  models' \in Seq(ModelRec) /\ Got(a, b, c)' /\ (Arrived => Arrived')
<1> DEFINE i == job.id + 1
           md == [models[i] EXCEPT !.dags = ds]
<1>1. i \in 1..Len(models) /\ Len(models) \in Nat
  OBVIOUS
<1>2. models[i] \in ModelRec
  BY <1>1
<1>3. md \in ModelRec /\ md.id = models[i].id /\ md.dags = ds
  BY <1>2 DEF ModelRec
<1>4. models' = [models EXCEPT ![i] = md]
  OBVIOUS
<1>5. job.id < Len(models) /\ i = job.id + 1
  OBVIOUS
<1> HIDE DEF md, i
<1>6. /\ models' \in Seq(ModelRec) /\ Len(models') = Len(models) /\ models'[i] = md
      /\ \A n \in 1..Len(models) : n # i => models'[n] = models[n]
  <2> DEFINE s == models
             R == ModelRec
             t == [s EXCEPT ![i] = md]
  <2>1. s \in Seq(R) /\ i \in 1..Len(s) /\ md \in R
    BY <1>1, <1>3
  <2> HIDE DEF s, R
  <2>2. /\ t \in Seq(R) /\ Len(t) = Len(s) /\ t[i] = md
        /\ \A n \in 1..Len(s) : n # i => t[n] = s[n]
    BY <2>1, ReplacedIn
  <2>3. models' = t
    BY <1>4 DEF s
  <2> HIDE DEF t
  <2> QED BY <2>2, <2>3 DEF s, R
<1>7. ASSUME NEW n \in 1..Len(models) PROVE models'[n].id = models[n].id
  <2>1. CASE n = i
    BY <1>3, <1>6, <2>1
  <2>2. CASE n # i
    <3>1. models'[n] = models[n]
      BY <1>6, <2>2
    <3> QED BY <3>1
  <2> QED BY <2>1, <2>2
<1>8. models'[job'.id + 1].dags = ds /\ job'.id < Len(models')
  BY <1>3, <1>5, <1>6
<1>9. Got(a, b, c)'
  BY <1>8 DEF Got
<1>10. Arrived => Arrived'
  <2>1. models # <<>> => Len(models) \in 1..Len(models) /\ models' # <<>>
    BY <1>1, <1>6
  <2> QED BY <1>6, <1>7, <2>1 DEF Arrived
<1> QED BY <1>6, <1>9, <1>10

\* newempdag adds an EMPDAG to the model at the index mdlid.
LEMMA NewDagRec ==
  ASSUME models \in Seq(ModelRec), job.id \in Nat, job.id < Len(models), job' = job,
         models' = [models EXCEPT ![job.id + 1].dags =
                      Append(@, [of |-> job.id, mps |-> 0, names |-> 0, nashs |-> 0])]
  PROVE  models' \in Seq(ModelRec) /\ Got(0, 0, 0)' /\ (Arrived => Arrived')
<1> DEFINE i == job.id + 1
           r == [of |-> job.id, mps |-> 0, names |-> 0, nashs |-> 0]
           old == models[i].dags
           ds == Append(old, r)
<1>1. i \in 1..Len(models)
  OBVIOUS
<1>2. models[i] \in ModelRec
  BY <1>1
<1>3. old \in Seq(DagRec)
  BY <1>2 DEF ModelRec
<1>4. r \in DagRec
  BY DEF DagRec
<1>5. models' = [models EXCEPT ![i] = [models[i] EXCEPT !.dags = ds]]
  OBVIOUS
<1> HIDE DEF r, old, i
<1>6. ds \in Seq(DagRec) /\ ds # <<>> /\ ds[Len(ds)] = r
  BY <1>3, <1>4
<1> HIDE DEF ds
<1> QED BY <1>5, <1>6, PutDags DEF i, r

\* The EMPDAG being received is replaced by q.
LEMMA SameDagRec ==
  ASSUME models \in Seq(ModelRec), job.id \in Nat, job' = job,
         NEW a, NEW b, NEW c, Got(a, b, c),
         NEW a1 \in Nat, NEW b1 \in Nat, NEW c1 \in Nat,
         models' = [models EXCEPT ![job.id + 1].dags[Len(models[job.id + 1].dags)] =
                      [of |-> job.id, mps |-> a1, names |-> b1, nashs |-> c1]]
  PROVE  models' \in Seq(ModelRec) /\ Got(a1, b1, c1)' /\ (Arrived => Arrived')
<1> DEFINE i == job.id + 1
           old == models[i].dags
           l == Len(old)
           q == [of |-> job.id, mps |-> a1, names |-> b1, nashs |-> c1]
           ds == [old EXCEPT ![l] = q]
<1>1. i \in 1..Len(models) /\ job.id < Len(models) /\ old # <<>>
  BY DEF Got
<1>2. models[i] \in ModelRec
  BY <1>1
<1>3. old \in Seq(DagRec)
  BY <1>2 DEF ModelRec
<1>4. q \in DagRec
  BY DEF DagRec
<1>5. models' = [models EXCEPT ![i] = [models[i] EXCEPT !.dags = ds]]
  OBVIOUS
<1> HIDE DEF q, i, old
<1>6. l \in 1..l
  BY <1>1, <1>3
<1>7. ds \in Seq(DagRec) /\ Len(ds) = l /\ ds[l] = q
  BY <1>3, <1>4, <1>6, ReplacedIn
<1>8. ds # <<>>
  BY <1>6, <1>7
<1> HIDE DEF ds, l
<1>9. ds[Len(ds)] = q
  BY <1>7
<1>10. models' = [models EXCEPT ![job.id + 1] = [models[job.id + 1] EXCEPT !.dags = ds]]
  BY <1>5 DEF i
<1>11. ds[Len(ds)] = [of |-> job.id, mps |-> a1, names |-> b1, nashs |-> c1]
  BY <1>9 DEF q
<1> QED BY <1>1, <1>7, <1>8, <1>10, <1>11, PutDags

\* The phase of the GUI tells which message of the script it reads.
LEMMA MessageRead ==
  ASSUME IInv, Handling("data"), up["data"] # <<>>,
         Head(up["data"]).type # "Tail" \/ ph \in {"header", "mdlname", "mdlend"}
  PROVE  /\ ph # "logbody"
         /\ ph = "header" => k = 1
         /\ ph = "mdlname" => k = 2 /\ Arrived
         /\ ph = "mdlend" => k = 3 /\ Arrived
         /\ ph = "mps" => ExpectsMps(k)
         /\ ph = "mpname" => ExpectsMpName(k)
         /\ ph = "nash" => ExpectsNashs(k)
         /\ ph \in {"nashname", "end"} => ExpectsEnd(k)
<1>1. Expects(k) /\ k \in 1..Total(job) /\ PhaseOf("data") = ph
  BY DataSent
<1>2. Total(job) \in Nat
  BY DataSent, ScriptIs
<1>3. ~HasAll(k)
  BY <1>1, <1>2 DEF HasAll
<1>4. PhaseOf("data") \in {"nashname", "end"} \/ ~ExpectsEnd(k)
  BY DEF ExpectsEnd
<1> QED BY <1>1, <1>3, <1>4 DEF Expects, ExpectsHeader, ExpectsName, ExpectsMdlEnd,
                ExpectsMps, ExpectsMpName, ExpectsNashs

\* What both sides know when the GUI has read a message and answered it.
LEMMA Replied ==
  ASSUME IInv, Handling("data"), up["data"] # <<>>,
         Head(up["data"]).type # "Tail" \/ ph \in {"header", "mdlname", "mdlend"},
         HandlerFrame, UNCHANGED <<clients, closed, turn>>,
         Consume("data"), Reply("data", Answer(k)), models' \in Seq(ModelRec),
         ph' \in Phases, cnt' \in Nat, blocking' \in SUBSET Conns,
         \/ ~(Script(job)[k].n > BufMax) /\ Expects(k + 1)'
         \/ /\ Script(job)[k].n > BufMax /\ ~ChunksFit(job) /\ k < Total(job)
            /\ ph' \in {"mps", "mpname", "nash", "nashname", "end"}
  PROVE  IInv'
<1>1. /\ lib = "ack" /\ down["data"] = <<>> /\ job \in Models \cup {NoModel}
      /\ Tail(up["data"]) = IF Script(job)[k].n > BufMax THEN <<Msg("Tail")>> ELSE <<>>
      /\ up \in [Conns -> Seq(Unit)] /\ down \in [Conns -> Seq(Answers)]
  BY DataSent
<1>2. Answer(k) \in Answers
  BY DEF Answer, Answers
<1>3. /\ up' \in [Conns -> Seq(Unit)] /\ up'["log"] = up["log"]
      /\ up'["data"] = Tail(up["data"]) /\ down' \in [Conns -> Seq(Answers)]
      /\ down'["data"] = <<Answer(k)>>
  BY <1>1, <1>2, ReadAndReply
<1>4. lib' = "ack" /\ k' = k /\ job' = job
  BY <1>1 DEF HandlerFrame, libvars
<1>5. PhaseOf("data")' = ph'
  BY DEF PhaseOf, Handling
<1>6. Answer(k)' = Answer(k)
  BY <1>4 DEF Answer
<1>7. CASE ~(Script(job)[k].n > BufMax) /\ Expects(k + 1)'
  <2>1. Answered'
    BY <1>1, <1>3, <1>4, <1>6, <1>7 DEF Answered
  <2> QED BY <1>3, <2>1, DataHandler DEF Sync
<1>8. CASE /\ Script(job)[k].n > BufMax /\ ~ChunksFit(job) /\ k < Total(job)
           /\ ph' \in {"mps", "mpname", "nash", "nashname", "end"}
  <2>1. k < Len(Script(job))
    BY <1>1, <1>8, ScriptIs
  <2>2. up'["data"] # <<>> /\ Head(up'["data"]) = Msg("Tail")
    <3>1. up'["data"] = <<Msg("Tail")>>
      BY <1>1, <1>3, <1>8
    <3> QED BY <3>1
  <2>3. (~ChunksFit(job))' /\ (k < Len(Script(job)))'
    BY <1>4, <1>8, <2>1 DEF ChunksFit, Script, EmpDagScript
  <2>4. Msg("Tail")' = Msg("Tail")
    BY DEF Msg
  <2>5. Overrun'
    BY <1>3, <1>4, <1>5, <1>6, <1>8, <2>2, <2>3, <2>4 DEF Overrun
  <2> QED BY <1>3, <2>5, DataHandler DEF Sync
<1> QED BY <1>7, <1>8

\* A message without nodes fits the buffer.
LEMMA PlainFits ==
  ASSUME NEW t
  PROVE  Msg(t).type = t /\ ~(Msg(t).n > BufMax)
BY BoundsAssumption DEF Msg

\* The messages of ipc_send_mdl, one after the other: the header of a model.
LEMMA NewModelStartStep == ASSUME IInv, NewModelStart("data") PROVE IInv'
<1>1. /\ Handling("data") /\ ph = "header" /\ up["data"] # <<>> /\ Consume("data")
      /\ blocking' = blocking \cup {"data"}
      /\ models' = Append(models, [id |-> job.id, dags |-> <<>>])
      /\ Reply("data", "GuiAckReq") /\ ph' = "mdlname"
      /\ UNCHANGED <<turn, clients, cnt, closed>> /\ HandlerFrame
  BY DEF NewModelStart
<1>2. k = 1
  BY <1>1, MessageRead
<1>3. /\ job \in Models \cup {NoModel} /\ models \in Seq(ModelRec)
      /\ cnt \in Nat /\ blocking \in SUBSET Conns
  BY <1>1, DataSent
<1>4. Script(job)[k] = Msg("NewModelStart") /\ job.id \in Nat
  BY <1>2, <1>3, ScriptIs
<1>5. job' = job /\ k' = k
  BY <1>1 DEF HandlerFrame, libvars
<1>6. models' \in Seq(ModelRec) /\ Arrived'
  BY <1>1, <1>3, <1>4, <1>5, NewModelRec
<1>7. PhaseOf("data")' = "mdlname"
  BY <1>1 DEF PhaseOf, Handling
<1>8. Expects(k + 1)'
  BY <1>2, <1>5, <1>6, <1>7 DEF Expects, ExpectsName
<1>9. Answer(k) = "GuiAckReq"
  BY <1>2 DEF Answer
<1>10. ph' \in Phases /\ cnt' \in Nat /\ blocking' \in SUBSET Conns
  BY <1>1, <1>3 DEF Phases, Conns
<1>11. ~(Script(job)[k].n > BufMax)
  BY <1>4, PlainFits
<1> QED BY <1>1, <1>6, <1>8, <1>9, <1>10, <1>11, Replied

\* Its name.
LEMMA NewModelNameStep == ASSUME IInv, NewModelName("data") PROVE IInv'
<1>1. /\ Handling("data") /\ ph = "mdlname" /\ up["data"] # <<>> /\ Consume("data")
      /\ Reply("data", "GuiAck") /\ ph' = "mdlend"
      /\ UNCHANGED <<turn, clients, cnt, blocking, closed, models>> /\ HandlerFrame
  BY DEF NewModelName
<1>2. k = 2 /\ Arrived
  BY <1>1, MessageRead
<1>3. /\ job \in Models \cup {NoModel} /\ models \in Seq(ModelRec)
      /\ cnt \in Nat /\ blocking \in SUBSET Conns
  BY <1>1, DataSent
<1>4. Script(job)[k] = Msg("NewModelName")
  BY <1>2, <1>3, ScriptIs
<1>5. job' = job /\ k' = k
  BY <1>1 DEF HandlerFrame, libvars
<1>6. Arrived'
  BY <1>1, <1>2, <1>5 DEF Arrived
<1>7. PhaseOf("data")' = "mdlend"
  BY <1>1 DEF PhaseOf, Handling
<1>8. Expects(k + 1)'
  BY <1>2, <1>5, <1>6, <1>7 DEF Expects, ExpectsMdlEnd
<1>9. Answer(k) = "GuiAck"
  BY <1>2 DEF Answer
<1>10. ph' \in Phases /\ cnt' \in Nat /\ blocking' \in SUBSET Conns /\ models' \in Seq(ModelRec)
  BY <1>1, <1>3 DEF Phases
<1>11. ~(Script(job)[k].n > BufMax)
  BY <1>4, PlainFits
<1> QED BY <1>1, <1>8, <1>9, <1>10, <1>11, Replied

\* Its end, when it has no EMPDAG.
LEMMA NewModelEndStep == ASSUME IInv, NewModelEnd("data") PROVE IInv'
<1>1. /\ Handling("data") /\ ph = "mdlend" /\ up["data"] # <<>> /\ Consume("data")
      /\ Head(up["data"]).type = "NewModelEnd"
      /\ Reply("data", "GuiAck") /\ ph' = "header" /\ blocking' = blocking \ {"data"}
      /\ UNCHANGED <<turn, clients, cnt, closed, models>> /\ HandlerFrame
  BY DEF NewModelEnd
<1>2. k = 3 /\ Arrived
  BY <1>1, MessageRead
<1>3. /\ job \in Models \cup {NoModel} /\ models \in Seq(ModelRec)
      /\ cnt \in Nat /\ blocking \in SUBSET Conns /\ Head(up["data"]) = Script(job)[k]
  BY <1>1, DataSent
<1>4. ~job.dag
  <2>1. job.dag => Script(job)[3] = Msg("NewEmpDagStart")
    BY <1>3, ScriptIs
  <2> QED BY <1>1, <1>2, <1>3, <2>1, PlainFits
<1>5. job' = job /\ k' = k
  BY <1>1 DEF HandlerFrame, libvars
<1>6. Arrived'
  BY <1>1, <1>2, <1>5 DEF Arrived
<1>7. PhaseOf("data")' = "header"
  BY <1>1 DEF PhaseOf, Handling
<1>8. Total(job) = 3 /\ Total(job)' = 3
  BY <1>4, <1>5 DEF Total
<1>9. HasAll(k + 1)'
  BY <1>1, <1>2, <1>4, <1>5, <1>6, <1>7, <1>8 DEF HasAll
<1>10. Expects(k + 1)'
  BY <1>9 DEF Expects
<1>11. Answer(k) = "GuiAck"
  BY <1>2 DEF Answer
<1>12. ph' \in Phases /\ cnt' \in Nat /\ blocking' \in SUBSET Conns /\ models' \in Seq(ModelRec)
  BY <1>1, <1>3 DEF Phases
<1>13. Script(job)[k] = Msg("NewModelEnd")
  BY <1>2, <1>3, <1>8, ScriptIs
<1>14. ~(Script(job)[k].n > BufMax)
  BY <1>13, PlainFits
<1> QED BY <1>1, <1>10, <1>11, <1>12, <1>14, Replied

\* The header of its EMPDAG, which the GUI may refuse.
LEMMA NewEmpDagStartStep == ASSUME IInv, NewEmpDagStart("data") PROVE IInv'
<1>1. /\ Handling("data") /\ ph = "mdlend" /\ up["data"] # <<>> /\ Consume("data")
      /\ Head(up["data"]).type = "NewEmpDagStart"
      /\ UNCHANGED <<turn, clients, blocking, closed>> /\ HandlerFrame
  BY DEF NewEmpDagStart
<1>2. k = 3 /\ Arrived
  BY <1>1, MessageRead
<1>3. /\ job \in Models \cup {NoModel} /\ models \in Seq(ModelRec)
      /\ cnt \in Nat /\ blocking \in SUBSET Conns /\ Head(up["data"]) = Script(job)[k]
      /\ lib = "ack" /\ down["data"] = <<>>
      /\ Tail(up["data"]) = IF Script(job)[k].n > BufMax THEN <<Msg("Tail")>> ELSE <<>>
      /\ up \in [Conns -> Seq(Unit)] /\ down \in [Conns -> Seq(Answers)]
  BY <1>1, DataSent
<1>4. /\ job.id \in Nat /\ job.mps \in Nat /\ N1(job) \in Nat \ {0}
      /\ Script(job)[Total(job)] = Msg("NewModelEnd")
      /\ job.dag => Script(job)[3] = Msg("NewEmpDagStart")
  BY <1>3, ScriptIs
<1>5. job.dag /\ Script(job)[k] = Msg("NewEmpDagStart")
  <2>1. ~job.dag => Total(job) = 3
    BY DEF Total
  <2> QED BY <1>1, <1>2, <1>3, <1>4, <2>1, PlainFits
<1>6. ~(Script(job)[k].n > BufMax)
  BY <1>5, PlainFits
<1>7. job' = job /\ k' = k /\ lib' = lib
  BY <1>1 DEF HandlerFrame, libvars
<1>8. PhaseOf("data")' = ph'
  BY <1>1 DEF PhaseOf, Handling
<1>9. CASE /\ job.id >= Len(models)
           /\ Reply("data", "GuiRaiseError") /\ ph' = "header" /\ UNCHANGED <<models, cnt>>
  <2>1. "GuiRaiseError" \in Answers
    BY DEF Answers
  <2>2. /\ up' \in [Conns -> Seq(Unit)] /\ up'["log"] = up["log"]
        /\ up'["data"] = <<>> /\ down' \in [Conns -> Seq(Answers)]
        /\ down'["data"] = <<"GuiRaiseError">>
    BY <1>1, <1>3, <1>6, <1>9, <2>1, ReadAndReply
  <2>3. Refused'
    BY <1>3, <1>7, <1>8, <1>9, <2>2 DEF Refused
  <2>4. ph' \in Phases /\ cnt' \in Nat /\ blocking' \in SUBSET Conns /\ models' \in Seq(ModelRec)
    BY <1>1, <1>3, <1>9 DEF Phases
  <2> QED BY <1>1, <2>2, <2>3, <2>4, DataHandler DEF Sync
<1>10. CASE /\ job.id < Len(models)
            /\ models' = [models EXCEPT ![job.id + 1].dags =
                           Append(@, [of |-> job.id, mps |-> 0, names |-> 0, nashs |-> 0])]
            /\ Reply("data", "GuiAck") /\ ph' = "mps" /\ cnt' = job.mps
  <2>1. models' \in Seq(ModelRec) /\ Got(0, 0, 0)' /\ Arrived'
    BY <1>2, <1>3, <1>4, <1>7, <1>10, NewDagRec
  <2>2. N1(job)' = N1(job)
    BY <1>7 DEF N1, NumChunks
  <2>3. (1 - 1) * MpMax = 0 /\ 1 \in 1..N1(job) /\ k' + 1 = 3 + 1
    BY <1>2, <1>4, <1>7, BoundsAssumption
  <2>4. Got((1 - 1) * MpMax, 0, 0)'
    BY <2>1, <2>3
  <2>5. ExpectsMps(k + 1)'
    BY <1>5, <1>7, <1>8, <1>10, <2>1, <2>2, <2>3, <2>4 DEF ExpectsMps
  <2>6. Expects(k + 1)'
    BY <2>5 DEF Expects
  <2>7. Answer(k) = "GuiAck"
    BY <1>2 DEF Answer
  <2>8. ph' \in Phases /\ cnt' \in Nat /\ blocking' \in SUBSET Conns
    BY <1>1, <1>3, <1>4, <1>10 DEF Phases
  <2> QED BY <1>1, <1>6, <1>10, <2>1, <2>6, <2>7, <2>8, Replied
<1> QED BY <1>9, <1>10 DEF NewEmpDagStart

\* What follows the last name, or the last chunk of a model without MPs.
LEMMA AfterNamesExpects ==
  ASSUME job \in Models \cup {NoModel}, job.dag, job' = job, k' = k,
         k = 3 + N1(job) + job.mps, Got(job.mps, job.mps, 0)', Arrived',
         PhaseOf("data")' = AfterNames
  PROVE  Expects(k + 1)'
<1>1. /\ job.mps \in Nat /\ job.nashs \in Nat /\ N1(job) \in Nat /\ N2(job) \in Nat
      /\ Total(job) = 4 + N1(job) + job.mps + N2(job)
  BY ScriptIs
<1>2. N1(job)' = N1(job) /\ N2(job)' = N2(job) /\ Total(job)' = Total(job)
  BY DEF N1, N2, NumChunks, Total
<1>3. CASE job.nashs > 0
  <2>1. N2(job) \in Nat \ {0}
    <3>1. NumChunks(job.nashs) \in Nat \ {0}
      BY <1>1, ChunksAre DEF Types
    <3> QED BY <1>3, <3>1 DEF N2
  <2>2. (1 - 1) * MpMax = 0 /\ 1 \in 1..N2(job) /\ k' + 1 = 3 + N1(job) + job.mps + 1
    BY <2>1, BoundsAssumption
  <2>3. Got(job.mps, job.mps, (1 - 1) * MpMax)'
    BY <2>2
  <2>4. PhaseOf("data")' = "nash"
    BY <1>3 DEF AfterNames
  <2>5. ExpectsNashs(k + 1)'
    BY <1>2, <2>2, <2>3, <2>4 DEF ExpectsNashs
  <2> QED BY <2>5 DEF Expects
<1>4. CASE ~(job.nashs > 0)
  <2>1. N2(job) = 0 /\ job.nashs = 0
    BY <1>1, <1>4 DEF N2
  <2>2. k' + 1 = Total(job)
    BY <1>1, <2>1
  <2>3. PhaseOf("data")' = "end"
    BY <1>4 DEF AfterNames
  <2>4. Got(job.mps, job.mps, job.nashs)'
    BY <2>1
  <2>5. ExpectsEnd(k + 1)'
    BY <1>2, <1>4, <2>2, <2>3, <2>4 DEF ExpectsEnd
  <2> QED BY <2>5 DEF Expects
<1> QED BY <1>3, <1>4

\* A chunk of MPs.
LEMMA ReadMpsStep == ASSUME IInv, ReadMps("data") PROVE IInv'
<1>1. /\ Handling("data") /\ ph = "mps" /\ up["data"] # <<>> /\ Consume("data")
      /\ Head(up["data"]).type # "Tail"
      /\ Reply("data", "GuiAck") /\ WithEmpDag("mps", Head(up["data"]).n)
      /\ UNCHANGED <<turn, clients, cnt, blocking, closed>> /\ HandlerFrame
  BY DEF ReadMps
<1>2. /\ job \in Models \cup {NoModel} /\ models \in Seq(ModelRec) /\ k \in 1..Total(job)
      /\ cnt \in Nat /\ blocking \in SUBSET Conns /\ Head(up["data"]) = Script(job)[k]
  BY <1>1, DataSent
<1>3. PICK i \in 1..N1(job) : k = 3 + i /\ Got((i - 1) * MpMax, 0, 0)
  BY <1>1, MessageRead DEF ExpectsMps
<1>4. job.dag /\ Arrived /\ cnt = job.mps
  BY <1>1, MessageRead DEF ExpectsMps
<1>5. /\ job.id \in Nat /\ job.mps \in Nat /\ job.nashs \in Nat
      /\ N1(job) \in Nat \ {0} /\ N2(job) \in Nat
      /\ Total(job) = 4 + N1(job) + job.mps + N2(job)
      /\ Script(job)[k] = ChunkMsg(job.mps, i, "MathPrgmGuiData", "MathPrgmGuiDataEnd")
  BY <1>2, <1>3, <1>4, ScriptIs
<1>6. job' = job /\ k' = k
  BY <1>1 DEF HandlerFrame, libvars
<1> DEFINE n == Head(up["data"]).n
           done == (i - 1) * MpMax + n
<1>7. i \in 1..NumChunks(job.mps) /\ N1(job) = NumChunks(job.mps)
  BY <1>3 DEF N1
<1>8. n \in Nat /\ (n > BufMax => MpMax > BufMax /\ job.mps > BufMax)
  BY <1>2, <1>5, <1>7, ChunkFits, SMTT(30) DEF Types
<1>9. MpMax \in Nat /\ BufMax \in Nat /\ (i - 1) * MpMax \in Nat
  BY <1>3, <1>5, BoundsAssumption
<1>10. PICK d \in Nat : d = done
  BY <1>8, <1>9
<1>19. models' \in Seq(ModelRec) /\ Got(d, 0, 0)' /\ Arrived'
  <2>1. models' = [models EXCEPT ![job.id + 1].dags[Len(models[job.id + 1].dags)].mps = @ + n]
    BY <1>1 DEF WithEmpDag
  <2>2. models' = [models EXCEPT ![job.id + 1].dags[Len(models[job.id + 1].dags)] =
                     [of |-> job.id, mps |-> d, names |-> 0, nashs |-> 0]]
    <3> DEFINE x == models[job.id + 1].dags[Len(models[job.id + 1].dags)]
    <3>1. x = [of |-> job.id, mps |-> (i - 1) * MpMax, names |-> 0, nashs |-> 0]
      BY <1>3 DEF Got
    <3>2. models' = [models EXCEPT ![job.id + 1].dags[Len(models[job.id + 1].dags)] =
                       [x EXCEPT !.mps = @ + n]]
      BY <2>1
    <3> HIDE DEF n, x
    <3>3. [x EXCEPT !.mps = @ + n] = [of |-> job.id, mps |-> d, names |-> 0, nashs |-> 0]
      BY <1>10, <3>1
    <3> QED BY <3>2, <3>3
  <2>3. models' \in Seq(ModelRec) /\ Got(d, 0, 0)' /\ (Arrived => Arrived')
    <3> HIDE DEF n, done
    <3> QED BY <1>2, <1>3, <1>5, <1>6, <2>2, SameDagRec
  <2> QED BY <1>4, <2>3
<1>11. PhaseOf("data")' = ph'
  BY <1>1 DEF PhaseOf, Handling
<1>12. N1(job)' = N1(job)
  BY <1>6 DEF N1, NumChunks
<1>13. Head(up["data"]) = ChunkMsg(job.mps, i, "MathPrgmGuiData", "MathPrgmGuiDataEnd")
  BY <1>2, <1>5
<1>14. ph' \in {"mps", "mpname", "nash", "end"} /\ Expects(k + 1)'
  <2>1. CASE i < N1(job)
    <3>1. Head(up["data"]) = [type |-> "MathPrgmGuiData", n |-> MpMax]
      BY <1>7, <1>13, <2>1 DEF ChunkMsg
    <3>2. ph' = "mps"
      BY <3>1 DEF ReadMps
    <3>3. i + 1 \in 1..N1(job) /\ k' + 1 = 3 + (i + 1)
      BY <1>3, <1>5, <1>6, <2>1
    <3>4. done = ((i + 1) - 1) * MpMax
      BY <1>3, <1>5, <1>9, <3>1
    <3> HIDE DEF done, n
    <3>5. Got(((i + 1) - 1) * MpMax, 0, 0)'
      BY <1>10, <1>19, <3>4
    <3>6. ExpectsMps(k + 1)'
      BY <1>1, <1>4, <1>6, <1>19, <1>11, <1>12, <3>2, <3>3, <3>5 DEF ExpectsMps
    <3> QED BY <3>2, <3>6 DEF Expects
  <2>2. CASE i = N1(job)
    <3>1. Head(up["data"]) = [type |-> "MathPrgmGuiDataEnd",
                              n |-> job.mps - (N1(job) - 1) * MpMax]
      BY <1>7, <1>13, <2>2 DEF ChunkMsg
    <3>2. done = job.mps
      <4> DEFINE x == (i - 1) * MpMax
      <4>1. n = job.mps - x /\ x \in Nat
        BY <1>9, <2>2, <3>1
      <4> HIDE DEF x, n
      <4>2. x + n = job.mps
        BY <1>5, <4>1
      <4> QED BY <4>2 DEF x, n
    <3> HIDE DEF done, n
    <3>3. Got(job.mps, 0, 0)'
      BY <1>6, <1>10, <1>19, <3>2 DEF Got
    <3>4. ph' = IF cnt > 0 THEN "mpname" ELSE AfterNames
      BY <3>1 DEF ReadMps
    <3>5. CASE job.mps > 0
      <4>1. 1 \in 1..job.mps /\ cnt' = job.mps - 1 + 1 /\ 1 - 1 = 0
            /\ k' + 1 = 3 + N1(job) + 1
        BY <1>1, <1>3, <1>4, <1>5, <1>6, <2>2, <3>5
      <4>2. Got(job.mps, 1 - 1, 0)'
        BY <3>3, <4>1
      <4>3. ph' = "mpname"
        BY <1>4, <3>4, <3>5
      <4>4. ExpectsMpName(k + 1)'
        BY <1>4, <1>6, <1>19, <1>11, <1>12, <4>1, <4>2, <4>3 DEF ExpectsMpName
      <4> QED BY <4>3, <4>4 DEF Expects
    <3>6. CASE ~(job.mps > 0)
      <4>1. job.mps = 0 /\ k = 3 + N1(job) + job.mps
        BY <1>3, <1>5, <2>2, <3>6
      <4>2. ph' = AfterNames
        BY <1>4, <3>4, <3>6
      <4>3. Got(job.mps, job.mps, 0)'
        BY <1>6, <3>3, <4>1 DEF Got
      <4>4. Expects(k + 1)'
        BY <1>2, <1>4, <1>6, <1>19, <1>11, <4>1, <4>2, <4>3, AfterNamesExpects
      <4> QED BY <4>2, <4>4 DEF AfterNames
    <3> QED BY <3>5, <3>6
  <2> QED BY <1>3, <1>5, <2>1, <2>2
<1>15. Answer(k) = "GuiAck"
  BY <1>3 DEF Answer
<1>16. ph' \in Phases /\ cnt' \in Nat /\ blocking' \in SUBSET Conns
  BY <1>1, <1>2, <1>14 DEF Phases
<1>17. k < Total(job)
  BY <1>3, <1>5
<1>18. Script(job)[k].n > BufMax => ~ChunksFit(job)
  <2>1. n > BufMax => ~(MpMax <= BufMax) /\ ~(job.mps <= BufMax)
    BY <1>5, <1>8, <1>9
  <2> QED BY <1>2, <2>1 DEF ChunksFit
<1> HIDE DEF n, done
<1> QED BY <1>1, <1>19, <1>14, <1>15, <1>16, <1>17, <1>18, Replied

\* The name of an MP.
LEMMA ReadMpNameStep == ASSUME IInv, ReadMpName("data") PROVE IInv'
<1>1. /\ Handling("data") /\ ph = "mpname" /\ up["data"] # <<>> /\ Consume("data")
      /\ Head(up["data"]).type # "Tail"
      /\ UNCHANGED <<turn, clients, blocking, closed>> /\ HandlerFrame
  BY DEF ReadMpName
<1>2. /\ job \in Models \cup {NoModel} /\ models \in Seq(ModelRec) /\ k \in 1..Total(job)
      /\ cnt \in Nat /\ blocking \in SUBSET Conns /\ Head(up["data"]) = Script(job)[k]
  BY <1>1, DataSent
<1>3. PICK i \in 1..job.mps : /\ k = 3 + N1(job) + i /\ cnt = job.mps - i + 1
                              /\ Got(job.mps, i - 1, 0)
  BY <1>1, MessageRead DEF ExpectsMpName
<1>4. job.dag /\ Arrived
  BY <1>1, MessageRead DEF ExpectsMpName
<1>5. /\ job.id \in Nat /\ job.mps \in Nat /\ job.nashs \in Nat
      /\ N1(job) \in Nat \ {0} /\ N2(job) \in Nat
      /\ Script(job)[k] = Msg("MathPrgmGuiName")
  BY <1>2, <1>3, <1>4, ScriptIs
<1>6. job' = job /\ k' = k
  BY <1>1 DEF HandlerFrame, libvars
<1>7. Head(up["data"]).type = "MathPrgmGuiName" /\ ~(Script(job)[k].n > BufMax)
  BY <1>2, <1>5, PlainFits
<1>8. /\ Reply("data", "GuiAck") /\ WithEmpDag("names", 1) /\ cnt' = cnt - 1
      /\ ph' = IF cnt = 1 THEN AfterNames ELSE "mpname"
  BY <1>7 DEF ReadMpName
<1>9. models' \in Seq(ModelRec) /\ Got(job.mps, i, 0)' /\ Arrived'
  <2>1. models' = [models EXCEPT ![job.id + 1].dags[Len(models[job.id + 1].dags)].names = @ + 1]
    BY <1>8 DEF WithEmpDag
  <2>2. (i - 1) + 1 = i /\ i \in Nat
    BY <1>3, <1>5
  <2>3. models' = [models EXCEPT ![job.id + 1].dags[Len(models[job.id + 1].dags)] =
                     [of |-> job.id, mps |-> job.mps, names |-> i, nashs |-> 0]]
    <3> DEFINE x == models[job.id + 1].dags[Len(models[job.id + 1].dags)]
    <3>1. x = [of |-> job.id, mps |-> job.mps, names |-> i - 1, nashs |-> 0]
      BY <1>3 DEF Got
    <3>2. [x EXCEPT !.names = @ + 1] = [of |-> job.id, mps |-> job.mps, names |-> i, nashs |-> 0]
      BY <2>2, <3>1
    <3>3. models' = [models EXCEPT ![job.id + 1].dags[Len(models[job.id + 1].dags)] =
                       [x EXCEPT !.names = @ + 1]]
      BY <2>1
    <3> QED BY <3>2, <3>3
  <2>4. models' \in Seq(ModelRec) /\ Got(job.mps, i, 0)' /\ (Arrived => Arrived')
    BY <1>2, <1>3, <1>5, <1>6, <2>2, <2>3, SameDagRec
  <2> QED BY <1>4, <2>4
<1>10. PhaseOf("data")' = ph'
  BY <1>1 DEF PhaseOf, Handling
<1>11. N1(job)' = N1(job)
  BY <1>6 DEF N1, NumChunks
<1>12. ph' \in {"mpname", "nash", "end"} /\ Expects(k + 1)'
  <2>1. CASE cnt = 1
    <3>1. i = job.mps
      BY <1>3, <1>5, <2>1
    <3>2. k = 3 + N1(job) + job.mps
      BY <1>3, <3>1
    <3>3. ph' = AfterNames
      BY <1>8, <2>1
    <3>4. Got(job.mps, job.mps, 0)'
      BY <1>6, <1>9, <3>1 DEF Got
    <3>5. Expects(k + 1)'
      BY <1>2, <1>4, <1>6, <1>9, <1>10, <3>2, <3>3, <3>4, AfterNamesExpects
    <3> QED BY <3>3, <3>5 DEF AfterNames
  <2>2. CASE cnt # 1
    <3>1. /\ i + 1 \in 1..job.mps /\ cnt' = job.mps - (i + 1) + 1 /\ (i + 1) - 1 = i
          /\ k' + 1 = 3 + N1(job) + (i + 1)
      BY <1>3, <1>5, <1>6, <1>8, <2>2
    <3>2. ph' = "mpname"
      BY <1>8, <2>2
    <3>3. Got(job.mps, (i + 1) - 1, 0)'
      BY <1>9, <3>1
    <3>4. ExpectsMpName(k + 1)'
      BY <1>4, <1>6, <1>9, <1>10, <1>11, <3>1, <3>2, <3>3 DEF ExpectsMpName
    <3> QED BY <3>2, <3>4 DEF Expects
  <2> QED BY <2>1, <2>2
<1>13. Answer(k) = "GuiAck"
  BY <1>3, <1>5 DEF Answer
<1>14. cnt' \in Nat
  BY <1>3, <1>5, <1>8
<1>15. ph' \in Phases /\ blocking' \in SUBSET Conns
  BY <1>1, <1>2, <1>12 DEF Phases
<1> QED BY <1>1, <1>7, <1>8, <1>9, <1>12, <1>13, <1>14, <1>15, Replied

\* A chunk of Nash nodes.
LEMMA ReadNashsStep == ASSUME IInv, ReadNashs("data") PROVE IInv'
<1>1. /\ Handling("data") /\ ph = "nash" /\ up["data"] # <<>> /\ Consume("data")
      /\ Head(up["data"]).type # "Tail"
      /\ Reply("data", "GuiAck") /\ WithEmpDag("nashs", Head(up["data"]).n)
      /\ cnt' = job.nashs
      /\ UNCHANGED <<turn, clients, blocking, closed>> /\ HandlerFrame
  BY DEF ReadNashs
<1>2. /\ job \in Models \cup {NoModel} /\ models \in Seq(ModelRec) /\ k \in 1..Total(job)
      /\ cnt \in Nat /\ blocking \in SUBSET Conns /\ Head(up["data"]) = Script(job)[k]
  BY <1>1, DataSent
<1>3. PICK i \in 1..N2(job) : /\ k = 3 + N1(job) + job.mps + i
                              /\ Got(job.mps, job.mps, (i - 1) * MpMax)
  BY <1>1, MessageRead DEF ExpectsNashs
<1>4. job.dag /\ Arrived
  BY <1>1, MessageRead DEF ExpectsNashs
<1>5. /\ job.id \in Nat /\ job.mps \in Nat /\ job.nashs \in Nat
      /\ N1(job) \in Nat \ {0} /\ N2(job) \in Nat
      /\ Total(job) = 4 + N1(job) + job.mps + N2(job)
      /\ Script(job)[k] = ChunkMsg(job.nashs, i, "NashGuiData", "NashGuiDataEnd")
  BY <1>2, <1>3, <1>4, ScriptIs
<1>6. job' = job /\ k' = k
  BY <1>1 DEF HandlerFrame, libvars
<1> DEFINE n == Head(up["data"]).n
           done == (i - 1) * MpMax + n
<1>7. i \in 1..NumChunks(job.nashs) /\ N2(job) = NumChunks(job.nashs) /\ job.nashs > 0
  BY <1>3 DEF N2
<1>8. n \in Nat /\ (n > BufMax => MpMax > BufMax /\ job.nashs > BufMax)
  BY <1>2, <1>5, <1>7, ChunkFits, SMTT(30) DEF Types
<1>9. MpMax \in Nat /\ BufMax \in Nat /\ (i - 1) * MpMax \in Nat
  BY <1>3, <1>5, BoundsAssumption
<1>10. PICK d \in Nat : d = done
  BY <1>8, <1>9
<1>11. models' \in Seq(ModelRec) /\ Got(job.mps, job.mps, d)' /\ Arrived'
  <2>1. models' = [models EXCEPT ![job.id + 1].dags[Len(models[job.id + 1].dags)].nashs = @ + n]
    BY <1>1 DEF WithEmpDag
  <2>2. models' = [models EXCEPT ![job.id + 1].dags[Len(models[job.id + 1].dags)] =
                     [of |-> job.id, mps |-> job.mps, names |-> job.mps, nashs |-> d]]
    <3> DEFINE x == models[job.id + 1].dags[Len(models[job.id + 1].dags)]
    <3>1. x = [of |-> job.id, mps |-> job.mps, names |-> job.mps, nashs |-> (i - 1) * MpMax]
      BY <1>3 DEF Got
    <3>2. models' = [models EXCEPT ![job.id + 1].dags[Len(models[job.id + 1].dags)] =
                       [x EXCEPT !.nashs = @ + n]]
      BY <2>1
    <3> HIDE DEF n, x
    <3>3. [x EXCEPT !.nashs = @ + n] =
             [of |-> job.id, mps |-> job.mps, names |-> job.mps, nashs |-> d]
      BY <1>10, <3>1
    <3> QED BY <3>2, <3>3
  <2>3. models' \in Seq(ModelRec) /\ Got(job.mps, job.mps, d)' /\ (Arrived => Arrived')
    <3> HIDE DEF n, done
    <3> QED BY <1>2, <1>3, <1>5, <1>6, <2>2, SameDagRec
  <2> QED BY <1>4, <2>3
<1>12. PhaseOf("data")' = ph'
  BY <1>1 DEF PhaseOf, Handling
<1>13. N1(job)' = N1(job) /\ N2(job)' = N2(job) /\ Total(job)' = Total(job)
  BY <1>6 DEF N1, N2, NumChunks, Total
<1>14. Head(up["data"]) = ChunkMsg(job.nashs, i, "NashGuiData", "NashGuiDataEnd")
  BY <1>2, <1>5
<1>15. ph' \in {"nash", "nashname"} /\ Expects(k + 1)'
  <2>1. CASE i < N2(job)
    <3>1. Head(up["data"]) = [type |-> "NashGuiData", n |-> MpMax]
      BY <1>7, <1>14, <2>1 DEF ChunkMsg
    <3>2. ph' = "nash"
      BY <3>1 DEF ReadNashs
    <3>3. i + 1 \in 1..N2(job) /\ k' + 1 = 3 + N1(job) + job.mps + (i + 1)
      BY <1>3, <1>5, <1>6, <2>1
    <3>4. done = ((i + 1) - 1) * MpMax
      BY <1>3, <1>5, <1>9, <3>1
    <3> HIDE DEF done, n
    <3>5. Got(job.mps, job.mps, ((i + 1) - 1) * MpMax)'
      BY <1>10, <1>11, <3>4
    <3>6. ExpectsNashs(k + 1)'
      BY <1>4, <1>6, <1>11, <1>12, <1>13, <3>2, <3>3, <3>5 DEF ExpectsNashs
    <3> QED BY <3>2, <3>6 DEF Expects
  <2>2. CASE i = N2(job)
    <3>1. Head(up["data"]) = [type |-> "NashGuiDataEnd",
                              n |-> job.nashs - (N2(job) - 1) * MpMax]
      BY <1>7, <1>14, <2>2 DEF ChunkMsg
    <3>2. done = job.nashs
      <4> DEFINE x == (i - 1) * MpMax
      <4>1. n = job.nashs - x /\ x \in Nat
        BY <1>9, <2>2, <3>1
      <4> HIDE DEF x, n
      <4>2. x + n = job.nashs
        BY <1>5, <4>1
      <4> QED BY <4>2 DEF x, n
    <3> HIDE DEF done, n
    <3>3. Got(job.mps, job.mps, job.nashs)'
      BY <1>6, <1>10, <1>11, <3>2 DEF Got
    <3>4. ph' = "nashname"
      BY <3>1 DEF ReadNashs
    <3>5. k' + 1 = Total(job)
      BY <1>3, <1>5, <1>6, <2>2
    <3>6. ExpectsEnd(k + 1)'
      BY <1>4, <1>6, <1>7, <1>11, <1>12, <1>13, <3>3, <3>4, <3>5 DEF ExpectsEnd
    <3> QED BY <3>4, <3>6 DEF Expects
  <2> QED BY <1>3, <1>5, <2>1, <2>2
<1>16. Answer(k) = "GuiAck"
  BY <1>3, <1>5 DEF Answer
<1>17. ph' \in Phases /\ cnt' \in Nat /\ blocking' \in SUBSET Conns
  BY <1>1, <1>2, <1>5, <1>15 DEF Phases
<1>18. k < Total(job)
  BY <1>3, <1>5
<1>19. Script(job)[k].n > BufMax => ~ChunksFit(job)
  <2>1. n > BufMax => ~(MpMax <= BufMax) /\ ~(job.nashs <= BufMax)
    BY <1>5, <1>8, <1>9
  <2> QED BY <1>2, <2>1 DEF ChunksFit
<1> HIDE DEF n, done
<1> QED BY <1>1, <1>11, <1>15, <1>16, <1>17, <1>18, <1>19, Replied

\* The names of the Nash nodes, which are expected and never sent: the end of
\* the model is read in their place, and nothing is answered.
LEMMA ReadNashNameStep == ASSUME IInv, ReadNashName("data") PROVE IInv'
<1>1. /\ Handling("data") /\ ph = "nashname" /\ up["data"] # <<>> /\ Consume("data")
      /\ Head(up["data"]).type # "Tail"
      /\ UNCHANGED <<turn, clients, blocking, closed, models>> /\ HandlerFrame
  BY DEF ReadNashName
<1>2. /\ job \in Models \cup {NoModel} /\ models \in Seq(ModelRec)
      /\ cnt \in Nat /\ blocking \in SUBSET Conns /\ Head(up["data"]) = Script(job)[k]
      /\ lib = "ack" /\ down["data"] = <<>> /\ PhaseOf("data") = ph
      /\ Tail(up["data"]) = IF Script(job)[k].n > BufMax THEN <<Msg("Tail")>> ELSE <<>>
      /\ up \in [Conns -> Seq(Unit)] /\ down \in [Conns -> Seq(Answers)]
  BY <1>1, DataSent
<1>3. k = Total(job) /\ job.nashs > 0
  <2>1. ExpectsEnd(k)
    BY <1>1, MessageRead
  <2> QED BY <1>1, <1>2, <2>1 DEF ExpectsEnd
<1>4. Script(job)[k] = Msg("NewModelEnd")
  BY <1>2, <1>3, ScriptIs
<1>5. Head(up["data"]).type = "NewModelEnd" /\ ~(Script(job)[k].n > BufMax)
  BY <1>2, <1>4, PlainFits
<1>6. ph' = "header" /\ cnt' = cnt /\ down' = down
  BY <1>5 DEF ReadNashName
<1>7. "GuiAck" \in Answers
  BY DEF Answers
<1>8. /\ up' \in [Conns -> Seq(Unit)] /\ up'["log"] = up["log"]
      /\ up'["data"] = <<>> /\ down' \in [Conns -> Seq(Answers)]
  BY <1>1, <1>2, <1>5, <1>6, <1>7, ReadAndReply
<1>9. PhaseOf("data")' = "header"
  BY <1>1, <1>6 DEF PhaseOf, Handling
<1>10. job' = job /\ lib' = "ack"
  BY <1>1, <1>2 DEF HandlerFrame, libvars
<1>11. GivenUp'
  BY <1>2, <1>3, <1>6, <1>8, <1>9, <1>10 DEF GivenUp
<1>12. ph' \in Phases /\ cnt' \in Nat /\ blocking' \in SUBSET Conns /\ models' \in Seq(ModelRec)
  BY <1>1, <1>2, <1>6 DEF Phases
<1> QED BY <1>1, <1>8, <1>11, <1>12, DataHandler DEF Sync

\* The end of a model with an EMPDAG.
LEMMA ReadEndStep == ASSUME IInv, ReadEnd("data") PROVE IInv'
<1>1. /\ Handling("data") /\ ph = "end" /\ up["data"] # <<>> /\ Consume("data")
      /\ Head(up["data"]).type # "Tail"
      /\ Reply("data", "GuiAck") /\ ph' = "header" /\ blocking' = blocking \ {"data"}
      /\ UNCHANGED <<turn, clients, cnt, closed, models>> /\ HandlerFrame
  BY DEF ReadEnd
<1>2. /\ job \in Models \cup {NoModel} /\ models \in Seq(ModelRec)
      /\ cnt \in Nat /\ blocking \in SUBSET Conns
  BY <1>1, DataSent
<1>3. k = Total(job) /\ Arrived /\ Got(job.mps, job.mps, job.nashs)
  BY <1>1, MessageRead DEF ExpectsEnd
<1>4. Script(job)[k] = Msg("NewModelEnd") /\ Total(job) \in Nat /\ Total(job) >= 3
  BY <1>2, <1>3, ScriptIs
<1>5. ~(Script(job)[k].n > BufMax)
  BY <1>4, PlainFits
<1>6. job' = job /\ k' = k
  BY <1>1 DEF HandlerFrame, libvars
<1>7. Got(job.mps, job.mps, job.nashs)' /\ Arrived'
  BY <1>1, <1>3, <1>6 DEF Got, Arrived
<1>8. PhaseOf("data")' = "header"
  BY <1>1 DEF PhaseOf, Handling
<1>9. Total(job)' = Total(job)
  BY <1>6 DEF Total, N1, N2, NumChunks
<1>10. HasAll(k + 1)'
  BY <1>1, <1>3, <1>6, <1>7, <1>8, <1>9 DEF HasAll
<1>11. Answer(k) = "GuiAck"
  BY <1>3, <1>4 DEF Answer
<1>12. ph' \in Phases /\ cnt' \in Nat /\ blocking' \in SUBSET Conns /\ models' \in Seq(ModelRec)
  BY <1>1, <1>2 DEF Phases
<1>13. Expects(k + 1)'
  BY <1>10 DEF Expects
<1> QED BY <1>1, <1>5, <1>11, <1>12, <1>13, Replied

\* A read that finds the bytes another one left.
LEMMA ReadTailStep == ASSUME IInv, ReadTail("data") PROVE IInv'
<1>1. /\ Handling("data") /\ gui' = "corrupt"
      /\ UNCHANGED <<libvars, sig, backlog, clients, turn, ph, cnt, blocking, closed,
                     models, up, down, dropped, uses>>
  BY DEF ReadTail
<1>2. Values' /\ Streams'
  BY <1>1 DEF IInv, Values, Streams, libvars, Script, EmpDagScript
<1>3. Lists'
  BY <1>1, ListsFrame DEF IInv, libvars
<1>4. PhaseOf("log")' = PhaseOf("log")
  BY <1>1 DEF PhaseOf
<1>5. Framed'
  BY <1>1, <1>4, FramedFrame DEF IInv, Broken, GuiGone, Handling, libvars
<1>6. Life'
  BY <1>1 DEF IInv, Life, Handling, libvars, Script, EmpDagScript
<1> QED BY <1>1, <1>2, <1>3, <1>5, <1>6 DEF IInv

\* The client whose messages are models.
LEMMA DataClientStep == ASSUME IInv, Serve("data") PROVE IInv'
<1>1. ~LogMsgSolver("data")
  <2>1. SUFFICES ASSUME LogMsgSolver("data") PROVE FALSE
    OBVIOUS
  <2>2. /\ Handling("data") /\ ph = "header" /\ up["data"] # <<>>
        /\ Head(up["data"]).type = "LogMsgSolver"
    BY <2>1 DEF LogMsgSolver
  <2>3. k = 1 /\ Head(up["data"]) = Script(job)[k] /\ job \in Models \cup {NoModel}
    BY <2>2, MessageRead, DataSent
  <2>4. Script(job)[k] = Msg("NewModelStart")
    BY <2>3, ScriptIs
  <2> QED BY <2>2, <2>3, <2>4, PlainFits
<1>2. ~InvalidType("data")
  <2>1. SUFFICES ASSUME InvalidType("data") PROVE FALSE
    OBVIOUS
  <2>2. /\ Handling("data") /\ ph = "header" /\ up["data"] # <<>>
        /\ Head(up["data"]).type \notin {"LogMsgSolver", "NewModelStart"}
    BY <2>1 DEF InvalidType
  <2>3. k = 1 /\ Head(up["data"]) = Script(job)[k] /\ job \in Models \cup {NoModel}
    BY <2>2, MessageRead, DataSent
  <2>4. Script(job)[k] = Msg("NewModelStart")
    BY <2>3, ScriptIs
  <2> QED BY <2>2, <2>3, <2>4, PlainFits
<1>3. ~ReadLogMsg("data")
  <2>1. SUFFICES ASSUME ReadLogMsg("data") PROVE FALSE
    OBVIOUS
  <2>2. Handling("data") /\ ph = "logbody"
    BY <2>1 DEF ReadLogMsg
  <2>3. Sync /\ PhaseOf("data") = "logbody"
    BY <2>2, ClientIs
  <2>4. \A j : ~Expects(j)
    BY <2>3 DEF Expects, ExpectsHeader, ExpectsName, ExpectsMdlEnd, ExpectsMps,
                ExpectsMpName, ExpectsNashs, ExpectsEnd, HasAll
  <2> QED BY <2>3, <2>4 DEF Sync, Quiet, Writing, Sent, Answered, Refused, GivenUp, Overrun
<1> QED BY <1>1, <1>2, <1>3, NoMoreStep, NewModelStartStep, NewModelNameStep,
           NewModelEndStep, NewEmpDagStartStep, ReadTailStep, ReadMpsStep, ReadMpNameStep,
           ReadNashsStep, ReadNashNameStep, ReadEndStep DEF Serve

\* Every step preserves the invariant.
LEMMA IInvStep == IInv /\ [Next]_vars => IInv'
<1> SUFFICES ASSUME IInv, [Next]_vars PROVE IInv'
  OBVIOUS
<1>1. CASE ImguiStart
  BY <1>1, ImguiStartStep
<1>2. CASE SendModel
  BY <1>2, SendModelStep
<1>3. CASE LogHeader
  BY <1>3, LogHeaderStep
<1>4. CASE Exit
  BY <1>4, ExitStep
<1>5. CASE CloseWindow
  BY <1>5, LifeStep
<1>6. CASE LibStep
  BY <1>6, SigWaitStep, ConnectGuiStep, LogBodyStep, WriteMsgStep, ReadAckStep DEF LibStep
<1>7. CASE GuiStep
  <2>1. CASE Exec \/ ServerInitSocket \/ Listen
    BY <2>1, LifeStep
  <2>2. CASE Poll
    BY <2>2, PollStep
  <2>3. CASE \E c \in Conns : Serve(c)
    BY <2>3, LogClientStep, DataClientStep DEF Conns
  <2> QED BY <1>7, <2>1, <2>2, <2>3 DEF GuiStep
<1>8. CASE UNCHANGED vars
  <2>1. /\ UNCHANGED <<lib, fds, logging, job, k, rc>>
        /\ UNCHANGED <<gui, sig, backlog, clients, turn, ph, cnt, blocking, closed, models>>
        /\ UNCHANGED <<up, down, dropped, uses>>
    BY <1>8 DEF vars, libvars, guivars
  <2>2. Values' /\ Streams'
    BY <2>1 DEF IInv, Values, Streams, Script, EmpDagScript
  <2>3. Lists'
    BY <2>1, ListsFrame DEF IInv
  <2>4. PhaseOf("log")' = PhaseOf("log") /\ PhaseOf("data")' = PhaseOf("data")
    BY <2>1 DEF PhaseOf
  <2>5. Framed'
    BY <2>1, <2>4, FramedFrame DEF IInv, Broken, GuiGone
  <2>6. Life'
    BY <2>1 DEF IInv, Life, Script, EmpDagScript
  <2>7. Sync => Sync'
    BY <2>1, <2>4, SyncFrame
  <2> QED BY <2>1, <2>2, <2>3, <2>5, <2>6, <2>7 DEF IInv
<1> QED BY <1>1, <1>2, <1>3, <1>4, <1>5, <1>6, <1>7, <1>8 DEF Next

\* The inductive invariant: the position of the library in the script of the
\* model fits the phase of the GUI, what is under way and what was received.
THEOREM IInvCorrect == Spec => []IInv
BY InitIInv, IInvStep, PTL DEF Spec

-----------------------------------------------------------------------------
(***************************************************************************)
(* What it implies.                                                        *)
(***************************************************************************)

\* The variables have their types.
LEMMA TypesHold == IInv => TypeOK
<1> SUFFICES ASSUME IInv PROVE TypeOK
  OBVIOUS
<1>1. /\ clients \in Seq(Conns) /\ turn \in Seq(Conns) /\ backlog \in Seq(Conns)
      /\ NoRep(clients) /\ NoRep(backlog) /\ ToSet(clients) \cap ToSet(backlog) = {}
      /\ ToSet(turn) \subseteq ToSet(clients)
  BY DEF IInv, Lists
<1>2. Range(clients) = ToSet(clients) /\ Range(turn) = ToSet(turn)
  BY <1>1, ElementsOf
<1>3. ToSet(clients) \subseteq Conns
  <2>1. ToSet(clients) = {clients[i] : i \in 1..Len(clients)}
    BY <1>1, ElementsOf
  <2> QED BY <1>1, <2>1
<1>4. Len(clients) + Len(backlog) <= Cardinality(Conns)
  BY <1>1, TwoConnections
<1> QED BY <1>1, <1>2, <1>3, <1>4 DEF TypeOK, IInv, Values

\* A message of ipc_send_mdl finds the GUI where it expects one of its type.
LEMMA StepHolds == IInv => InStep
<1> SUFFICES ASSUME IInv, gui = "loop", up["data"] # <<>>, ChunksFit(job), ph # "nashname"
             PROVE  Head(up["data"]).type \in Takes(PhaseOf("data"))
  BY DEF InStep, Takes, PhaseOf
<1>1. Sent
  BY DEF IInv, Sync, Quiet, Writing, Answered, Refused, GivenUp, Overrun
<1>2. job \in Models \cup {NoModel} /\ k \in 1..Total(job) /\ Expects(k)
  <2>1. job \in Models \cup {NoModel} /\ k \in 1..Len(Script(job))
    BY <1>1 DEF IInv, Values, Life, Sent
  <2> QED BY <1>1, <2>1, ScriptIs DEF Sent
<1>3. Script(job)[k] \in Unit /\ Total(job) \in Nat
  BY <1>2, ScriptIs
<1>4. Head(up["data"]) = Script(job)[k]
  BY <1>1, <1>3, UnitsAre DEF Sent
<1>5. CASE ExpectsHeader(k)
  <2>1. Script(job)[k] = Msg("NewModelStart")
    BY <1>2, <1>5, ScriptIs DEF ExpectsHeader
  <2> QED BY <1>4, <1>5, <2>1, PlainFits DEF ExpectsHeader, Takes
<1>6. CASE ExpectsName(k)
  <2>1. Script(job)[k] = Msg("NewModelName")
    BY <1>2, <1>6, ScriptIs DEF ExpectsName
  <2> QED BY <1>4, <1>6, <2>1, PlainFits DEF ExpectsName, Takes
<1>7. CASE ExpectsMdlEnd(k)
  <2>1. Script(job)[k] = Msg("NewEmpDagStart") \/ Script(job)[k] = Msg("NewModelEnd")
    <3>1. ~job.dag => Total(job) = 3
      BY DEF Total
    <3>2. job.dag \in BOOLEAN
      BY <1>2, ScriptIs
    <3> QED BY <1>2, <1>7, <3>1, <3>2, ScriptIs DEF ExpectsMdlEnd
  <2> QED BY <1>4, <1>7, <2>1, PlainFits DEF ExpectsMdlEnd, Takes
<1>8. CASE ExpectsMps(k)
  <2>1. PICK i \in 1..N1(job) : k = 3 + i
    BY <1>8 DEF ExpectsMps
  <2>2. Script(job)[k] = ChunkMsg(job.mps, i, "MathPrgmGuiData", "MathPrgmGuiDataEnd")
    BY <1>2, <1>8, <2>1, ScriptIs DEF ExpectsMps
  <2>3. Script(job)[k].type \in {"MathPrgmGuiData", "MathPrgmGuiDataEnd"}
    BY <2>2 DEF ChunkMsg
  <2> QED BY <1>4, <1>8, <2>3 DEF ExpectsMps, Takes
<1>9. CASE ExpectsMpName(k)
  <2>1. PICK i \in 1..job.mps : k = 3 + N1(job) + i
    BY <1>9 DEF ExpectsMpName
  <2>2. Script(job)[k] = Msg("MathPrgmGuiName")
    BY <1>2, <1>9, <2>1, ScriptIs DEF ExpectsMpName
  <2> QED BY <1>4, <1>9, <2>2, PlainFits DEF ExpectsMpName, Takes
<1>10. CASE ExpectsNashs(k)
  <2>1. PICK i \in 1..N2(job) : k = 3 + N1(job) + job.mps + i
    BY <1>10 DEF ExpectsNashs
  <2>2. Script(job)[k] = ChunkMsg(job.nashs, i, "NashGuiData", "NashGuiDataEnd")
    BY <1>2, <1>10, <2>1, ScriptIs DEF ExpectsNashs
  <2>3. Script(job)[k].type \in {"NashGuiData", "NashGuiDataEnd"}
    BY <2>2 DEF ChunkMsg
  <2> QED BY <1>4, <1>10, <2>3 DEF ExpectsNashs, Takes
<1>11. CASE ExpectsEnd(k)
  <2>1. Script(job)[k] = Msg("NewModelEnd")
    BY <1>2, <1>11, ScriptIs DEF ExpectsEnd
  <2>2. PhaseOf("data") = "end"
    BY <1>11 DEF ExpectsEnd, PhaseOf
  <2> QED BY <1>4, <2>1, <2>2, PlainFits DEF Takes
<1>12. ~HasAll(k)
  BY <1>2, <1>3 DEF HasAll
<1> QED BY <1>2, <1>5, <1>6, <1>7, <1>8, <1>9, <1>10, <1>11, <1>12 DEF Expects

\* No text is taken for a header.
LEMMA LogHolds == IInv => LogFramed
<1> SUFFICES ASSUME IInv, ~dropped, turn # <<>>, Head(turn) = "log", ph = "header",
                    up["log"] # <<>>
             PROVE  Head(up["log"]).type = "LogMsgSolver"
  BY DEF LogFramed
<1>1. PhaseOf("log") = "header"
  BY DEF PhaseOf
<1>2. ~Broken("log")
  <2>1. gui \notin {"noexec", "dead"}
    BY DEF IInv, Life
  <2>2. turn \in Seq(Conns) /\ ToSet(turn) \subseteq ToSet(clients)
        /\ closed \cap ToSet(clients) = {}
    BY DEF IInv, Lists
  <2>3. "log" \in ToSet(turn)
    <3>1. 1 \in 1..Len(turn) /\ turn[1] = "log"
      BY <2>2
    <3> QED BY <2>2, <3>1, ElementsOf
  <2> QED BY <2>1, <2>2, <2>3 DEF Broken, GuiGone
<1>3. up["log"] \in Seq(Unit)
  BY DEF IInv, Streams, Conns
<1>4. 1 \in 1..Len(up["log"]) /\ Head(up["log"]) = up["log"][1] /\ 1 % 2 = 1
  BY <1>3
<1>5. up["log"][1] = Msg("LogMsgSolver")
  BY <1>1, <1>2, <1>4 DEF IInv, Framed
<1> QED BY <1>4, <1>5, PlainFits

\* Both streams are read as they were written, whatever is sent, whichever
\* messages are refused and however the two clients are served.
THEOREM StreamsInStepCorrect == Spec => []StreamsInStep
BY IInvCorrect, TypesHold, StepHolds, LogHolds, PTL DEF StreamsInStep

\* When ipc_send_mdl returns OK the GUI has the model with all its nodes, and
\* its thread is not left in a blocking read.
LEMMA ReceivedHolds == IInv => OkMeansReceived
<1> SUFFICES ASSUME IInv, rc = <<"ipc_send_mdl", "OK">>, gui = "loop", lib = "idle"
             PROVE  /\ models # <<>> /\ Last(models).id = job.id
                    /\ "data" \notin blocking
                    /\ job.dag =>
                         LET dags == models[job.id + 1].dags
                         IN  /\ dags # <<>> /\ Last(dags).of = job.id
                             /\ Last(dags).mps = job.mps /\ Last(dags).names = job.mps
                             /\ Last(dags).nashs = job.nashs
  BY DEF OkMeansReceived
<1>1. Quiet
  BY DEF IInv, Sync, Writing, Sent, Answered, Refused, GivenUp, Overrun
<1>2. HasAll(Total(job) + 1)
  BY <1>1 DEF Quiet
<1>3. models # <<>> /\ Last(models).id = job.id /\ "data" \notin blocking
  BY <1>2 DEF HasAll, Arrived, Last
<1>4. ASSUME job.dag
      PROVE  LET dags == models[job.id + 1].dags
             IN  /\ dags # <<>> /\ Last(dags).of = job.id
                 /\ Last(dags).mps = job.mps /\ Last(dags).names = job.mps
                 /\ Last(dags).nashs = job.nashs
  <2> DEFINE dags == models[job.id + 1].dags
  <2>1. dags # <<>> /\ Last(dags) = [of |-> job.id, mps |-> job.mps, names |-> job.mps,
                                     nashs |-> job.nashs]
    BY <1>2, <1>4 DEF HasAll, Got, Last
  <2> QED BY <2>1
<1> QED BY <1>3, <1>4

\* OK means received.
THEOREM OkMeansReceivedCorrect == Spec => []OkMeansReceived
BY IInvCorrect, ReceivedHolds, PTL
=============================================================================
