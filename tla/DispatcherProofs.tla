-------------------------- MODULE DispatcherProofs --------------------------
(***************************************************************************)
(* Proofs about modules Docker and Dispatcher, for any number of servers,  *)
(* containers, connections and commands under way.  Docker, on its own:    *)
(* type correctness, that create recovers at most once from each failure,  *)
(* and that foreign containers are never removed.  Dispatcher: type        *)
(* correctness, that a console entry always has the live pump that will    *)
(* take it out and, with one command at a time per server, that what the   *)
(* daemon tracks and reports of a server is what the Engine has.           *)
(***************************************************************************)
EXTENDS Dispatcher, TLAPS


-----------------------------------------------------------------------------
\* Type correctness of Docker

\* Ending containers and the connections to them keeps the Engine's types.
LEMMA HaltTyped ==
    ASSUME DockerTypeOK, NEW C, NEW s \in ContainerState, Halt(C, s)
    PROVE  /\ state' \in [Ids -> ContainerState]
           /\ server' \in [Ids -> Servers \cup {NoServer}]
           /\ image' \in [Servers -> BOOLEAN]
           /\ stream' \in [Streams -> {"unused", "open", "eof", "done"}]
           /\ source' \in [Streams -> Ids \cup {NoId}]
  BY DEF DockerTypeOK, Halt

\* Wherever an answer leads, the task's place is one of Phase.
LEMMA AnswerTyped ==
    ASSUME DockerTypeOK, NEW t \in Tasks, NEW p \in Phase, Answer(t, p)
    PROVE  at' \in [Tasks -> Phase]
  BY DEF DockerTypeOK, Answer, Phase

\* So it is where a call goes on.
LEMMA GotoTyped ==
    ASSUME DockerTypeOK, NEW t \in Tasks, NEW p \in Phase, Goto(t, p)
    PROVE  at' \in [Tasks -> Phase]
  BY Zenon DEF DockerTypeOK, Goto

\* One post more is a number of posts.
LEMMA PostsTyped ==
    ASSUME DockerTypeOK, NEW t \in Tasks, Posts(t)
    PROVE  posts' \in [Tasks -> Nat]
  <1>1. posts \in [Tasks -> Nat] /\ posts' = [posts EXCEPT ![t] = posts[t] + 1]
    BY Zenon DEF DockerTypeOK, Posts
  <1>2. posts[t] + 1 \in Nat
    BY SMT, <1>1
  <1>. QED  BY Zenon, <1>1, <1>2

\* A request of a runtime call keeps the types.
LEMMA RuntimeTyped ==
    ASSUME DockerTypeOK, NEW t \in Tasks, Runtime(t)
    PROVE  DockerTypeOK'
  <1>1. CASE CreateNoImage(t) \/ CreateNameTaken(t)
    <2>1. at' \in [Tasks -> Phase]
      BY Zenon, <1>1, GotoTyped DEF CreateNoImage, CreateNameTaken, Phase
    <2>2. posts' \in [Tasks -> Nat]
      BY Zenon, <1>1, PostsTyped DEF CreateNoImage, CreateNameTaken
    <2>. QED  BY ZenonT(60), <1>1, <2>1, <2>2 DEF CreateNoImage, CreateNameTaken, DockerTypeOK,
                                                  engineVars
  <1>2. CASE CreateMade(t)
    <2>1. at' \in [Tasks -> Phase]
      BY <1>2, AnswerTyped DEF CreateMade, Phase
    <2>2. PICK c \in Ids :
             /\ state' = [state EXCEPT ![c] = "created"]
             /\ server' = [server EXCEPT ![c] = srv[t]]
             /\ id' = [id EXCEPT ![t] = c]
      BY Zenon, <1>2 DEF CreateMade
    <2>3. state' \in [Ids -> ContainerState]
      BY <2>2 DEF DockerTypeOK, ContainerState
    <2>4. /\ server' \in [Ids -> Servers \cup {NoServer}]
          /\ id' \in [Tasks -> Ids \cup {NoId}]
      BY <2>2 DEF DockerTypeOK
    <2>5. posts' \in [Tasks -> Nat]
      BY Zenon, <1>2, PostsTyped DEF CreateMade
    <2>. QED  BY <1>2, <2>1, <2>3, <2>4, <2>5 DEF CreateMade, DockerTypeOK
  <1>3. CASE CreatePull(t)
    <2>1. at' \in [Tasks -> Phase]
      BY <1>3, AnswerTyped DEF CreatePull, Phase
    <2>. QED  BY Zenon, <1>3, <2>1 DEF CreatePull, DockerTypeOK
  <1>4. CASE CreateClear(t)
    <2>1. at' \in [Tasks -> Phase]
      BY <1>4, AnswerTyped DEF CreateClear, Phase
    <2>2. /\ state' \in [Ids -> ContainerState]
          /\ server' \in [Ids -> Servers \cup {NoServer}]
          /\ image' \in [Servers -> BOOLEAN]
          /\ stream' \in [Streams -> {"unused", "open", "eof", "done"}]
          /\ source' \in [Streams -> Ids \cup {NoId}]
      <3>. QED  BY <1>4, HaltTyped DEF CreateClear, ContainerState
    <2>. QED  BY Zenon, <1>4, <2>1, <2>2 DEF CreateClear, DockerTypeOK
  <1>5. CASE StartPost(t) \/ StartRetry(t)
    <2>1. at' \in [Tasks -> Phase]
      BY <1>5, AnswerTyped DEF StartPost, StartRetry, Started, Phase
    <2>. QED  BY <1>5, <2>1 DEF StartPost, StartRetry, Started, DockerTypeOK, ContainerState
  <1>6. CASE StartPortTaken(t) \/ StartPorts(t)
    BY <1>6 DEF StartPortTaken, StartPorts, Goto, DockerTypeOK, Phase, engineVars
  <1>7. CASE StartList(t)
    BY <1>7 DEF StartList, Goto, DockerTypeOK, Phase, engineVars
  <1>8. CASE StartFree(t)
    <2>1. /\ state' \in [Ids -> ContainerState]
          /\ server' \in [Ids -> Servers \cup {NoServer}]
          /\ image' \in [Servers -> BOOLEAN]
          /\ stream' \in [Streams -> {"unused", "open", "eof", "done"}]
          /\ source' \in [Streams -> Ids \cup {NoId}]
      <3>1. PICK d \in victims[t] : Halt({d}, "gone") \/ UNCHANGED engineVars
        BY <1>8 DEF StartFree
      <3>2. CASE Halt({d}, "gone")
        BY <3>2, HaltTyped DEF ContainerState
      <3>3. CASE UNCHANGED engineVars
        BY <3>3 DEF engineVars, DockerTypeOK
      <3>. QED  BY <3>1, <3>2, <3>3
    <2>2. victims' \in [Tasks -> SUBSET Ids]
      BY <1>8 DEF StartFree, DockerTypeOK
    <2>. QED  BY <1>8, <2>1, <2>2 DEF StartFree, Goto, DockerTypeOK, Phase
  <1>9. CASE Stop(t) \/ Kill(t) \/ Remove(t)
    <2>1. at' \in [Tasks -> Phase]
      BY <1>9, AnswerTyped DEF Stop, Kill, Remove, Phase
    <2>2. /\ state' \in [Ids -> ContainerState]
          /\ server' \in [Ids -> Servers \cup {NoServer}]
          /\ image' \in [Servers -> BOOLEAN]
          /\ stream' \in [Streams -> {"unused", "open", "eof", "done"}]
          /\ source' \in [Streams -> Ids \cup {NoId}]
      <3>1. \/ Halt({id[t]}, "exited")
            \/ Halt({id[t]}, "gone")
            \/ UNCHANGED engineVars
        BY <1>9 DEF Stop, Kill, Remove
      <3>2. CASE UNCHANGED engineVars
        BY <3>2 DEF engineVars, DockerTypeOK
      <3>. QED  BY <3>1, <3>2, HaltTyped DEF ContainerState
    <2>. QED  BY <1>9, <2>1, <2>2 DEF Stop, Kill, Remove, DockerTypeOK
  <1>10. CASE Attach(t)
    <2>1. at' \in [Tasks -> Phase]
      BY Zenon, <1>10, GotoTyped DEF Attach, Phase
    <2>2. PICK a \in Streams :
             /\ stream' = [stream EXCEPT ![a] = "open"]
             /\ source' = [source EXCEPT ![a] = id[t]]
             /\ conn' = [conn EXCEPT ![t] = a]
      BY Zenon, <1>10 DEF Attach
    <2>3. stream' \in [Streams -> {"unused", "open", "eof", "done"}]
      BY Zenon, <2>2 DEF DockerTypeOK
    <2>4. source' \in [Streams -> Ids \cup {NoId}]
      BY Zenon, <2>2 DEF DockerTypeOK
    <2>5. conn' \in [Tasks -> Streams \cup {NoStream}]
      BY Zenon, <2>2 DEF DockerTypeOK
    <2>. QED  BY Zenon, <1>10, <2>1, <2>3, <2>4, <2>5 DEF Attach, DockerTypeOK
  <1>11. CASE PullCheck(t)
    BY <1>11 DEF PullCheck, Goto, DockerTypeOK, Phase, engineVars
  <1>12. CASE Pull(t)
    <2>1. at' \in [Tasks -> Phase]
      BY <1>12, AnswerTyped DEF Pull, Phase
    <2>. QED  BY Zenon, <1>12, <2>1 DEF Pull, DockerTypeOK
  <1>13. CASE Fails(t)
    <2>1. at' \in [Tasks -> Phase]
      BY Zenon, <1>13, GotoTyped DEF Fails, Phase
    <2>2. posts' = posts \/ Posts(t)
      BY Zenon, <1>13 DEF Fails, Posts
    <2>3. posts' \in [Tasks -> Nat]
      BY Zenon, <2>2, PostsTyped DEF DockerTypeOK
    <2>. QED  BY Zenon, <1>13, <2>1, <2>3 DEF Fails, DockerTypeOK, engineVars
  <1>. QED
    BY <1>1, <1>2, <1>3, <1>4, <1>5, <1>6, <1>7, <1>8, <1>9, <1>10, <1>11, <1>12, <1>13
       DEF Runtime

\* So does everything the Engine does by itself.
LEMMA EngineTyped ==
    ASSUME DockerTypeOK, Engine
    PROVE  DockerTypeOK'
  <1>1. CASE \E c \in Ids : ContainerExits(c)
    <2>1. PICK c \in Ids : ContainerExits(c)
      BY <1>1
    <2>2. /\ state' \in [Ids -> ContainerState]
          /\ server' \in [Ids -> Servers \cup {NoServer}]
          /\ image' \in [Servers -> BOOLEAN]
          /\ stream' \in [Streams -> {"unused", "open", "eof", "done"}]
          /\ source' \in [Streams -> Ids \cup {NoId}]
      BY <2>1, HaltTyped DEF ContainerExits, ContainerState
    <2>. QED  BY <2>1, <2>2 DEF ContainerExits, DockerTypeOK, callVars
  <1>2. CASE \E a \in Streams : StreamEnds(a)
    BY <1>2 DEF StreamEnds, DockerTypeOK, callVars
  <1>3. CASE \E s \in Servers : ImagePruned(s)
    BY <1>3 DEF ImagePruned, DockerTypeOK, callVars
  <1>. QED  BY <1>1, <1>2, <1>3 DEF Engine

\* Entering a call and leaving it keep the types.
LEMMA CallTyped ==
    ASSUME DockerTypeOK, NEW t \in Tasks,
           \/ \E s \in Servers, op \in {"create.post", "pull.check"} : CallFor(t, op, s)
           \/ \E c \in Ids, op \in {"start.post", "stop", "kill", "remove", "attach"} :
                 CallOn(t, op, c)
           \/ Forget(t) /\ UNCHANGED engineVars
    PROVE  DockerTypeOK'
  <1>1. CASE \E s \in Servers, op \in {"create.post", "pull.check"} : CallFor(t, op, s)
    BY <1>1 DEF CallFor, Goto, DockerTypeOK, Phase, engineVars
  <1>2. CASE \E c \in Ids, op \in {"start.post", "stop", "kill", "remove", "attach"} :
                 CallOn(t, op, c)
    <2>1. PICK c \in Ids, op \in {"start.post", "stop", "kill", "remove", "attach"} :
                 CallOn(t, op, c)
      BY Zenon, <1>2
    <2>2. op \in Phase
      BY Zenon DEF Phase
    <2>3. at' \in [Tasks -> Phase]
      BY Zenon, <2>1, <2>2, GotoTyped DEF CallOn
    <2>4. id' \in [Tasks -> Ids \cup {NoId}]
      BY Zenon, <2>1 DEF CallOn, DockerTypeOK
    <2>. QED  BY Zenon, <2>1, <2>3, <2>4 DEF CallOn, DockerTypeOK, engineVars
  <1>3. CASE Forget(t) /\ UNCHANGED engineVars
    <2>1. /\ at' \in [Tasks -> Phase]
          /\ id' \in [Tasks -> Ids \cup {NoId}]
          /\ srv' \in [Tasks -> Servers \cup {NoServer}]
      BY <1>3 DEF Forget, Goto, DockerTypeOK, Phase
    <2>2. /\ pulled' \in [Tasks -> BOOLEAN]
          /\ cleared' \in [Tasks -> BOOLEAN]
      BY <1>3 DEF Forget, DockerTypeOK
    <2>3. /\ victims' \in [Tasks -> SUBSET Ids]
          /\ conn' \in [Tasks -> Streams \cup {NoStream}]
          /\ posts' \in [Tasks -> Nat]
      BY <1>3 DEF Forget, DockerTypeOK
    <2>. QED  BY <1>3, <2>1, <2>2, <2>3 DEF engineVars, DockerTypeOK
  <1>. QED  BY <1>1, <1>2, <1>3

\* The first state has the types.
LEMMA DockerInitTyped ==
    ASSUME DockerInit
    PROVE  DockerTypeOK
  <1>1. state \in [Ids -> ContainerState]
    BY Zenon DEF DockerInit, ContainerState
  <1>2. at \in [Tasks -> Phase]
    BY Zenon DEF DockerInit, Phase
  <1>3. posts \in [Tasks -> Nat]
    BY SMT DEF DockerInit
  <1>. QED  BY Zenon, <1>1, <1>2, <1>3 DEF DockerInit, DockerTypeOK

\* The state of the Engine and of the calls keeps its shape.
THEOREM DockerTypeCorrect == DockerSpec => []DockerTypeOK
  <1>1. DockerInit => DockerTypeOK
    BY DockerInitTyped
  <1>2. DockerTypeOK /\ [DockerNext]_dockerVars => DockerTypeOK'
    <2>. SUFFICES ASSUME DockerTypeOK, [DockerNext]_dockerVars
                  PROVE  DockerTypeOK'
      OBVIOUS
    <2>1. CASE \E t \in Tasks : Call(t) \/ Return(t)
      BY <2>1, CallTyped DEF Call, Return
    <2>2. CASE \E t \in Tasks : Runtime(t)
      BY <2>2, RuntimeTyped
    <2>3. CASE Engine
      BY <2>3, EngineTyped
    <2>4. CASE UNCHANGED dockerVars
      BY <2>4 DEF dockerVars, engineVars, callVars, DockerTypeOK
    <2>. QED  BY <2>1, <2>2, <2>3, <2>4 DEF DockerNext
  <1>. QED  BY <1>1, <1>2, PTL DEF DockerSpec

-----------------------------------------------------------------------------
\* create recovers once

\* How many of its two recoveries a call that has pulled (p) and cleared the
\* name (c) has used.
Spent(p, c) == (IF p THEN 1 ELSE 0) + (IF c THEN 1 ELSE 0)

Used(t) == Spent(pulled[t], cleared[t])

\* A recovery pays for one post more, and there are two of them.
LEMMA SpentPays ==
    ASSUME NEW n \in Nat, NEW p \in BOOLEAN, NEW c \in BOOLEAN
    PROVE  /\ 0 <= Spent(p, c) /\ 0 <= Spent(p, c) + 1
           /\ n <= Spent(p, c) => n + 1 <= Spent(p, c) + 1
           /\ n <= Spent(FALSE, c) + 1 => n <= Spent(TRUE, c) /\ n <= Spent(TRUE, c) + 1
           /\ n <= Spent(p, FALSE) + 1 => n <= Spent(p, TRUE) /\ n <= Spent(p, TRUE) + 1
           /\ n <= Spent(p, c) + 1 => n <= 3
  BY SMT DEF Spent

\* Each post but the first follows a recovery that was not used before, and a
\* call that has not begun has not posted.
PostsPaid ==
    \A t \in Tasks :
        /\ at[t] = "idle" => posts[t] = 0
        /\ at[t] = "create.post" => posts[t] <= Used(t)
        /\ at[t] = "create.pull" => ~pulled[t]
        /\ at[t] = "create.clear" => ~cleared[t]
        /\ posts[t] <= Used(t) + 1

\* One call's posts are paid for after any step that is not its own.
LEMMA PostsPaidElsewhere ==
    ASSUME DockerTypeOK, PostsPaid, NEW u \in Tasks,
           at'[u] = at[u], posts'[u] = posts[u],
           pulled'[u] = pulled[u], cleared'[u] = cleared[u]
    PROVE  /\ at'[u] = "idle" => posts'[u] = 0
           /\ at'[u] = "create.post" => posts'[u] <= Used(u)'
           /\ at'[u] = "create.pull" => ~pulled'[u]
           /\ at'[u] = "create.clear" => ~cleared'[u]
           /\ posts'[u] <= Used(u)' + 1
  BY Zenon DEF PostsPaid, Used

\* A step of one call touches no other call's place, counts or flags.
LEMMA OwnCallOnly ==
    ASSUME DockerTypeOK, NEW t \in Tasks, NEW u \in Tasks \ {t},
           Runtime(t) \/ Call(t) \/ Return(t)
    PROVE  /\ at'[u] = at[u]
           /\ posts'[u] = posts[u]
           /\ pulled'[u] = pulled[u]
           /\ cleared'[u] = cleared[u]
           /\ srv'[u] = srv[u]
           /\ id'[u] = id[u]
           /\ victims'[u] = victims[u]
  <1>1. CASE Call(t) \/ Return(t)
    BY <1>1 DEF Call, Return, CallFor, CallOn, Forget, Goto, DockerTypeOK
  <1>2. CASE CreateNoImage(t) \/ CreateNameTaken(t) \/ CreateMade(t) \/ CreatePull(t)
             \/ CreateClear(t)
    BY <1>2 DEF CreateNoImage, CreateNameTaken, CreateMade, CreatePull, CreateClear,
                Answer, Goto, Posts, DockerTypeOK
  <1>3. CASE StartPost(t) \/ StartRetry(t) \/ StartPortTaken(t) \/ StartPorts(t)
             \/ StartList(t) \/ StartFree(t)
    BY Zenon, <1>3 DEF StartPost, StartRetry, Started, StartPortTaken, StartPorts, StartList,
                StartFree, Answer, Goto, DockerTypeOK
  <1>4. CASE Stop(t) \/ Kill(t) \/ Remove(t) \/ Attach(t) \/ PullCheck(t) \/ Pull(t)
             \/ Fails(t)
    BY <1>4 DEF Stop, Kill, Remove, Attach, PullCheck, Pull, Fails, Answer, Goto,
                DockerTypeOK
  <1>. QED  BY <1>1, <1>2, <1>3, <1>4 DEF Runtime

\* A step of the call itself leaves its posts paid for.
LEMMA PostsPaidOwn ==
    ASSUME DockerTypeOK, PostsPaid, NEW t \in Tasks,
           Runtime(t) \/ Call(t) \/ Return(t)
    PROVE  /\ at'[t] = "idle" => posts'[t] = 0
           /\ at'[t] = "create.post" => posts'[t] <= Used(t)'
           /\ at'[t] = "create.pull" => ~pulled'[t]
           /\ at'[t] = "create.clear" => ~cleared'[t]
           /\ posts'[t] <= Used(t)' + 1
  <1>. posts[t] \in Nat /\ pulled[t] \in BOOLEAN /\ cleared[t] \in BOOLEAN
    BY DEF DockerTypeOK
  <1>0. /\ at[t] = "idle" => posts[t] = 0
        /\ at[t] = "create.post" => posts[t] <= Used(t)
        /\ at[t] = "create.pull" => ~pulled[t]
        /\ at[t] = "create.clear" => ~cleared[t]
        /\ posts[t] <= Used(t) + 1
    BY Zenon DEF PostsPaid
  <1>1. CASE Call(t) \/ Return(t)
    <2>1. CASE Call(t)
      <3>1. /\ at[t] = "idle" /\ posts'[t] = posts[t]
            /\ pulled'[t] = pulled[t] /\ cleared'[t] = cleared[t]
        BY Zenon, <2>1 DEF Call, CallFor, CallOn
      <3>2. at'[t] \notin {"idle", "create.pull", "create.clear"}
        BY <2>1 DEF Call, CallFor, CallOn, Goto, DockerTypeOK
      <3>3. 0 <= Used(t)' /\ Used(t)' = Used(t)
        BY Zenon, <3>1, SpentPays DEF Used
      <3>. QED  BY Zenon, <1>0, <3>1, <3>2, <3>3
    <2>2. CASE Return(t)
      <3>1. at'[t] = "idle" /\ posts'[t] = 0 /\ pulled'[t] = FALSE /\ cleared'[t] = FALSE
        BY Zenon, <2>2 DEF Return, Forget, Goto, DockerTypeOK
      <3>. QED  BY Zenon, <3>1, SpentPays DEF Used
    <2>. QED  BY Zenon, <1>1, <2>1, <2>2
  <1>2. CASE CreateNoImage(t) \/ CreateNameTaken(t)
    <2>1. /\ at[t] = "create.post" /\ posts'[t] = posts[t] + 1
          /\ pulled'[t] = pulled[t] /\ cleared'[t] = cleared[t]
      BY Zenon, <1>2 DEF CreateNoImage, CreateNameTaken, Posts, DockerTypeOK
    <2>2. \/ at'[t] = "err"
          \/ at'[t] = "create.pull" /\ ~pulled[t]
          \/ at'[t] = "create.clear" /\ ~cleared[t]
      BY Zenon, <1>2 DEF CreateNoImage, CreateNameTaken, Goto, DockerTypeOK
    <2>. QED  BY Zenon, <1>0, <2>1, <2>2, SpentPays DEF Used
  <1>3. CASE CreateMade(t)
    <2>1. /\ at[t] = "create.post" /\ posts'[t] = posts[t] + 1
          /\ pulled'[t] = pulled[t] /\ cleared'[t] = cleared[t]
      BY Zenon, <1>3 DEF CreateMade, Posts, DockerTypeOK
    <2>2. at'[t] \in {"ok", "err"}
      BY Zenon, <1>3 DEF CreateMade, Answer, DockerTypeOK
    <2>. QED  BY Zenon, <1>0, <2>1, <2>2, SpentPays DEF Used
  <1>4. CASE CreatePull(t)
    <2>1. /\ at[t] = "create.pull" /\ posts'[t] = posts[t]
          /\ pulled'[t] = TRUE /\ cleared'[t] = cleared[t]
      BY Zenon, <1>4 DEF CreatePull, DockerTypeOK
    <2>2. at'[t] \in {"create.post", "err"}
      BY Zenon, <1>4 DEF CreatePull, Answer, DockerTypeOK
    <2>. QED  BY Zenon, <1>0, <2>1, <2>2, SpentPays DEF Used
  <1>5. CASE CreateClear(t)
    <2>1. /\ at[t] = "create.clear" /\ posts'[t] = posts[t]
          /\ pulled'[t] = pulled[t] /\ cleared'[t] = TRUE
      BY Zenon, <1>5 DEF CreateClear, DockerTypeOK
    <2>2. at'[t] \in {"create.post", "err"}
      BY Zenon, <1>5 DEF CreateClear, Answer, DockerTypeOK
    <2>. QED  BY Zenon, <1>0, <2>1, <2>2, SpentPays DEF Used
  <1>6. CASE StartPost(t) \/ StartRetry(t) \/ StartPortTaken(t) \/ StartPorts(t)
             \/ StartList(t) \/ StartFree(t)
    BY ZenonT(60), <1>6 DEF StartPost, StartRetry, Started, StartPortTaken, StartPorts, StartList,
                StartFree, Answer, Goto, DockerTypeOK, PostsPaid, Used
  <1>7. CASE Stop(t) \/ Kill(t) \/ Remove(t) \/ Attach(t) \/ PullCheck(t) \/ Pull(t)
    BY <1>7 DEF Stop, Kill, Remove, Attach, PullCheck, Pull, Answer, Goto, DockerTypeOK,
                PostsPaid, Used
  <1>8. CASE Fails(t)
    <2>1. /\ at'[t] \in {"start.retry", "err"}
          /\ pulled'[t] = pulled[t] /\ cleared'[t] = cleared[t]
      BY Zenon, <1>8 DEF Fails, Goto, DockerTypeOK
    <2>2. posts'[t] = posts[t] \/ (at[t] = "create.post" /\ posts'[t] = posts[t] + 1)
      BY Zenon, <1>8 DEF Fails, DockerTypeOK
    <2>. QED  BY Zenon, <1>0, <2>1, <2>2, SpentPays DEF Used
  <1>. QED  BY Zenon, <1>1, <1>2, <1>3, <1>4, <1>5, <1>6, <1>7, <1>8 DEF Runtime

\* create_container posts at most three times, whatever the Engine answers.
THEOREM CreateRecoversOnce == DockerSpec => []RecoversOnce
  <1>1. DockerInit => PostsPaid
    <2>. SUFFICES ASSUME DockerInit, NEW t \in Tasks
                  PROVE  /\ at[t] = "idle" => posts[t] = 0
                         /\ at[t] = "create.post" => posts[t] <= Used(t)
                         /\ at[t] = "create.pull" => ~pulled[t]
                         /\ at[t] = "create.clear" => ~cleared[t]
                         /\ posts[t] <= Used(t) + 1
      BY Zenon DEF PostsPaid
    <2>1. at[t] = "idle" /\ posts[t] = 0 /\ pulled[t] = FALSE /\ cleared[t] = FALSE
      BY Zenon DEF DockerInit
    <2>. QED  BY Zenon, <2>1, SpentPays DEF Used
  <1>2. DockerTypeOK /\ PostsPaid /\ [DockerNext]_dockerVars => PostsPaid'
    <2>. SUFFICES ASSUME DockerTypeOK, PostsPaid, [DockerNext]_dockerVars, NEW u \in Tasks
                  PROVE  /\ at'[u] = "idle" => posts'[u] = 0
                         /\ at'[u] = "create.post" => posts'[u] <= Used(u)'
                         /\ at'[u] = "create.pull" => ~pulled'[u]
                         /\ at'[u] = "create.clear" => ~cleared'[u]
                         /\ posts'[u] <= Used(u)' + 1
      BY DEF PostsPaid
    <2>1. CASE \E t \in Tasks : Runtime(t) \/ Call(t) \/ Return(t)
      <3>1. PICK t \in Tasks : Runtime(t) \/ Call(t) \/ Return(t)
        BY <2>1
      <3>2. CASE u = t
        BY <3>1, <3>2, PostsPaidOwn
      <3>3. CASE u # t
        BY <3>1, <3>3, OwnCallOnly, PostsPaidElsewhere
      <3>. QED  BY <3>2, <3>3
    <2>2. CASE Engine \/ UNCHANGED dockerVars
      <3>1. UNCHANGED callVars
        BY Zenon, <2>2 DEF Engine, ContainerExits, StreamEnds, ImagePruned, dockerVars, callVars
      <3>. QED  BY <3>1, PostsPaidElsewhere DEF callVars
    <2>. QED  BY <2>1, <2>2 DEF DockerNext
  <1>3. DockerTypeOK /\ PostsPaid => RecoversOnce
    <2>. SUFFICES ASSUME DockerTypeOK, PostsPaid, NEW t \in Tasks
                  PROVE  posts[t] <= 3
      BY Zenon DEF RecoversOnce
    <2>1. posts[t] \in Nat /\ pulled[t] \in BOOLEAN /\ cleared[t] \in BOOLEAN
      BY Zenon DEF DockerTypeOK
    <2>2. posts[t] <= Used(t) + 1
      BY Zenon DEF PostsPaid
    <2>. QED  BY Zenon, <2>1, <2>2, SpentPays DEF Used
  <1>. QED  BY <1>1, <1>2, <1>3, DockerTypeCorrect, PTL DEF DockerSpec

-----------------------------------------------------------------------------
\* Foreign containers

\* What calls are about to remove is the panel's: the server create clears the
\* name of, the containers start will free, the one remove was asked for.
OnlyOurs ==
    \A t \in Tasks :
        /\ at[t] \in {"create.post", "create.pull", "create.clear"} => srv[t] \in Servers
        /\ \A d \in victims[t] : server[d] # NoServer
        /\ at[t] = "remove" => id[t] \in Ids /\ server[id[t]] # NoServer

\* A container of the panel stays the panel's, in any step.
LEMMA OursStaysOurs ==
    ASSUME DockerTypeOK, OnlyOurs, DockerNext, NEW c \in Ids, server[c] # NoServer
    PROVE  server'[c] # NoServer
  <1>1. CASE \E t \in Tasks : CreateMade(t)
    <2>1. PICK t \in Tasks : CreateMade(t)
      BY <1>1
    <2>2. srv[t] \in Servers
      BY <2>1 DEF CreateMade, OnlyOurs
    <2>3. server \in [Ids -> Servers \cup {NoServer}] /\ \E d \in Ids : server' = [server EXCEPT ![d] = srv[t]]
      BY Zenon, <2>1 DEF CreateMade, DockerTypeOK
    <2>4. server'[c] = server[c] \/ server'[c] = srv[t]
      BY Zenon, <2>3
    <2>. QED  BY Zenon, <2>2, <2>4, DockerAssumption
  <1>2. CASE ~ \E t \in Tasks : CreateMade(t)
    <2>1. server' = server
      <3>1. CASE Engine
        BY <3>1 DEF Engine, ContainerExits, StreamEnds, ImagePruned, Halt
      <3>2. CASE \E t \in Tasks : Call(t) \/ Return(t)
        BY <3>2 DEF Call, Return, CallFor, CallOn, engineVars
      <3>3. ASSUME NEW t \in Tasks, Runtime(t)
            PROVE  server' = server
        <4>1. ~CreateMade(t)
          BY <1>2
        <4>2. CASE CreateNoImage(t) \/ CreateNameTaken(t) \/ CreatePull(t) \/ CreateClear(t)
          BY Zenon, <4>2 DEF CreateNoImage, CreateNameTaken, CreatePull, CreateClear, Halt, engineVars
        <4>3. CASE StartPost(t) \/ StartRetry(t) \/ StartPortTaken(t) \/ StartPorts(t)
                   \/ StartList(t) \/ StartFree(t)
          BY Zenon, <4>3 DEF StartPost, StartRetry, Started, StartPortTaken, StartPorts, StartList,
                      StartFree, Halt, engineVars
        <4>4. CASE Stop(t) \/ Kill(t) \/ Remove(t) \/ Attach(t) \/ PullCheck(t) \/ Pull(t)
                   \/ Fails(t)
          BY Zenon, <4>4 DEF Stop, Kill, Remove, Attach, PullCheck, Pull, Fails, Halt, engineVars
        <4>. QED  BY <3>3, <4>1, <4>2, <4>3, <4>4 DEF Runtime
      <3>. QED  BY <3>1, <3>2, <3>3 DEF DockerNext
    <2>. QED  BY <2>1
  <1>. QED  BY <1>1, <1>2

\* A step of the call itself is still only about the panel's containers.
LEMMA OnlyOursOwn ==
    ASSUME DockerTypeOK, OnlyOurs, DockerNext, NEW t \in Tasks,
           Runtime(t) \/ Call(t) \/ Return(t)
    PROVE  /\ at'[t] \in {"create.post", "create.pull", "create.clear"} => srv'[t] \in Servers
           /\ \A d \in victims'[t] : server'[d] # NoServer
           /\ at'[t] = "remove" => id'[t] \in Ids /\ server'[id'[t]] # NoServer
  <1>1. \A c \in Ids : server[c] # NoServer => server'[c] # NoServer
    BY OursStaysOurs
  <1>2. victims[t] \subseteq Ids
    BY Zenon DEF DockerTypeOK
  <1>3. CASE Call(t)
    BY ZenonT(60), <1>1, <1>2, <1>3 DEF Call, CallFor, CallOn, Goto, OnlyOurs, DockerTypeOK
  <1>4. CASE Return(t)
    BY <1>4 DEF Return, Forget, Goto, DockerTypeOK
  <1>5. CASE CreateNoImage(t) \/ CreateNameTaken(t) \/ CreateMade(t) \/ CreatePull(t)
             \/ CreateClear(t)
    <2>1. /\ at[t] \in {"create.post", "create.pull", "create.clear"}
          /\ srv' = srv /\ victims' = victims
      BY <1>5 DEF CreateNoImage, CreateNameTaken, CreateMade, CreatePull, CreateClear
    <2>2. at'[t] # "remove"
      <3>1. CASE CreateNoImage(t) \/ CreateNameTaken(t)
        BY <3>1 DEF CreateNoImage, CreateNameTaken, Goto, DockerTypeOK
      <3>2. CASE CreateMade(t) \/ CreatePull(t) \/ CreateClear(t)
        BY ZenonT(60), <3>2 DEF CreateMade, CreatePull, CreateClear, Answer, DockerTypeOK
      <3>. QED  BY <1>5, <3>1, <3>2
    <2>3. \A d \in victims'[t] : server'[d] # NoServer
      BY Zenon, <1>1, <1>2, <2>1 DEF OnlyOurs
    <2>. QED  BY Zenon, <2>1, <2>2, <2>3 DEF OnlyOurs
  <1>6. CASE StartPost(t) \/ StartRetry(t) \/ StartPortTaken(t) \/ StartPorts(t)
    BY ZenonT(60), <1>1, <1>2, <1>6 DEF StartPost, StartRetry, Started, StartPortTaken, StartPorts,
                            Answer, Goto, OnlyOurs, DockerTypeOK
  <1>7. CASE StartList(t)
    <2>1. victims'[t] = {d \in Ids : Removable(id[t], d)}
      BY <1>7 DEF StartList, DockerTypeOK
    <2>2. \A d \in victims'[t] : server'[d] # NoServer
      BY <1>1, <2>1 DEF Removable
    <2>. QED  BY <1>7, <2>2 DEF StartList, Goto, DockerTypeOK
  <1>8. CASE StartFree(t)
    <2>1. victims'[t] \subseteq victims[t]
      BY <1>8 DEF StartFree, DockerTypeOK
    <2>2. \A d \in victims'[t] : server'[d] # NoServer
      BY Zenon, <1>1, <1>2, <2>1 DEF OnlyOurs
    <2>. QED  BY <1>8, <2>2 DEF StartFree, Goto, DockerTypeOK
  <1>9. CASE Stop(t) \/ Kill(t) \/ Remove(t) \/ Attach(t) \/ PullCheck(t) \/ Pull(t)
             \/ Fails(t)
    BY ZenonT(60), <1>1, <1>2, <1>9 DEF Stop, Kill, Remove, Attach, PullCheck, Pull, Fails, Answer,
                            Goto, OnlyOurs, DockerTypeOK
  <1>. QED  BY Zenon, <1>3, <1>4, <1>5, <1>6, <1>7, <1>8, <1>9 DEF Runtime

\* No step changes a foreign container but by letting it stop.
LEMMA ForeignStep ==
    ASSUME DockerTypeOK, OnlyOurs, DockerNext, NEW c \in Ids,
           Live(c), server[c] = NoServer
    PROVE  Live(c)' /\ server'[c] = NoServer
  <1>. USE DEF Live
  <1>1. CASE Engine
    BY ZenonT(60), <1>1 DEF Engine, ContainerExits, StreamEnds, ImagePruned, Halt, DockerTypeOK
  <1>2. CASE \E t \in Tasks : Call(t) \/ Return(t)
    BY Zenon, <1>2 DEF Call, Return, CallFor, CallOn, engineVars
  <1>3. ASSUME NEW t \in Tasks, Runtime(t)
        PROVE  Live(c)' /\ server'[c] = NoServer
    <2>1. CASE CreateNoImage(t) \/ CreateNameTaken(t) \/ CreatePull(t)
      BY Zenon, <2>1 DEF CreateNoImage, CreateNameTaken, CreatePull, engineVars
    <2>2. CASE CreateMade(t)
      BY ZenonT(60), <2>2 DEF CreateMade, DockerTypeOK
    <2>3. CASE CreateClear(t)
      <3>1. srv[t] \in Servers
        BY Zenon, <2>3 DEF CreateClear, OnlyOurs
      <3>2. c \notin Named(srv[t])
        BY Zenon, <3>1, DockerAssumption DEF Named
      <3>. QED  BY Zenon, <2>3, <3>2 DEF CreateClear, Halt
    <2>4. CASE StartPost(t) \/ StartRetry(t) \/ StartPortTaken(t) \/ StartPorts(t)
               \/ StartList(t)
      BY <2>4 DEF StartPost, StartRetry, Started, StartPortTaken, StartPorts, StartList,
                  engineVars, DockerTypeOK
    <2>5. CASE StartFree(t)
      <3>1. c \notin victims[t]
        BY DEF OnlyOurs
      <3>. QED  BY <2>5, <3>1 DEF StartFree, Halt, engineVars
    <2>6. CASE Stop(t) \/ Kill(t)
      BY Zenon, <2>6 DEF Stop, Kill, Halt, engineVars
    <2>7. CASE Remove(t)
      <3>1. c # id[t]
        BY Zenon, <2>7 DEF Remove, OnlyOurs
      <3>. QED  BY Zenon, <2>7, <3>1 DEF Remove, Halt
    <2>8. CASE Attach(t) \/ PullCheck(t) \/ Pull(t) \/ Fails(t)
      BY Zenon, <2>8 DEF Attach, PullCheck, Pull, Fails, engineVars
    <2>. QED  BY Zenon, <1>3, <2>1, <2>2, <2>3, <2>4, <2>5, <2>6, <2>7, <2>8 DEF Runtime
  <1>. QED  BY Zenon, <1>1, <1>2, <1>3 DEF DockerNext

\* create and start never remove a container that is not the panel's.
THEOREM ForeignSafe == DockerSpec => ForeignUntouched
  <1>1. DockerInit => OnlyOurs
    BY DEF DockerInit, OnlyOurs
  <1>2. DockerTypeOK /\ OnlyOurs /\ [DockerNext]_dockerVars => OnlyOurs'
    <2>. SUFFICES ASSUME DockerTypeOK, OnlyOurs, [DockerNext]_dockerVars, NEW u \in Tasks
                  PROVE  /\ at'[u] \in {"create.post", "create.pull", "create.clear"}
                                => srv'[u] \in Servers
                         /\ \A d \in victims'[u] : server'[d] # NoServer
                         /\ at'[u] = "remove" => id'[u] \in Ids /\ server'[id'[u]] # NoServer
      BY DEF OnlyOurs
    <2>1. victims[u] \subseteq Ids
      BY DEF DockerTypeOK
    <2>2. CASE UNCHANGED dockerVars
      BY <2>2 DEF OnlyOurs, dockerVars, engineVars, callVars
    <2>3. CASE DockerNext
      <3>1. \A c \in Ids : server[c] # NoServer => server'[c] # NoServer
        BY Zenon, <2>3, OursStaysOurs
      <3>2. CASE Engine
        <4>1. UNCHANGED callVars
          BY Zenon, <3>2 DEF Engine, ContainerExits, StreamEnds, ImagePruned
        <4>. QED  BY <2>1, <3>1, <4>1 DEF callVars, OnlyOurs
      <3>3. ASSUME NEW t \in Tasks, Runtime(t) \/ Call(t) \/ Return(t), u # t
            PROVE  /\ at'[u] = at[u]
                   /\ srv'[u] = srv[u]
                   /\ id'[u] = id[u]
                   /\ victims'[u] = victims[u]
        BY <3>3, OwnCallOnly
      <3>4. CASE \E t \in Tasks : Runtime(t) \/ Call(t) \/ Return(t)
        <4>1. PICK t \in Tasks : Runtime(t) \/ Call(t) \/ Return(t)
          BY <3>4
        <4>2. CASE u = t
          BY <2>3, <4>1, <4>2, OnlyOursOwn
        <4>3. CASE u # t
          BY <2>1, <3>1, <3>3, <4>1, <4>3 DEF OnlyOurs
        <4>. QED  BY <4>2, <4>3
      <3>. QED  BY <2>3, <3>2, <3>4 DEF DockerNext
    <2>. QED  BY <2>2, <2>3
  <1>3. DockerTypeOK /\ OnlyOurs /\ [DockerNext]_dockerVars
          => [\A c \in Ids : (Live(c) /\ server[c] = NoServer) =>
                /\ Live(c)'
                /\ server'[c] = NoServer]_dockerVars
    BY ForeignStep
  <1>. QED  BY <1>1, <1>2, <1>3, DockerTypeCorrect, PTL DEF DockerSpec, ForeignUntouched

-----------------------------------------------------------------------------
\* Most leaves are set and first-order reasoning; the others name SMT.
USE Zenon

-----------------------------------------------------------------------------
\* Type correctness of Dispatcher

\* A Start has a container from the moment it is received.
StartHasContainer ==
    \A t \in Tasks : action[t] \in {"Start", "StartTracked"} => id[t] # NoId

\* A handler that returns keeps the types of what Done changes.
LEMMA DoneTyped ==
    ASSUME TypeOK, NEW t \in Tasks, Done(t)
    PROVE  /\ DockerTypeOK'
           /\ action' \in [Tasks -> Action \cup HalfDone \cup {"None"}]
           /\ sid' \in [Tasks -> Servers \cup {NoServer}]
  <1>1. DockerTypeOK'
    BY CallTyped DEF Done, TypeOK
  <1>. QED  BY <1>1 DEF Done, TypeOK

\* A command that arrives keeps the types.
LEMMA ReceiveTyped ==
    ASSUME TypeOK, NEW t \in Tasks, NEW s \in Servers, Receive(t, s)
    PROVE  TypeOK'
  <1>1. \A g \in {NoId} \cup {c \in Ids : server[c] = s} :
            container_for(s, g) # NoId => container_for(s, g) \in Ids
    BY DEF container_for, TypeOK
  <1>2. DockerTypeOK'
    <2>1. \/ \E op \in {"create.post", "pull.check"} : CallFor(t, op, s)
          \/ \E c \in Ids, op \in {"start.post", "stop", "kill", "remove"} : CallOn(t, op, c)
      BY <1>1 DEF Receive
    <2>. QED  BY <2>1, CallTyped DEF TypeOK
  <1>3. action' \in [Tasks -> Action \cup HalfDone \cup {"None"}]
    BY DEF Receive, TypeOK
  <1>. QED  BY <1>2, <1>3 DEF Receive, TypeOK

\* The segments of the handlers keep the types.
LEMMA HandlerTyped ==
    ASSUME TypeOK, StartHasContainer, NEW t \in Tasks, Handler(t)
    PROVE  TypeOK'
  <1>. sid[t] \in Servers \cup {NoServer} /\ id[t] \in Ids \cup {NoId}
    BY DEF TypeOK, DockerTypeOK
  <1>1. CASE Failed(t) \/ Pulled(t)
    BY <1>1, DoneTyped DEF Failed, Pulled, TypeOK
  <1>2. CASE Created(t)
    BY <1>2, DoneTyped DEF Created, track, TypeOK
  <1>3. CASE StartReturned(t) \/ Removed(t)
    <2>1. tracked' \in [Servers -> Ids \cup {NoId}]
      BY <1>3 DEF StartReturned, Removed, track, untrack, TypeOK
    <2>2. action' \in [Tasks -> Action \cup HalfDone \cup {"None"}]
      BY <1>3 DEF StartReturned, Removed, HalfDone, TypeOK
    <2>3. DockerTypeOK'
      BY <1>3 DEF StartReturned, Removed, dockerVars, engineVars, callVars, TypeOK, DockerTypeOK
    <2>. QED  BY <1>3, <2>1, <2>2, <2>3 DEF StartReturned, Removed, TypeOK
  <1>7. CASE ConsoleChecked(t)
    <2>2. last' \in [Servers -> {"none", "running", "offline"}]
      BY <1>7 DEF ConsoleChecked, emit_state_changed, TypeOK
    <2>3. id[t] \in Ids
      BY <1>7 DEF ConsoleChecked, StartHasContainer
    <2>4. started' \in SUBSET Ids
      BY <1>7, <2>3 DEF ConsoleChecked, TypeOK
    <2>5. /\ DockerTypeOK'
          /\ action' \in [Tasks -> Action \cup HalfDone \cup {"None"}]
          /\ sid' \in [Tasks -> Servers \cup {NoServer}]
      BY <1>7, <2>3, DoneTyped, CallTyped DEF ConsoleChecked, TypeOK
    <2>. QED  BY <1>7, <2>2, <2>4, <2>5 DEF ConsoleChecked, TypeOK
  <1>4. CASE Attached(t)
    <2>1. conn[t] \in Streams
      BY <1>4 DEF Attached, TypeOK, DockerTypeOK
    <2>2. consoles' \in [Servers -> Streams \cup {NoStream}]
      BY <1>4, <2>1 DEF Attached, TypeOK
    <2>3. pump' \in [Streams -> Servers \cup {NoServer}]
      BY <1>4 DEF Attached, TypeOK
    <2>. QED  BY <1>4, <2>2, <2>3, DoneTyped DEF Attached, TypeOK
  <1>5. CASE Stopped(t)
    BY <1>5, DoneTyped DEF Stopped, emit_state_changed, TypeOK
  <1>6. CASE ConsoleRemoved(t)
    BY <1>6, DoneTyped DEF ConsoleRemoved, TypeOK
  <1>. QED  BY <1>1, <1>2, <1>3, <1>4, <1>5, <1>6, <1>7 DEF Handler

\* No step takes a container from a Start under way.
LEMMA StartKeepsContainer ==
    ASSUME TypeOK, StartHasContainer, [Next]_vars
    PROVE  StartHasContainer'
  <1>. SUFFICES ASSUME NEW u \in Tasks, action'[u] \in {"Start", "StartTracked"}
                PROVE  id'[u] # NoId
    BY DEF StartHasContainer
  <1>1. ASSUME NEW t \in Tasks, NEW s \in Servers, Receive(t, s)
        PROVE  id'[u] # NoId
    <2>1. CASE u # t
      <3>1. action'[u] = action[u]
        BY <1>1, <2>1 DEF Receive, TypeOK
      <3>2. id'[u] = id[u]
        BY <1>1, <2>1 DEF Receive, CallFor, CallOn, TypeOK, DockerTypeOK
      <3>. QED  BY <3>1, <3>2 DEF StartHasContainer
    <2>2. CASE u = t
      <3>1. \E g : container_for(s, g) # NoId /\ CallOn(t, "start.post", container_for(s, g))
        BY <1>1, <2>2 DEF Receive, Action, TypeOK
      <3>. QED  BY <2>2, <3>1 DEF CallOn, TypeOK, DockerTypeOK
    <2>. QED  BY <2>1, <2>2
  <1>2. ASSUME NEW t \in Tasks, Await(t)
        PROVE  id'[u] # NoId
    <2>1. action' = action
      BY <1>2 DEF Await, dispatcherVars
    <2>2. CASE CreateMade(t)
      <3>1. PICK c \in Ids : id' = [id EXCEPT ![t] = c]
        BY <2>2 DEF CreateMade
      <3>2. id'[u] = c \/ id'[u] = id[u]
        BY <3>1 DEF TypeOK, DockerTypeOK
      <3>3. id[u] # NoId
        BY <2>1 DEF StartHasContainer
      <3>. QED  BY <3>2, <3>3, DockerAssumption
    <2>3. CASE ~CreateMade(t)
      <3>1. id' = id
        BY <1>2, <2>3 DEF Await, Runtime, CreateNoImage, CreateNameTaken, CreatePull,
              CreateClear, StartPost, StartRetry, Started, StartPortTaken, StartPorts,
              StartList, StartFree, Stop, Kill, Remove, Attach, PullCheck, Pull, Fails
      <3>. QED  BY <2>1, <3>1 DEF StartHasContainer
    <2>. QED  BY <2>2, <2>3
  <1>3. ASSUME NEW t \in Tasks, Handler(t)
        PROVE  id'[u] # NoId
    <2>1. \/ Done(t)
          \/ CallOn(t, "attach", id[t]) /\ UNCHANGED action
          \/ StartReturned(t)
          \/ Removed(t)
      BY <1>3 DEF Handler, Failed, Created, Pulled, ConsoleChecked, Attached, Stopped,
                  ConsoleRemoved
    <2>2. CASE Done(t)
      BY <2>2 DEF Done, Forget, StartHasContainer, TypeOK, DockerTypeOK
    <2>3. CASE CallOn(t, "attach", id[t]) /\ UNCHANGED action
      BY <2>3 DEF CallOn, StartHasContainer, TypeOK, DockerTypeOK
    <2>4. CASE StartReturned(t) \/ Removed(t)
      BY <2>4 DEF StartReturned, Removed, dockerVars, callVars, StartHasContainer, TypeOK
    <2>. QED  BY <2>1, <2>2, <2>3, <2>4
  <1>4. CASE \E a \in Streams : PumpEnds(a)
    BY <1>4 DEF PumpEnds, callVars, StartHasContainer
  <1>5. CASE Engine /\ UNCHANGED dispatcherVars
    BY <1>5 DEF Engine, ContainerExits, StreamEnds, ImagePruned, callVars, dispatcherVars,
                StartHasContainer
  <1>6. CASE Restart
    BY <1>6 DEF Restart
  <1>7. CASE reconcile \/ UNCHANGED vars
    BY <1>7 DEF reconcile, vars, dockerVars, callVars, dispatcherVars, StartHasContainer
  <1>. QED  BY <1>1, <1>2, <1>3, <1>4, <1>5, <1>6, <1>7 DEF Next

\* The dispatcher's maps and the state of its tasks keep their shape.
THEOREM TypeCorrect == Spec => []TypeOK
  <1>1. Init => TypeOK /\ StartHasContainer
    <2>1. DockerInit => DockerTypeOK
      BY DockerInitTyped
    <2>. SUFFICES ASSUME Init
                  PROVE  TypeOK /\ StartHasContainer
      OBVIOUS
    <2>2. /\ action \in [Tasks -> Action \cup HalfDone \cup {"None"}]
          /\ sid \in [Tasks -> Servers \cup {NoServer}]
      BY DEF Init
    <2>3. /\ tracked \in [Servers -> Ids \cup {NoId}]
          /\ consoles \in [Servers -> Streams \cup {NoStream}]
          /\ last \in [Servers -> {"none", "running", "offline"}]
      BY DEF Init
    <2>4. /\ booting \in BOOLEAN
          /\ pump \in [Streams -> Servers \cup {NoServer}]
          /\ started \in SUBSET Ids
      BY DEF Init
    <2>5. StartHasContainer
      BY DEF Init, StartHasContainer
    <2>. QED  BY <2>1, <2>2, <2>3, <2>4, <2>5 DEF Init, TypeOK
  <1>2. TypeOK /\ StartHasContainer /\ [Next]_vars => TypeOK'
    <2>. SUFFICES ASSUME TypeOK, StartHasContainer, [Next]_vars
                  PROVE  TypeOK'
      OBVIOUS
    <2>1. CASE \E t \in Tasks, s \in Servers : Receive(t, s)
      BY <2>1, ReceiveTyped
    <2>2. CASE \E t \in Tasks : Await(t)
      <3>1. DockerTypeOK'
        BY <2>2, RuntimeTyped DEF Await, TypeOK
      <3>. QED  BY <2>2, <3>1 DEF Await, dispatcherVars, TypeOK
    <2>3. CASE \E t \in Tasks : Handler(t)
      BY <2>3, HandlerTyped
    <2>4. CASE \E a \in Streams : PumpEnds(a)
      <3>1. PICK a \in Streams : PumpEnds(a)
        BY <2>4
      <3>2. stream' \in [Streams -> {"unused", "open", "eof", "done"}]
        BY <3>1 DEF PumpEnds, TypeOK, DockerTypeOK
      <3>3. DockerTypeOK'
        BY <3>1, <3>2 DEF PumpEnds, TypeOK, DockerTypeOK, callVars
      <3>4. pump' \in [Streams -> Servers \cup {NoServer}]
        BY <3>1 DEF PumpEnds, TypeOK
      <3>5. consoles' \in [Servers -> Streams \cup {NoStream}]
        BY <3>1 DEF PumpEnds, TypeOK
      <3>. QED  BY <3>1, <3>3, <3>4, <3>5 DEF PumpEnds, TypeOK
    <2>5. CASE Engine /\ UNCHANGED dispatcherVars
      <3>1. DockerTypeOK'
        BY <2>5, EngineTyped DEF TypeOK
      <3>. QED  BY <2>5, <3>1 DEF dispatcherVars, TypeOK
    <2>6. CASE Restart
      <3>1. DockerTypeOK'
        BY <2>6 DEF Restart, TypeOK, DockerTypeOK, Phase
      <3>. QED  BY <2>6, <3>1 DEF Restart, TypeOK
    <2>7. CASE reconcile
      <3>1. DockerTypeOK'
        BY <2>7 DEF reconcile, TypeOK, DockerTypeOK, dockerVars, engineVars, callVars
      <3>. QED  BY <2>7, <3>1 DEF reconcile, TypeOK
    <2>8. CASE UNCHANGED vars
      BY <2>8 DEF vars, dockerVars, engineVars, callVars, dispatcherVars, TypeOK, DockerTypeOK
    <2>. QED  BY <2>1, <2>2, <2>3, <2>4, <2>5, <2>6, <2>7, <2>8 DEF Next
  <1>. QED  BY <1>1, <1>2, StartKeepsContainer, PTL DEF Spec

-----------------------------------------------------------------------------
\* Consoles

\* A connection is nobody's, a Start's that has yet to enter it, or a pump's:
\* the latter two only while it has not been read to its end.
ConnectionsOwned ==
    /\ \A a \in Streams : pump[a] # NoServer => stream[a] \in {"open", "eof"}
    /\ \A t \in Tasks : conn[t] # NoStream =>
            /\ stream[conn[t]] \in {"open", "eof"}
            /\ pump[conn[t]] = NoServer
    /\ \A t, u \in Tasks : (conn[t] = conn[u] /\ conn[t] # NoStream) => t = u

ConsoleInv == NoDeadConsole /\ ConnectionsOwned

\* As long as no connection is opened, entered or read to its end, those in use
\* stay so.
LEMMA ConnectionsKept ==
    ASSUME TypeOK, ConsoleInv,
           \A a \in Streams : stream[a] \in {"open", "eof"} => stream'[a] \in {"open", "eof"},
           \A t \in Tasks : conn'[t] = conn[t] \/ conn'[t] = NoStream,
           pump' = pump,
           \A s \in Servers : consoles'[s] = consoles[s] \/ consoles'[s] = NoStream
    PROVE  ConsoleInv'
  <1>1. NoDeadConsole'
    <2>. SUFFICES ASSUME NEW s \in Servers, consoles'[s] # NoStream
                  PROVE  pump'[consoles'[s]] = s /\ stream'[consoles'[s]] \in {"open", "eof"}
      BY DEF NoDeadConsole
    <2>1. consoles'[s] = consoles[s]
      OBVIOUS
    <2>2. consoles[s] \in Streams
      BY <2>1 DEF TypeOK
    <2>3. pump[consoles[s]] = s /\ stream[consoles[s]] \in {"open", "eof"}
      BY <2>1 DEF ConsoleInv, NoDeadConsole
    <2>. QED  BY <2>1, <2>2, <2>3
  <1>2. \A t \in Tasks : conn[t] # NoStream => conn[t] \in Streams
    BY ZenonT(60) DEF TypeOK, DockerTypeOK
  <1>3. ConnectionsOwned'
    BY <1>2 DEF ConsoleInv, ConnectionsOwned
  <1>. QED  BY <1>1, <1>3 DEF ConsoleInv

\* Ending a container's connections leaves them to be read to their end.
LEMMA HaltKeepsConnections ==
    ASSUME NEW C, NEW s, Halt(C, s), NEW a \in Streams, stream[a] \in {"open", "eof"}
    PROVE  stream'[a] \in {"open", "eof"}
  BY DEF Halt

\* A request other than attach opens no connection and ends none.
LEMMA RequestKeepsConnections ==
    ASSUME TypeOK, NEW t \in Tasks, Runtime(t), ~Attach(t)
    PROVE  /\ conn' = conn
           /\ \A a \in Streams : stream[a] \in {"open", "eof"} => stream'[a] \in {"open", "eof"}
  <1>1. CASE CreateNoImage(t) \/ CreateNameTaken(t) \/ CreateMade(t) \/ CreatePull(t)
             \/ StartPost(t) \/ StartRetry(t)
    BY <1>1 DEF CreateNoImage, CreateNameTaken, CreateMade, CreatePull, StartPost,
                StartRetry, Started, engineVars
  <1>2. CASE CreateClear(t)
    BY <1>2, HaltKeepsConnections DEF CreateClear
  <1>3. CASE StartPortTaken(t) \/ StartPorts(t) \/ StartList(t) \/ PullCheck(t) \/ Pull(t)
             \/ Fails(t)
    BY <1>3 DEF StartPortTaken, StartPorts, StartList, PullCheck, Pull, Fails, engineVars
  <1>4. CASE StartFree(t)
    BY <1>4, HaltKeepsConnections DEF StartFree, engineVars
  <1>5. CASE Stop(t) \/ Kill(t) \/ Remove(t)
    BY <1>5, HaltKeepsConnections DEF Stop, Kill, Remove, engineVars
  <1>. QED  BY <1>1, <1>2, <1>3, <1>4, <1>5 DEF Runtime

\* attach gives the Start a connection that nobody had.
LEMMA AttachKeepsConsoles ==
    ASSUME TypeOK, ConsoleInv, NEW t \in Tasks, Attach(t), UNCHANGED dispatcherVars
    PROVE  ConsoleInv'
  <1>1. PICK a \in Streams :
            /\ stream[a] = "unused"
            /\ stream' = [stream EXCEPT ![a] = "open"]
            /\ conn' = [conn EXCEPT ![t] = a]
    BY DEF Attach
  <1>2. UNCHANGED <<pump, consoles>>
    BY DEF dispatcherVars
  <1>3. pump[a] = NoServer /\ \A u \in Tasks : conn[u] # a
    BY <1>1, DockerAssumption DEF ConsoleInv, ConnectionsOwned
  <1>4. \A b \in Streams : stream'[b] = IF b = a THEN "open" ELSE stream[b]
    BY <1>1 DEF TypeOK, DockerTypeOK
  <1>5. \A u \in Tasks : /\ conn'[u] = IF u = t THEN a ELSE conn[u]
                         /\ conn[u] \in Streams \cup {NoStream}
    BY ZenonT(60), <1>1 DEF TypeOK, DockerTypeOK
  <1>6. NoDeadConsole'
    <2>. SUFFICES ASSUME NEW s \in Servers, consoles[s] # NoStream
                  PROVE  pump[consoles[s]] = s /\ stream'[consoles[s]] \in {"open", "eof"}
      BY <1>2 DEF NoDeadConsole
    <2>1. consoles[s] \in Streams
      BY DEF TypeOK
    <2>2. pump[consoles[s]] = s /\ stream[consoles[s]] \in {"open", "eof"}
      BY DEF ConsoleInv, NoDeadConsole
    <2>. QED  BY <1>4, <2>1, <2>2
  <1>7. ConnectionsOwned'
    <2>1. \A b \in Streams : pump'[b] # NoServer => stream'[b] \in {"open", "eof"}
      BY <1>2, <1>3, <1>4 DEF ConsoleInv, ConnectionsOwned
    <2>2. ASSUME NEW u \in Tasks, conn'[u] # NoStream
          PROVE  stream'[conn'[u]] \in {"open", "eof"} /\ pump'[conn'[u]] = NoServer
      <3>1. CASE u = t
        BY <1>2, <1>3, <1>4, <1>5, <3>1
      <3>2. CASE u # t
        <4>1. conn'[u] = conn[u] /\ conn[u] \in Streams /\ conn[u] # a
          BY <1>3, <1>5, <2>2, <3>2
        <4>2. stream[conn[u]] \in {"open", "eof"} /\ pump[conn[u]] = NoServer
          BY <2>2, <4>1 DEF ConsoleInv, ConnectionsOwned
        <4>3. stream'[conn[u]] = stream[conn[u]]
          BY <1>4, <4>1
        <4>. QED  BY <1>2, <4>1, <4>2, <4>3
      <3>. QED  BY <3>1, <3>2
    <2>3. ASSUME NEW u \in Tasks, NEW v \in Tasks, conn'[u] = conn'[v], conn'[u] # NoStream
          PROVE  u = v
      <3>1. CASE u = t \/ v = t
        BY <1>3, <1>5, <2>3, <3>1
      <3>2. CASE u # t /\ v # t
        <4>1. conn'[u] = conn[u] /\ conn'[v] = conn[v]
          BY <1>5, <3>2
        <4>. QED  BY <2>3, <4>1 DEF ConsoleInv, ConnectionsOwned
      <3>. QED  BY <3>1, <3>2
    <2>. QED  BY <2>1, <2>2, <2>3 DEF ConnectionsOwned
  <1>. QED  BY <1>6, <1>7 DEF ConsoleInv

\* The Start enters its connection together with the pump that reads it.
LEMMA AttachedKeepsConsoles ==
    ASSUME TypeOK, ConsoleInv, NEW t \in Tasks, Attached(t)
    PROVE  ConsoleInv'
  <1>1. stream' = stream
    BY DEF Attached, Done, engineVars
  <1>2. conn[t] \in Streams /\ pump[conn[t]] = NoServer
        /\ stream[conn[t]] \in {"open", "eof"}
    BY ZenonT(60) DEF Attached, ConsoleInv, ConnectionsOwned, TypeOK, DockerTypeOK
  <1>3. \A u \in Tasks : /\ conn'[u] = IF u = t THEN NoStream ELSE conn[u]
                         /\ conn[u] \in Streams \cup {NoStream}
    BY DEF Attached, Done, Forget, TypeOK, DockerTypeOK
  <1>4. \A b \in Streams : pump'[b] = IF b = conn[t] THEN sid[t] ELSE pump[b]
    BY DEF Attached, TypeOK
  <1>5. \A s \in Servers : /\ consoles'[s] = IF s = sid[t] THEN conn[t] ELSE consoles[s]
                           /\ consoles[s] \in Streams \cup {NoStream}
    BY DEF Attached, TypeOK
  <1>6. NoDeadConsole'
    <2>. SUFFICES ASSUME NEW s \in Servers, consoles'[s] # NoStream
                  PROVE  pump'[consoles'[s]] = s /\ stream[consoles'[s]] \in {"open", "eof"}
      BY <1>1 DEF NoDeadConsole
    <2>1. CASE s = sid[t]
      BY <1>2, <1>4, <1>5, <2>1
    <2>2. CASE s # sid[t]
      <3>1. consoles'[s] = consoles[s] /\ consoles[s] \in Streams
        BY <1>5, <2>2
      <3>2. pump[consoles[s]] = s /\ stream[consoles[s]] \in {"open", "eof"}
        BY <3>1 DEF ConsoleInv, NoDeadConsole
      <3>3. consoles[s] # conn[t]
        BY <1>2, <3>2, DockerAssumption
      <3>. QED  BY <1>4, <3>1, <3>2, <3>3
    <2>. QED  BY <2>1, <2>2
  <1>7. ConnectionsOwned'
    <2>1. \A u \in Tasks \ {t} : conn[u] # conn[t]
      BY DEF Attached, ConsoleInv, ConnectionsOwned
    <2>2. \A b \in Streams : pump'[b] # NoServer => stream'[b] \in {"open", "eof"}
      BY <1>1, <1>2, <1>4 DEF ConsoleInv, ConnectionsOwned
    <2>3. ASSUME NEW u \in Tasks, conn'[u] # NoStream
          PROVE  stream'[conn'[u]] \in {"open", "eof"} /\ pump'[conn'[u]] = NoServer
      <3>1. u # t /\ conn'[u] = conn[u] /\ conn[u] \in Streams
        BY <1>3, <2>3
      <3>2. stream[conn[u]] \in {"open", "eof"} /\ pump[conn[u]] = NoServer
        BY <2>3, <3>1 DEF ConsoleInv, ConnectionsOwned
      <3>3. pump'[conn[u]] = pump[conn[u]]
        BY <1>4, <2>1, <3>1
      <3>. QED  BY <1>1, <3>1, <3>2, <3>3
    <2>4. ASSUME NEW u \in Tasks, NEW v \in Tasks, conn'[u] = conn'[v], conn'[u] # NoStream
          PROVE  u = v
      <3>1. conn'[u] = conn[u] /\ conn'[v] = conn[v]
        BY <1>3, <2>4
      <3>. QED  BY <2>4, <3>1 DEF ConsoleInv, ConnectionsOwned
    <2>. QED  BY <2>2, <2>3, <2>4 DEF ConnectionsOwned
  <1>. QED  BY <1>6, <1>7 DEF ConsoleInv

\* A pump that ends takes out its own entry, or one that is not its own.
LEMMA PumpKeepsConsoles ==
    ASSUME TypeOK, ConsoleInv, NEW a \in Streams, PumpEnds(a)
    PROVE  ConsoleInv'
  <1>1. conn' = conn /\ \A u \in Tasks : conn[u] \in Streams \cup {NoStream}
    BY DEF PumpEnds, callVars, TypeOK, DockerTypeOK
  <1>2. \A b \in Streams : /\ pump'[b] = IF b = a THEN NoServer ELSE pump[b]
                           /\ stream'[b] = IF b = a THEN "done" ELSE stream[b]
    BY DEF PumpEnds, TypeOK, DockerTypeOK
  <1>3. \A s \in Servers : /\ consoles'[s] = IF s = pump[a] THEN NoStream ELSE consoles[s]
                           /\ consoles[s] \in Streams \cup {NoStream}
    BY DEF PumpEnds, TypeOK
  <1>4. \A u \in Tasks : conn[u] # a
    BY DockerAssumption DEF PumpEnds, ConsoleInv, ConnectionsOwned
  <1>5. NoDeadConsole'
    <2>. SUFFICES ASSUME NEW s \in Servers, consoles'[s] # NoStream
                  PROVE  pump'[consoles'[s]] = s /\ stream'[consoles'[s]] \in {"open", "eof"}
      BY DEF NoDeadConsole
    <2>1. consoles'[s] = consoles[s] /\ consoles[s] \in Streams /\ s # pump[a]
      BY <1>3
    <2>2. pump[consoles[s]] = s /\ stream[consoles[s]] \in {"open", "eof"}
      BY <2>1 DEF ConsoleInv, NoDeadConsole
    <2>3. consoles[s] # a
      BY <2>1, <2>2
    <2>. QED  BY <1>2, <2>1, <2>2, <2>3
  <1>6. ConnectionsOwned'
    BY <1>1, <1>2, <1>4 DEF ConsoleInv, ConnectionsOwned
  <1>. QED  BY <1>5, <1>6 DEF ConsoleInv

\* Every console entry belongs to a connection whose pump is alive, for any
\* number of concurrent commands on a server.
THEOREM ConsolesAlive == Spec => []NoDeadConsole
  <1>1. Init => ConsoleInv
    <2>. SUFFICES ASSUME Init
                  PROVE  ConsoleInv
      OBVIOUS
    <2>1. \A s \in Servers : consoles[s] = NoStream
      BY DEF Init
    <2>2. \A a \in Streams : pump[a] = NoServer
      BY DEF Init
    <2>3. \A t \in Tasks : conn[t] = NoStream
      BY DEF Init, DockerInit
    <2>. QED  BY <2>1, <2>2, <2>3 DEF ConsoleInv, NoDeadConsole, ConnectionsOwned
  <1>2. TypeOK /\ ConsoleInv /\ [Next]_vars => ConsoleInv'
    <2>. SUFFICES ASSUME TypeOK, ConsoleInv, [Next]_vars
                  PROVE  ConsoleInv'
      OBVIOUS
    <2>1. CASE \E t \in Tasks, s \in Servers : Receive(t, s)
      <3>1. UNCHANGED <<stream, conn, pump, consoles>>
        <4>1. PICK t \in Tasks, s \in Servers : Receive(t, s)
          BY <2>1
        <4>2. \E op, x : CallFor(t, op, x) \/ CallOn(t, op, x)
          BY <4>1 DEF Receive
        <4>3. UNCHANGED <<stream, conn>>
          BY <4>2 DEF CallFor, CallOn, engineVars
        <4>. QED  BY <4>1, <4>3 DEF Receive
      <3>. QED  BY <3>1, ConnectionsKept
    <2>2. ASSUME NEW t \in Tasks, Await(t)
          PROVE  ConsoleInv'
      <3>1. CASE Attach(t)
        BY <2>2, <3>1, AttachKeepsConsoles DEF Await
      <3>2. CASE ~Attach(t)
        BY <2>2, <3>2, RequestKeepsConnections, ConnectionsKept DEF Await, dispatcherVars
      <3>. QED  BY <3>1, <3>2
    <2>3. ASSUME NEW t \in Tasks, Handler(t)
          PROVE  ConsoleInv'
      <3>1. CASE Attached(t)
        BY <3>1, AttachedKeepsConsoles
      <3>2. CASE ~Attached(t)
        <4>1. pump' = pump /\ stream' = stream
          BY <2>3, <3>2 DEF Handler, Failed, Created, Pulled, StartReturned, ConsoleChecked,
                Stopped, Removed, ConsoleRemoved, Done, CallOn, dockerVars, engineVars
        <4>2. \A u \in Tasks : conn'[u] = conn[u] \/ conn'[u] = NoStream
          BY ZenonT(60), <2>3, <3>2 DEF Handler, Failed, Created, Pulled, StartReturned, ConsoleChecked,
                Stopped, Removed, ConsoleRemoved, Done, Forget, CallOn, dockerVars, callVars,
                TypeOK, DockerTypeOK
        <4>3. \A s \in Servers : consoles'[s] = consoles[s] \/ consoles'[s] = NoStream
          BY <2>3, <3>2 DEF Handler, Failed, Created, Pulled, StartReturned, ConsoleChecked,
                Stopped, Removed, ConsoleRemoved, TypeOK
        <4>. QED  BY <4>1, <4>2, <4>3, ConnectionsKept
      <3>. QED  BY <3>1, <3>2
    <2>4. CASE \E a \in Streams : PumpEnds(a)
      BY <2>4, PumpKeepsConsoles
    <2>5. CASE Engine /\ UNCHANGED dispatcherVars
      <3>1. conn' = conn
        BY <2>5 DEF Engine, ContainerExits, StreamEnds, ImagePruned, callVars
      <3>2. \A a \in Streams : stream[a] \in {"open", "eof"} => stream'[a] \in {"open", "eof"}
        BY <2>5, HaltKeepsConnections
           DEF Engine, ContainerExits, StreamEnds, ImagePruned, TypeOK, DockerTypeOK
      <3>. QED  BY <2>5, <3>1, <3>2, ConnectionsKept DEF dispatcherVars
    <2>6. CASE Restart
      BY <2>6 DEF Restart, ConsoleInv, NoDeadConsole, ConnectionsOwned
    <2>7. CASE reconcile
      BY <2>7, ConnectionsKept DEF reconcile, dockerVars, engineVars, callVars
    <2>8. CASE UNCHANGED vars
      BY <2>8, ConnectionsKept DEF vars, dockerVars, engineVars, callVars, dispatcherVars
    <2>. QED  BY <2>1, <2>2, <2>3, <2>4, <2>5, <2>6, <2>7, <2>8 DEF Next
  <1>3. ConsoleInv => NoDeadConsole
    BY DEF ConsoleInv
  <1>. QED  BY <1>1, <1>2, <1>3, TypeCorrect, PTL DEF Spec

-----------------------------------------------------------------------------
\* Tracking

\* The stages a command passes through.
Stage(t) ==
    \/ /\ action[t] = "Create"
       /\ at[t] \in {"create.post", "create.pull", "create.clear", "ok", "err"}
    \/ action[t] = "PullImage" /\ at[t] \in {"pull.check", "pull", "ok", "err"}
    \/ /\ action[t] = "Start"
       /\ at[t] \in {"start.post", "start.ports", "start.list", "start.free", "start.retry",
                     "ok", "err"}
    \/ action[t] = "StartTracked" /\ at[t] \in {"ok", "attach", "err"}
    \/ action[t] = "Stop" /\ at[t] \in {"stop", "ok", "err"}
    \/ action[t] = "Kill" /\ at[t] \in {"kill", "ok", "err"}
    \/ action[t] = "Remove" /\ at[t] \in {"remove", "ok", "err"}
    \/ action[t] = "RemoveUntracked" /\ at[t] = "ok"

NoneRuns(s) == \A c \in Named(s) : state[c] # "running"

\* The Engine's names: one container of a name, and none before its creation.
OneName ==
    /\ \A c, d \in Ids : (Live(c) /\ Live(d) /\ server[c] = server[d]) =>
                              c = d \/ server[c] = NoServer
    /\ \A c \in Ids : state[c] = "unused" => server[c] = NoServer
    /\ \A c \in started : state[c] # "unused"

OneTask ==
    \A t, u \in Tasks : (at[t] # "idle" /\ at[u] # "idle" /\ sid[t] = sid[u]) => t = u

Boots ==
    booting => /\ \A t \in Tasks : at[t] = "idle"
               /\ \A s \in Servers : tracked[s] = NoId
               /\ started = {}

\* What a command under way may rely on; above all what its runtime call, once
\* it has returned, leaves for the handler to record.
TaskInv(t) ==
    /\ conn[t] # NoStream => at[t] # "idle" /\ action[t] = "StartTracked"
    /\ at[t] # "idle" =>
        /\ sid[t] \in Servers
        /\ Stage(t)
        /\ action[t] = "Create" => srv[t] = sid[t]
        /\ action[t] \in {"Start", "StartTracked", "Stop", "Kill", "Remove"} =>
              id[t] \in Ids /\ server[id[t]] = sid[t]
        /\ action[t] = "StartTracked" => tracked[sid[t]] = id[t]
        /\ at[t] = "ok" =>
            /\ action[t] \in {"Create", "Start"} =>
                  /\ id[t] \in Ids
                  /\ server[id[t]] = sid[t]
                  /\ Named(sid[t]) \subseteq {id[t]}
            /\ action[t] = "Create" => id[t] \notin started
            /\ action[t] \in {"Stop", "Kill"} => NoneRuns(sid[t])
            /\ action[t] = "Remove" => Named(sid[t]) = {}

\* The container is made or started, and not yet tracked.
Making(t, s) == sid[t] = s /\ at[t] = "ok" /\ action[t] \in {"Create", "Start"}

\* The container is started, and the event not yet sent.
Starting(t, s) ==
    /\ sid[t] = s
    /\ at[t] = "ok"
    /\ action[t] = "Start" \/ (action[t] = "StartTracked" /\ conn[t] = NoStream)

\* What the maps say of a server, but for what a command has yet to record.
ServerInv(s) ==
    /\ tracked[s] # NoId => server[tracked[s]] = s
    /\ tracked[s] # NoId => Named(s) \subseteq {tracked[s]} \/ \E t \in Tasks : Making(t, s)
    /\ \A c \in started : (server[c] = s /\ Live(c)) => tracked[s] = c
    /\ last[s] = "offline" => NoneRuns(s) \/ \E t \in Tasks : Starting(t, s)

TrackInv ==
    /\ OneName
    /\ OneTask
    /\ Boots
    /\ \A t \in Tasks : TaskInv(t)
    /\ \A s \in Servers : ServerInv(s)

\* A step that makes, starts, tracks and reports nothing of server s.
Leaves(s) ==
    /\ \A c \in Ids : (server'[c] = s /\ Live(c)') => Live(c)
    /\ \A c \in Ids : (server'[c] = s /\ state'[c] = "running") => state[c] = "running"
    /\ \A c \in Ids : server[c] = s <=> server'[c] = s
    /\ tracked'[s] = tracked[s]
    /\ last'[s] = last[s]
    /\ \A c \in started' : server'[c] = s => c \in started

\* Engine requests that make and start no container.
Calm ==
    /\ server' = server
    /\ \A c \in Ids : /\ Live(c)' => Live(c)
                      /\ state'[c] = "running" => state[c] = "running"
                      /\ state'[c] = "unused" => state[c] = "unused"

SameTask(u) ==
    /\ at'[u] = at[u]
    /\ id'[u] = id[u]
    /\ srv'[u] = srv[u]
    /\ conn'[u] = conn[u]
    /\ action'[u] = action[u]
    /\ sid'[u] = sid[u]

\* Such a step adds no container to the server's, and none that runs.
LEMMA LeavesNamed ==
    ASSUME NEW s \in Servers, Leaves(s)
    PROVE  /\ Named(s)' \subseteq Named(s)
           /\ NoneRuns(s) => NoneRuns(s)'
  <1>1. Named(s)' \subseteq Named(s)
    BY DEF Leaves, Named, Live
  <1>. QED  BY <1>1 DEF Leaves, NoneRuns, Named

\* It keeps what a command for s, itself unchanged, relies on.
LEMMA TaskStays ==
    ASSUME TypeOK, NEW u \in Tasks, TaskInv(u), SameTask(u),
           at[u] # "idle" => Leaves(sid[u])
    PROVE  TaskInv(u)'
  <1>1. CASE at[u] = "idle"
    BY <1>1 DEF TaskInv, SameTask
  <1>2. CASE at[u] # "idle"
    <2>0. PICK s \in Servers : s = sid[u]
      BY <1>2 DEF TaskInv
    <2>1. Leaves(s)
      BY <1>2, <2>0
    <2>2. Named(s)' \subseteq Named(s) /\ (NoneRuns(s) => NoneRuns(s)')
      BY <2>1, LeavesNamed
    <2>3. sid'[u] = s /\ at'[u] = at[u] /\ action'[u] = action[u] /\ id'[u] = id[u]
          /\ conn'[u] = conn[u] /\ srv'[u] = srv[u]
      BY <2>0 DEF SameTask
    <2>4. Stage(u)'
      BY <1>2, <2>3 DEF TaskInv, Stage
    <2>5. Named(sid[u])' = Named(s)' /\ NoneRuns(sid[u])' = NoneRuns(s)'
      BY <2>3 DEF NoneRuns, Named
    <2>6. \A c \in Ids : server[c] = s => server'[c] = s
      BY <2>0, <2>1 DEF Leaves
    <2>7. (id[u] \in Ids /\ server[id[u]] = s /\ id[u] \notin started) => id[u] \notin started'
      BY <2>1, <2>6 DEF Leaves
    <2>8. tracked'[s] = tracked[s]
      BY <2>1 DEF Leaves
    <2>. QED  BY <1>2, <2>1, <2>2, <2>3, <2>4, <2>5, <2>6, <2>7, <2>8, <2>0 DEF TaskInv
  <1>. QED  BY <1>1, <1>2

\* It keeps what the maps say of s.
LEMMA ServerStays ==
    ASSUME TypeOK, NEW s \in Servers, ServerInv(s), Leaves(s),
           \A u \in Tasks : Making(u, s) => Making(u, s)',
           \A u \in Tasks : Starting(u, s) => Starting(u, s)'
    PROVE  ServerInv(s)'
  <1>1. Named(s)' \subseteq Named(s) /\ (NoneRuns(s) => NoneRuns(s)')
    BY LeavesNamed
  <1>2. tracked'[s] = tracked[s] /\ last'[s] = last[s] /\ tracked[s] \in Ids \cup {NoId}
    BY DEF Leaves, TypeOK
  <1>3. tracked'[s] # NoId => server'[tracked'[s]] = s
    BY <1>2 DEF ServerInv, Leaves
  <1>4. tracked'[s] # NoId =>
            Named(s)' \subseteq {tracked'[s]} \/ \E t \in Tasks : Making(t, s)'
    BY <1>1, <1>2 DEF ServerInv
  <1>5. \A c \in started' : (server'[c] = s /\ Live(c)') => tracked'[s] = c
    BY <1>2 DEF ServerInv, Leaves, Live
  <1>6. last'[s] = "offline" => NoneRuns(s)' \/ \E t \in Tasks : Starting(t, s)'
    BY <1>1, <1>2 DEF ServerInv
  <1>. QED  BY <1>3, <1>4, <1>5, <1>6 DEF ServerInv

\* Containers that stop, if they ran, or go.
LEMMA HaltIsCalm ==
    ASSUME NEW C, NEW s \in {"exited", "gone"}, Halt(C, s),
           s = "exited" => \A c \in C : state[c] = "running"
    PROVE  Calm
  <1>1. server' = server /\ \A c \in Ids : state'[c] = IF c \in C THEN s ELSE state[c]
    BY DEF Halt
  <1>2. ASSUME NEW c \in Ids
        PROVE  /\ Live(c)' => Live(c)
               /\ state'[c] = "running" => state[c] = "running"
               /\ state'[c] = "unused" => state[c] = "unused"
    <2>1. CASE c \notin C
      BY <1>1, <2>1 DEF Live
    <2>2. CASE c \in C /\ s = "exited"
      BY <1>1, <2>2 DEF Live
    <2>3. CASE c \in C /\ s = "gone"
      BY <1>1, <2>3 DEF Live
    <2>. QED  BY <2>1, <2>2, <2>3
  <1>. QED  BY <1>1, <1>2 DEF Calm

\* A request of a runtime call, but for the ones that make or start a container.
LEMMA RequestIsCalm ==
    ASSUME TypeOK, NEW t \in Tasks, Runtime(t),
           ~CreateMade(t), ~StartPost(t), ~StartRetry(t)
    PROVE  Calm
  <1>1. \A C, s : (Halt(C, s) /\ s \in {"exited", "gone"} /\ (s = "exited" =>
                    \A c \in C : state[c] = "running")) => Calm
    BY HaltIsCalm
  <1>2. CASE CreateNoImage(t) \/ CreateNameTaken(t) \/ StartPortTaken(t) \/ StartPorts(t)
             \/ StartList(t) \/ PullCheck(t) \/ Fails(t)
    BY <1>2 DEF CreateNoImage, CreateNameTaken, StartPortTaken, StartPorts, StartList,
                PullCheck, Fails, engineVars, Calm, Live
  <1>3. CASE CreatePull(t) \/ Pull(t) \/ Attach(t)
    BY <1>3 DEF CreatePull, Pull, Attach, Calm, Live
  <1>4. UNCHANGED engineVars => Calm
    BY DEF engineVars, Calm, Live
  <1>5. CASE CreateClear(t) \/ Remove(t)
    BY <1>1, <1>5 DEF CreateClear, Remove
  <1>6. CASE StartFree(t)
    BY <1>1, <1>4, <1>6 DEF StartFree
  <1>7. CASE Stop(t) \/ Kill(t)
    BY <1>1, <1>4, <1>7 DEF Stop, Kill
  <1>. QED  BY <1>2, <1>3, <1>5, <1>6, <1>7 DEF Runtime

\* What the Engine does by itself.
LEMMA EngineIsCalm ==
    ASSUME TypeOK, Engine
    PROVE  Calm
  <1>1. CASE \E c \in Ids : ContainerExits(c)
    <2>1. PICK c \in Ids : state[c] = "running" /\ Halt({c}, "exited")
      BY <1>1 DEF ContainerExits
    <2>. QED  BY <2>1, HaltIsCalm
  <1>2. CASE UNCHANGED <<state, server>>
    BY <1>2 DEF Calm, Live
  <1>. QED  BY <1>1, <1>2 DEF Engine, StreamEnds, ImagePruned

\* With the maps unchanged, a calm step is one that leaves every server alone.
LEMMA CalmLeaves ==
    ASSUME Calm, NEW s \in Servers, tracked'[s] = tracked[s], last'[s] = last[s],
           \A c \in started' : server'[c] = s => c \in started
    PROVE  Leaves(s)
  BY DEF Calm, Leaves

\* A calm step gives no name away twice.
LEMMA CalmNames ==
    ASSUME TypeOK, OneName, Calm, started' = started
    PROVE  OneName'
  BY DEF OneName, Calm, TypeOK

\* A runtime call's request touches its own task only.
LEMMA RequestOwnTask ==
    ASSUME TypeOK, NEW t \in Tasks, NEW u \in Tasks \ {t}, Await(t)
    PROVE  SameTask(u)
  <1>1. UNCHANGED <<action, sid>>
    BY DEF Await, dispatcherVars
  <1>2. at'[u] = at[u] /\ srv'[u] = srv[u] /\ id'[u] = id[u]
    BY OwnCallOnly DEF Await, TypeOK
  <1>3. conn'[u] = conn[u]
    <2>1. CASE Attach(t)
      BY <2>1 DEF Attach, TypeOK, DockerTypeOK
    <2>2. CASE ~Attach(t)
      BY <2>2, RequestKeepsConnections DEF Await
    <2>. QED  BY <2>1, <2>2
  <1>. QED  BY <1>1, <1>2, <1>3 DEF SameTask

\* Only the command's own task is under way for its server.
LEMMA OthersElsewhere ==
    ASSUME OneTask, NEW t \in Tasks, NEW u \in Tasks \ {t},
           at[t] # "idle", at[u] # "idle"
    PROVE  sid[u] # sid[t]
  BY DEF OneTask

\* As long as one command at most does anything, and that one is not new.
LEMMA OneTaskStays ==
    ASSUME OneTask, NEW t \in Tasks, \A u \in Tasks \ {t} : SameTask(u),
           at'[t] = "idle" \/ (at[t] # "idle" /\ sid'[t] = sid[t])
    PROVE  OneTask'
  <1>1. \A u \in Tasks : at'[u] # "idle" => at[u] # "idle" /\ sid'[u] = sid[u]
    BY DEF SameTask
  <1>. QED  BY <1>1 DEF OneTask

\* A request that makes and starts nothing: what becomes of its own command.
LEMMA RequestOwnInv ==
    ASSUME TypeOK, TrackInv, ~LossyEngine, NEW t \in Tasks, Await(t),
           ~CreateMade(t), ~StartPost(t), ~StartRetry(t)
    PROVE  TaskInv(t)'
  <1>. USE DEF Answer, Goto
  <1>1. UNCHANGED <<action, sid, tracked, started>> /\ Runtime(t)
    BY DEF Await, dispatcherVars
  <1>2. Calm /\ TaskInv(t) /\ OneName
    BY <1>1, RequestIsCalm DEF TrackInv
  <1>3. at[t] # "idle" /\ at[t] # "ok" /\ at[t] # "err"
    BY <1>1 DEF Runtime, CreateNoImage, CreateNameTaken, CreatePull,
              CreateClear, StartPost, StartRetry, Started, StartPortTaken, StartPorts,
              StartList, StartFree, Stop, Kill, Remove, Attach, PullCheck, Pull, Fails
  <1>4. id' = id /\ srv' = srv
    BY <1>1 DEF Runtime, CreateNoImage, CreateNameTaken, CreatePull,
              CreateClear, StartPost, StartRetry, Started, StartPortTaken, StartPorts,
              StartList, StartFree, Stop, Kill, Remove, Attach, PullCheck, Pull, Fails
  <1>5. sid[t] \in Servers /\ Stage(t) /\ sid[t] # NoServer
    BY <1>2, <1>3, DockerAssumption DEF TaskInv
  <1>6. Stage(t)' /\ at'[t] # "idle"
        /\ (at'[t] = "ok" => \/ Attach(t) /\ action[t] = "StartTracked"
                             \/ (PullCheck(t) \/ Pull(t)) /\ action[t] = "PullImage"
                             \/ (Stop(t) \/ Kill(t)) /\ action[t] \in {"Stop", "Kill"}
                             \/ Remove(t) /\ action[t] = "Remove")
    <2>. USE <1>1, <1>5 DEF Stage, TypeOK, DockerTypeOK
    <2>1. CASE CreateNoImage(t) \/ CreateNameTaken(t) \/ CreatePull(t) \/ CreateClear(t)
      <3>1. at[t] \in {"create.post", "create.pull", "create.clear"}
        BY <2>1 DEF CreateNoImage, CreateNameTaken, CreatePull, CreateClear
      <3>2. at'[t] \in {"err", "create.pull", "create.clear", "create.post"}
        <4>1. CASE CreateNoImage(t) \/ CreateNameTaken(t)
          BY <4>1 DEF CreateNoImage, CreateNameTaken
        <4>2. CASE CreatePull(t) \/ CreateClear(t)
          BY <4>2 DEF CreatePull, CreateClear
        <4>. QED  BY <2>1, <4>1, <4>2
      <3>. QED  BY <3>1, <3>2
    <2>2. CASE StartPortTaken(t) \/ StartPorts(t) \/ StartList(t) \/ StartFree(t)
      <3>1. at[t] \in {"start.post", "start.ports", "start.list", "start.free"}
        BY <2>2 DEF StartPortTaken, StartPorts, StartList, StartFree
      <3>2. at'[t] \in {"start.ports", "start.list", "start.free", "start.retry"}
        <4>1. CASE StartPortTaken(t) \/ StartPorts(t)
          BY <4>1 DEF StartPortTaken, StartPorts
        <4>2. CASE StartList(t) \/ StartFree(t)
          BY <4>2 DEF StartList, StartFree
        <4>. QED  BY <2>2, <4>1, <4>2
      <3>. QED  BY <3>1, <3>2
    <2>3. CASE Stop(t) \/ Kill(t) \/ Remove(t)
      BY <2>3 DEF Stop, Kill, Remove
    <2>4. CASE Attach(t) \/ PullCheck(t) \/ Pull(t)
      BY ZenonT(60), <2>4 DEF Attach, PullCheck, Pull
    <2>5. CASE Fails(t)
      BY <2>5 DEF Fails
    <2>. QED  BY ZenonT(60), <2>1, <2>2, <2>3, <2>4, <2>5 DEF Runtime
  <1>7. conn'[t] # NoStream => action[t] = "StartTracked"
    <2>1. CASE Attach(t)
      BY <1>5, <2>1 DEF Attach, Stage
    <2>2. CASE ~Attach(t)
      BY <1>1, <1>2, <2>2, RequestKeepsConnections DEF TaskInv
    <2>. QED  BY <2>1, <2>2
  <1>8. PICK s \in Servers : s = sid[t]
    BY <1>5
  <1>9. (at'[t] = "ok" /\ action[t] \in {"Stop", "Kill"}) => NoneRuns(s)'
    <2>. SUFFICES ASSUME at'[t] = "ok", action[t] \in {"Stop", "Kill"}, NEW c \in Ids,
                         Live(c)', server'[c] = s
                  PROVE  state'[c] # "running"
      BY DEF NoneRuns, Named
    <2>1. Stop(t) \/ Kill(t)
      BY <1>6
    <2>2. id[t] \in Ids /\ server[id[t]] = s /\ Live(id[t])
      BY <1>2, <1>3, <1>8, <2>1 DEF TaskInv, Stop, Kill
    <2>3. Live(c) /\ server[c] = s
      BY <1>2 DEF Calm
    <2>4. c = id[t]
      BY <1>2, <1>5, <1>8, <2>2, <2>3 DEF OneName
    <2>. QED  BY <2>1, <2>4 DEF Stop, Kill, Halt, engineVars
  <1>10. (at'[t] = "ok" /\ action[t] = "Remove") => Named(s)' = {}
    <2>. SUFFICES ASSUME at'[t] = "ok", action[t] = "Remove", NEW c \in Ids,
                         Live(c)', server'[c] = s
                  PROVE  FALSE
      BY DEF Named
    <2>1. Remove(t)
      BY <1>6
    <2>2. id[t] \in Ids /\ server[id[t]] = s /\ Live(id[t])
      BY <1>2, <1>3, <1>8, <2>1 DEF TaskInv, Remove
    <2>3. Live(c) /\ server[c] = s
      BY <1>2 DEF Calm
    <2>4. c = id[t]
      BY <1>2, <1>5, <1>8, <2>2, <2>3 DEF OneName
    <2>. QED  BY <2>1, <2>4 DEF Remove, Halt, Live
  <1>11. sid'[t] = s /\ Named(sid[t])' = Named(s)' /\ NoneRuns(sid[t])' = NoneRuns(s)'
    BY <1>1, <1>8 DEF NoneRuns, Named
  <1>12. server' = server
    BY <1>2 DEF Calm
  <1>13. at'[t] = "ok" => action[t] \notin {"Create", "Start"}
    BY <1>6
  <1>. QED  BY <1>1, <1>2, <1>3, <1>4, <1>6, <1>7, <1>8, <1>9, <1>10, <1>11, <1>12, <1>13
            DEF TaskInv

\* A request that makes and starts nothing.
LEMMA CalmRequestInv ==
    ASSUME TypeOK, TrackInv, ~LossyEngine, NEW t \in Tasks, Await(t),
           ~CreateMade(t), ~StartPost(t), ~StartRetry(t)
    PROVE  TrackInv'
  <1>1. Runtime(t) /\ UNCHANGED <<booting, action, sid, tracked, last, started>>
    BY DEF Await, dispatcherVars
  <1>2. Calm
    BY <1>1, RequestIsCalm
  <1>3. \A s \in Servers : Leaves(s)
    BY <1>1, <1>2, CalmLeaves
  <1>4. at[t] # "idle" /\ at[t] # "ok"
    BY <1>1 DEF Runtime, CreateNoImage, CreateNameTaken, CreatePull,
              CreateClear, StartPost, StartRetry, Started, StartPortTaken, StartPorts,
              StartList, StartFree, Stop, Kill, Remove, Attach, PullCheck, Pull, Fails
  <1>5. \A u \in Tasks \ {t} : SameTask(u)
    BY RequestOwnTask
  <1>6. \A u \in Tasks : TaskInv(u)'
    <2>1. \A u \in Tasks \ {t} : TaskInv(u)'
      <3>. SUFFICES ASSUME NEW u \in Tasks \ {t} PROVE TaskInv(u)'
        OBVIOUS
      <3>1. TaskInv(u) /\ (at[u] # "idle" => Leaves(sid[u]))
        BY <1>3 DEF TrackInv, TaskInv
      <3>. QED  BY <1>5, <3>1, TaskStays
    <2>. QED  BY <2>1, RequestOwnInv
  <1>7. \A s \in Servers : ServerInv(s)'
    <2>. SUFFICES ASSUME NEW s \in Servers PROVE ServerInv(s)'
      OBVIOUS
    <2>1. \A u \in Tasks : (Making(u, s) => Making(u, s)') /\ (Starting(u, s) => Starting(u, s)')
      BY <1>4, <1>5 DEF Making, Starting, SameTask
    <2>. QED  BY <1>3, <2>1, ServerStays DEF TrackInv
  <1>8. OneName'
    BY <1>1, <1>2, CalmNames DEF TrackInv
  <1>9. OneTask'
    BY <1>1, <1>4, <1>5, OneTaskStays DEF TrackInv
  <1>10. Boots'
    BY <1>1, <1>4 DEF TrackInv, Boots
  <1>. QED  BY <1>6, <1>7, <1>8, <1>9, <1>10 DEF TrackInv

\* 201: the container is the server's only one, and nothing knows it yet.
LEMMA CreateMadeInv ==
    ASSUME TypeOK, TrackInv, ~LossyEngine, NEW t \in Tasks, Await(t), CreateMade(t)
    PROVE  TrackInv'
  <1>1. UNCHANGED <<booting, action, sid, tracked, last, started>>
    BY DEF Await, dispatcherVars
  <1>2. PICK c \in Ids :
            /\ state[c] = "unused"
            /\ state' = [state EXCEPT ![c] = "created"]
            /\ server' = [server EXCEPT ![c] = srv[t]]
            /\ id' = [id EXCEPT ![t] = c]
    BY DEF CreateMade
  <1>3. at[t] = "create.post" /\ at'[t] = "ok" /\ conn' = conn /\ srv' = srv /\ id'[t] = c
    <2>1. at[t] = "create.post" /\ conn' = conn /\ srv' = srv
      BY DEF CreateMade
    <2>2. at'[t] = "ok"
      <3>1. Answer(t, "ok") /\ at \in [Tasks -> Phase]
        BY DEF CreateMade, TypeOK, DockerTypeOK
      <3>. QED  BY <3>1 DEF Answer
    <2>3. id'[t] = c
      BY <1>2 DEF TypeOK, DockerTypeOK
    <2>. QED  BY <2>1, <2>2, <2>3
  <1>4. TaskInv(t) /\ OneName /\ OneTask
    BY DEF TrackInv
  <1>5. action[t] = "Create" /\ srv[t] = sid[t] /\ sid[t] \in Servers
    BY <1>3, <1>4 DEF TaskInv, Stage
  <1>6. PICK s \in Servers : s = sid[t]
    BY <1>5
  <1>7. \A d \in Ids : /\ state'[d] = IF d = c THEN "created" ELSE state[d]
                       /\ server'[d] = IF d = c THEN s ELSE server[d]
    BY <1>2, <1>5, <1>6 DEF TypeOK, DockerTypeOK
  <1>8. server[c] = NoServer /\ c \notin started /\ ~Live(c) /\ s # NoServer
    BY <1>2, <1>4, DockerAssumption DEF OneName, Live
  <1>9. Named(s) = {}
    BY <1>5, <1>6 DEF CreateMade
  <1>10. \A r \in Servers \ {s} : Leaves(r)
    BY <1>1, <1>7, <1>8, DockerAssumption DEF Leaves, Live
  <1>11. \A d \in Ids : (Live(d)' /\ server'[d] = s) => d = c
    BY <1>7, <1>9 DEF Named, Live
  <1>12. \A u \in Tasks \ {t} : SameTask(u)
    BY RequestOwnTask
  <1>13. \A u \in Tasks \ {t} : TaskInv(u)'
    <2>. SUFFICES ASSUME NEW u \in Tasks \ {t} PROVE TaskInv(u)'
      OBVIOUS
    <2>1. TaskInv(u) /\ (at[u] # "idle" => Leaves(sid[u]))
      BY <1>3, <1>4, <1>6, <1>10, OthersElsewhere DEF TrackInv, TaskInv
    <2>. QED  BY <1>12, <2>1, TaskStays
  <1>14. TaskInv(t)'
    <2>1. conn'[t] = NoStream
      BY <1>3, <1>4, <1>5 DEF TaskInv
    <2>2. Named(sid[t])' \subseteq {c}
      BY <1>1, <1>6, <1>11 DEF Named
    <2>3. Stage(t)'
      BY <1>1, <1>3, <1>5 DEF Stage
    <2>. QED  BY <1>1, <1>3, <1>5, <1>6, <1>7, <1>8, <2>1, <2>2, <2>3 DEF TaskInv
  <1>15. \A r \in Servers : ServerInv(r)'
    <2>1. ASSUME NEW r \in Servers \ {s} PROVE ServerInv(r)'
      <3>1. \A u \in Tasks : (Making(u, r) => Making(u, r)') /\ (Starting(u, r) => Starting(u, r)')
        BY <1>3, <1>12 DEF Making, Starting, SameTask
      <3>. QED  BY <1>10, <3>1, ServerStays DEF TrackInv
    <2>2. ServerInv(s)'
      <3>1. ServerInv(s) /\ tracked[s] \in Ids \cup {NoId} /\ started \subseteq Ids
        BY DEF TrackInv, TypeOK
      <3>2. tracked'[s] # NoId => server'[tracked'[s]] = s
        BY <1>1, <1>7, <3>1 DEF ServerInv
      <3>3. Making(t, s)'
        BY <1>1, <1>3, <1>5, <1>6 DEF Making
      <3>4. \A d \in started' : ~(server'[d] = s /\ Live(d)')
        BY <1>1, <1>8, <1>11, <3>1
      <3>5. NoneRuns(s)'
        BY <1>7, <1>11 DEF NoneRuns, Named
      <3>. QED  BY <3>2, <3>3, <3>4, <3>5 DEF ServerInv
    <2>. QED  BY <2>1, <2>2
  <1>16. OneName'
    <2>1. \A d, e \in Ids : (Live(d)' /\ Live(e)' /\ server'[d] = server'[e]) =>
                              d = e \/ server'[d] = NoServer
      <3>. SUFFICES ASSUME NEW d \in Ids, NEW e \in Ids, Live(d)', Live(e)',
                           server'[d] = server'[e]
                    PROVE  d = e \/ server'[d] = NoServer
        OBVIOUS
      <3>1. CASE server'[d] = s
        BY <1>11, <3>1
      <3>2. CASE server'[d] # s
        <4>1. d # c /\ e # c
          BY <1>7, <3>2
        <4>2. server'[d] = server[d] /\ server'[e] = server[e] /\ Live(d) /\ Live(e)
          BY <1>7, <4>1 DEF Live
        <4>. QED  BY <1>4, <4>2 DEF OneName
      <3>. QED  BY <3>1, <3>2
    <2>2. started' = started /\ started \subseteq Ids
      BY <1>1 DEF TypeOK
    <2>. QED  BY <1>4, <1>7, <2>1, <2>2 DEF OneName
  <1>17. OneTask'
    BY <1>1, <1>3, <1>4, <1>12 DEF OneTask, SameTask
  <1>18. Boots'
    BY <1>1, <1>3 DEF TrackInv, Boots
  <1>. QED  BY <1>13, <1>14, <1>15, <1>16, <1>17, <1>18 DEF TrackInv

\* 204 or 304: the container is the server's only one, so the Start will track it.
LEMMA StartedInv ==
    ASSUME TypeOK, TrackInv, ~LossyEngine, NEW t \in Tasks, Await(t),
           StartPost(t) \/ StartRetry(t)
    PROVE  TrackInv'
  <1>1. UNCHANGED <<booting, action, sid, tracked, last, started>>
    BY DEF Await, dispatcherVars
  <1>2. /\ at[t] \in {"start.post", "start.retry"}
        /\ Live(id[t])
        /\ state' = [state EXCEPT ![id[t]] = "running"]
        /\ at'[t] = "ok"
        /\ UNCHANGED <<server, id, conn, srv>>
    BY DEF StartPost, StartRetry, Started, Answer, TypeOK, DockerTypeOK
  <1>4. TaskInv(t) /\ OneName /\ OneTask
    BY DEF TrackInv
  <1>5. action[t] = "Start" /\ id[t] \in Ids /\ server[id[t]] = sid[t] /\ sid[t] \in Servers
    BY <1>2, <1>4 DEF TaskInv, Stage
  <1>6. PICK s \in Servers : s = sid[t] /\ s # NoServer
    BY <1>5, DockerAssumption
  <1>7. \A d \in Ids : state'[d] = IF d = id[t] THEN "running" ELSE state[d]
    BY <1>2, <1>5 DEF TypeOK, DockerTypeOK
  <1>8. \A d \in Ids : Live(d)' <=> Live(d)
    BY <1>2, <1>7 DEF Live
  <1>10. \A r \in Servers \ {s} : Leaves(r)
    BY <1>1, <1>2, <1>5, <1>6, <1>7, <1>8 DEF Leaves
  <1>11. \A d \in Ids : (Live(d)' /\ server'[d] = s) => d = id[t]
    BY <1>2, <1>4, <1>5, <1>6, <1>8 DEF OneName
  <1>12. \A u \in Tasks \ {t} : SameTask(u)
    BY RequestOwnTask
  <1>13. \A u \in Tasks \ {t} : TaskInv(u)'
    <2>. SUFFICES ASSUME NEW u \in Tasks \ {t} PROVE TaskInv(u)'
      OBVIOUS
    <2>1. TaskInv(u) /\ (at[u] # "idle" => Leaves(sid[u]))
      BY <1>2, <1>4, <1>6, <1>10, OthersElsewhere DEF TrackInv, TaskInv
    <2>. QED  BY <1>12, <2>1, TaskStays
  <1>14. TaskInv(t)'
    <2>1. conn'[t] = NoStream
      BY <1>2, <1>4, <1>5 DEF TaskInv
    <2>2. Named(sid[t])' \subseteq {id[t]}
      BY <1>1, <1>6, <1>11 DEF Named
    <2>3. Stage(t)'
      BY <1>1, <1>2, <1>5 DEF Stage
    <2>. QED  BY <1>1, <1>2, <1>5, <2>1, <2>2, <2>3 DEF TaskInv
  <1>15. \A r \in Servers : ServerInv(r)'
    <2>1. ASSUME NEW r \in Servers \ {s} PROVE ServerInv(r)'
      <3>1. \A u \in Tasks : (Making(u, r) => Making(u, r)') /\ (Starting(u, r) => Starting(u, r)')
        BY <1>2, <1>12 DEF Making, Starting, SameTask
      <3>. QED  BY <1>10, <3>1, ServerStays DEF TrackInv
    <2>2. ServerInv(s)'
      <3>1. ServerInv(s) /\ started \subseteq Ids
        BY DEF TrackInv, TypeOK
      <3>3. Making(t, s)' /\ Starting(t, s)'
        BY <1>1, <1>2, <1>5, <1>6 DEF Making, Starting
      <3>4. \A d \in started' : (server'[d] = s /\ Live(d)') => tracked'[s] = d
        BY <1>1, <1>2, <1>8, <3>1 DEF ServerInv
      <3>. QED  BY <1>1, <1>2, <3>1, <3>3, <3>4 DEF ServerInv
    <2>. QED  BY <2>1, <2>2
  <1>16. OneName'
    <2>2. started' = started /\ started \subseteq Ids
      BY <1>1 DEF TypeOK
    <2>3. \A d \in Ids : state'[d] = "unused" => state[d] = "unused"
      BY <1>7
    <2>4. \A d, e \in Ids : (Live(d)' /\ Live(e)' /\ server'[d] = server'[e]) =>
                              d = e \/ server'[d] = NoServer
      BY <1>2, <1>4, <1>8 DEF OneName
    <2>. QED  BY <1>2, <1>4, <2>2, <2>3, <2>4 DEF OneName
  <1>17. OneTask'
    BY ZenonT(60), <1>1, <1>2, <1>4, <1>12 DEF OneTask, SameTask
  <1>18. Boots'
    BY <1>1, <1>2 DEF TrackInv, Boots
  <1>. QED  BY <1>13, <1>14, <1>15, <1>16, <1>17, <1>18 DEF TrackInv

\* A handler's step after its runtime call changes nothing at the Engine, no
\* other command, and what the maps say of no other server.
LEMMA HandlerFrame ==
    ASSUME TypeOK, TrackInv, NEW t \in Tasks, Handler(t)
    PROVE  /\ UNCHANGED <<state, server, booting>>
           /\ at[t] \in {"ok", "err"}
           /\ at'[t] = "idle" \/ sid'[t] = sid[t]
           /\ \A u \in Tasks \ {t} : SameTask(u)
           /\ \A r \in Servers \ {sid[t]} : Leaves(r)
  <1>1. UNCHANGED <<state, server, booting>> /\ at[t] \in {"ok", "err"}
    BY DEF Handler, Failed, Created, Pulled, StartReturned, ConsoleChecked, Attached,
           Stopped, Removed, ConsoleRemoved, Done, CallOn, dockerVars, engineVars
  <1>2. \/ Done(t)
        \/ CallOn(t, "attach", id[t]) /\ UNCHANGED <<action, sid>>
        \/ StartReturned(t)
        \/ Removed(t)
    BY DEF Handler, Failed, Created, Pulled, ConsoleChecked, Attached, Stopped,
           ConsoleRemoved
  <1>3. \A u \in Tasks \ {t} : SameTask(u)
    <2>. SUFFICES ASSUME NEW u \in Tasks \ {t} PROVE SameTask(u)
      OBVIOUS
    <2>1. CASE Done(t)
      BY <2>1 DEF Done, Forget, Goto, SameTask, TypeOK, DockerTypeOK
    <2>2. CASE CallOn(t, "attach", id[t]) /\ UNCHANGED <<action, sid>>
      BY <2>2 DEF CallOn, Goto, SameTask, TypeOK, DockerTypeOK
    <2>3. CASE StartReturned(t) \/ Removed(t)
      BY <2>3 DEF StartReturned, Removed, dockerVars, callVars, SameTask, TypeOK
    <2>. QED  BY <1>2, <2>1, <2>2, <2>3
  <1>4. at'[t] = "idle" \/ sid'[t] = sid[t]
    BY <1>2 DEF Done, Forget, Goto, StartReturned, Removed, TypeOK, DockerTypeOK
  <1>5. \A r \in Servers \ {sid[t]} : tracked'[r] = tracked[r] /\ last'[r] = last[r]
    BY DEF Handler, Failed, Created, Pulled, StartReturned, ConsoleChecked, Attached,
           Stopped, Removed, ConsoleRemoved, track, untrack, emit_state_changed, TypeOK
  <1>6. \A c \in started' \ started : server[c] = sid[t]
    <2>1. started' = started \/ ConsoleChecked(t)
      BY DEF Handler, Failed, Created, Pulled, StartReturned, Attached, Stopped, Removed,
             ConsoleRemoved
    <2>2. ConsoleChecked(t) => server[id[t]] = sid[t]
      BY DEF ConsoleChecked, TrackInv, TaskInv
    <2>. QED  BY <2>1, <2>2 DEF ConsoleChecked
  <1>7. \A r \in Servers \ {sid[t]} : Leaves(r)
    BY <1>1, <1>5, <1>6 DEF Leaves, Live
  <1>. QED  BY <1>1, <1>3, <1>4, <1>7

\* So only its own command, its own server and `started` are left to look at.
LEMMA HandlerRest ==
    ASSUME TypeOK, TrackInv, NEW t \in Tasks, Handler(t),
           TaskInv(t)', NEW s \in Servers, s = sid[t], ServerInv(s)',
           \A c \in started' : c \in started \/ state[c] # "unused"
    PROVE  TrackInv'
  <1>1. /\ UNCHANGED <<state, server, booting>>
        /\ at[t] \in {"ok", "err"}
        /\ at'[t] = "idle" \/ sid'[t] = sid[t]
        /\ \A u \in Tasks \ {t} : SameTask(u)
        /\ \A r \in Servers \ {sid[t]} : Leaves(r)
    BY HandlerFrame
  <1>2. \A u \in Tasks \ {t} : TaskInv(u)'
    <2>. SUFFICES ASSUME NEW u \in Tasks \ {t} PROVE TaskInv(u)'
      OBVIOUS
    <2>1. TaskInv(u) /\ (at[u] # "idle" => Leaves(sid[u]))
      BY <1>1, OthersElsewhere DEF TrackInv, TaskInv
    <2>. QED  BY <1>1, <2>1, TaskStays
  <1>3. \A r \in Servers \ {s} : ServerInv(r)'
    <2>. SUFFICES ASSUME NEW r \in Servers \ {s} PROVE ServerInv(r)'
      OBVIOUS
    <2>1. \A u \in Tasks : (Making(u, r) => Making(u, r)') /\ (Starting(u, r) => Starting(u, r)')
      BY <1>1 DEF Making, Starting, SameTask
    <2>. QED  BY <1>1, <2>1, ServerStays DEF TrackInv
  <1>4. OneName'
    BY <1>1 DEF TrackInv, OneName, Live
  <1>5. OneTask'
    <2>1. at[t] # "idle"
      BY <1>1
    <2>. QED  BY <1>1, <2>1, OneTaskStays DEF TrackInv
  <1>6. Boots'
    BY <1>1 DEF TrackInv, Boots
  <1>. QED  BY <1>2, <1>3, <1>4, <1>5, <1>6 DEF TrackInv

\* A handler that returns leaves its task free.
LEMMA DoneTask ==
    ASSUME TypeOK, NEW t \in Tasks, Done(t)
    PROVE  TaskInv(t)'
  BY DEF Done, Forget, Goto, TaskInv, TypeOK, DockerTypeOK

\* The steps of the handlers.
LEMMA HandlerInv ==
    ASSUME TypeOK, TrackInv, NEW t \in Tasks, Handler(t)
    PROVE  TrackInv'
  <1>1. /\ UNCHANGED <<state, server, booting>>
        /\ at[t] \in {"ok", "err"}
        /\ \A u \in Tasks \ {t} : SameTask(u)
    BY HandlerFrame
  <1>2. TaskInv(t) /\ OneName /\ OneTask
    BY DEF TrackInv
  <1>3. PICK s \in Servers : s = sid[t] /\ s # NoServer
    BY <1>1, <1>2, DockerAssumption DEF TaskInv
  <1>4. /\ ServerInv(s)
        /\ tracked[s] \in Ids \cup {NoId}
        /\ started \subseteq Ids
        /\ Named(s)' = Named(s)
        /\ NoneRuns(s)' = NoneRuns(s)
        /\ \A c : Live(c)' = Live(c)
    BY <1>1 DEF TrackInv, TypeOK, Named, NoneRuns, Live
  <1>5. \A u \in Tasks \ {t} : ~Making(u, s) /\ ~Starting(u, s)
    BY <1>1, <1>2, <1>3 DEF OneTask, Making, Starting
  <1>6. CASE Failed(t) \/ Pulled(t) \/ Attached(t) \/ ConsoleRemoved(t)
    <2>1. UNCHANGED <<tracked, last, started>> /\ Done(t)
      BY <1>6 DEF Failed, Pulled, Attached, ConsoleRemoved
    <2>2. ~Making(t, s) /\ ~Starting(t, s)
      BY <1>6 DEF Failed, Pulled, Attached, ConsoleRemoved, Making, Starting
    <2>3. ServerInv(s)'
      BY <1>1, <1>4, <1>5, <2>1, <2>2 DEF ServerInv
    <2>. QED  BY <1>3, <2>1, <2>3, DoneTask, HandlerRest
  <1>7. CASE Created(t)
    <2>1. UNCHANGED <<last, started>> /\ Done(t) /\ tracked'[s] = id[t]
      BY <1>3, <1>7 DEF Created, track, TypeOK
    <2>2. /\ id[t] \in Ids /\ server[id[t]] = s /\ Named(s) \subseteq {id[t]}
          /\ ~Starting(t, s)
      BY <1>2, <1>3, <1>7 DEF Created, TaskInv, Starting
    <2>3. \A c \in started : (server[c] = s /\ Live(c)) => c = id[t]
      BY <1>4, <2>2 DEF Named
    <2>4. ServerInv(s)'
      BY <1>1, <1>4, <1>5, <2>1, <2>2, <2>3 DEF ServerInv
    <2>. QED  BY <1>3, <2>1, <2>4, DoneTask, HandlerRest
  <1>8. CASE StartReturned(t)
    <2>1. UNCHANGED <<last, started, at, id, srv, conn, sid>> /\ tracked'[s] = id[t]
          /\ action'[t] = "StartTracked" /\ at[t] = "ok" /\ action[t] = "Start"
      BY <1>3, <1>8 DEF StartReturned, track, TypeOK, dockerVars, callVars
    <2>2. id[t] \in Ids /\ server[id[t]] = s /\ Named(s) \subseteq {id[t]} /\ conn[t] = NoStream
      BY <1>2, <1>3, <2>1 DEF TaskInv
    <2>3. \A c \in started : (server[c] = s /\ Live(c)) => c = id[t]
      BY <1>4, <2>2 DEF Named
    <2>4. Starting(t, s)'
      BY <1>3, <2>1, <2>2 DEF Starting
    <2>5. ServerInv(s)'
      BY <1>1, <1>4, <2>1, <2>2, <2>3, <2>4 DEF ServerInv
    <2>6. Stage(t)'
      BY <2>1 DEF Stage
    <2>7. TaskInv(t)'
      BY <1>1, <1>3, <2>1, <2>2, <2>6 DEF TaskInv
    <2>. QED  BY <1>3, <2>1, <2>5, <2>7, HandlerRest
  <1>9. CASE ConsoleChecked(t)
    <2>1. /\ tracked' = tracked /\ last'[s] = "running" /\ started' = started \cup {id[t]}
          /\ at[t] = "ok" /\ action[t] = "StartTracked" /\ conn[t] = NoStream
      BY <1>3, <1>9 DEF ConsoleChecked, emit_state_changed, TypeOK
    <2>2. id[t] \in Ids /\ server[id[t]] = s /\ tracked[s] = id[t] /\ state[id[t]] # "unused"
      BY <1>2, <1>3, <2>1 DEF TaskInv, OneName
    <2>3. \A u \in Tasks : ~Making(u, s)
      BY <1>5, <2>1 DEF Making
    <2>4. ServerInv(s)'
      BY <1>1, <1>4, <2>1, <2>2, <2>3 DEF ServerInv
    <2>5. TaskInv(t)'
      <3>1. CASE Done(t)
        BY <3>1, DoneTask
      <3>2. CASE CallOn(t, "attach", id[t]) /\ UNCHANGED <<action, sid>>
        <4>1. at'[t] = "attach" /\ id'[t] = id[t] /\ conn'[t] = NoStream
          BY <2>1, <3>2 DEF CallOn, Goto, TypeOK, DockerTypeOK
        <4>. QED  BY <1>1, <1>3, <2>1, <2>2, <3>2, <4>1 DEF TaskInv, Stage
      <3>. QED  BY <1>9, <3>1, <3>2 DEF ConsoleChecked
    <2>. QED  BY <1>3, <2>1, <2>2, <2>4, <2>5, HandlerRest
  <1>10. CASE Stopped(t)
    <2>1. UNCHANGED <<tracked, started>> /\ Done(t) /\ at[t] = "ok"
          /\ action[t] \in {"Stop", "Kill"}
      BY <1>10 DEF Stopped
    <2>2. NoneRuns(s)
      BY <1>2, <1>3, <2>1 DEF TaskInv
    <2>3. ~Making(t, s)
      BY <2>1 DEF Making
    <2>4. ServerInv(s)'
      BY <1>1, <1>4, <1>5, <2>1, <2>2, <2>3 DEF ServerInv
    <2>. QED  BY <1>3, <2>1, <2>4, DoneTask, HandlerRest
  <1>11. CASE Removed(t)
    <2>1. UNCHANGED <<last, started, at, id, srv, conn, sid>> /\ tracked'[s] = NoId
          /\ action'[t] = "RemoveUntracked" /\ at[t] = "ok" /\ action[t] = "Remove"
      BY <1>3, <1>11 DEF Removed, untrack, TypeOK, dockerVars, callVars
    <2>2. Named(s) = {} /\ conn[t] = NoStream
      BY <1>2, <1>3, <2>1 DEF TaskInv
    <2>3. \A c \in started : ~(server[c] = s /\ Live(c))
      BY <1>4, <2>2 DEF Named
    <2>4. NoneRuns(s)
      BY <2>2 DEF NoneRuns
    <2>5. ServerInv(s)'
      BY <1>1, <1>4, <2>1, <2>3, <2>4 DEF ServerInv
    <2>6. Stage(t)'
      BY <2>1 DEF Stage
    <2>7. TaskInv(t)'
      BY <1>1, <1>3, <2>1, <2>2, <2>6 DEF TaskInv
    <2>. QED  BY <1>3, <2>1, <2>5, <2>7, HandlerRest
  <1>. QED  BY <1>6, <1>7, <1>8, <1>9, <1>10, <1>11 DEF Handler

\* A command arrives for a server that has none under way.
LEMMA ReceiveInv ==
    ASSUME TypeOK, TrackInv, OneAtATime, NEW t \in Tasks, NEW s \in Servers, Receive(t, s)
    PROVE  TrackInv'
  <1>1. /\ UNCHANGED <<state, server, booting, tracked, last, started, conn>>
        /\ ~booting /\ at[t] = "idle"
    BY ZenonT(60) DEF Receive, CallFor, CallOn, engineVars
  <1>2. \A u \in Tasks \ {t} : SameTask(u)
    <2>. SUFFICES ASSUME NEW u \in Tasks \ {t} PROVE SameTask(u)
      OBVIOUS
    <2>1. action'[u] = action[u] /\ sid'[u] = sid[u]
      BY DEF Receive, TypeOK
    <2>2. \E op, x : CallFor(t, op, x) \/ CallOn(t, op, x)
      BY DEF Receive
    <2>3. PICK op, x : CallFor(t, op, x) \/ CallOn(t, op, x)
      BY <2>2
    <2>4. CASE CallFor(t, op, x)
      BY <2>1, <2>4 DEF CallFor, Goto, SameTask, TypeOK, DockerTypeOK
    <2>5. CASE CallOn(t, op, x)
      BY <2>1, <2>5 DEF CallOn, Goto, SameTask, TypeOK, DockerTypeOK
    <2>. QED  BY <2>3, <2>4, <2>5
  <1>3. sid'[t] = s
    BY DEF Receive, TypeOK
  <1>4. UnderWay(s) = {}
    BY DEF Receive
  <1>5. OneTask'
    <2>1. \A u \in Tasks \ {t} : at'[u] # "idle" => at[u] # "idle" /\ sid'[u] = sid[u]
      BY <1>2 DEF SameTask
    <2>2. \A u \in Tasks \ {t} : at'[u] # "idle" => sid'[u] # sid'[t]
      BY <1>3, <1>4, <2>1 DEF UnderWay
    <2>. SUFFICES ASSUME NEW u \in Tasks, NEW v \in Tasks, at'[u] # "idle", at'[v] # "idle",
                         sid'[u] = sid'[v]
                  PROVE  u = v
      BY DEF OneTask
    <2>3. CASE u = t \/ v = t
      BY <2>2, <2>3
    <2>4. CASE u # t /\ v # t
      BY <2>1, <2>4 DEF TrackInv, OneTask
    <2>. QED  BY <2>3, <2>4
  <1>6. \A r \in Servers : Leaves(r)
    BY <1>1 DEF Leaves, Live
  <1>7. \A u \in Tasks \ {t} : TaskInv(u)'
    <2>. SUFFICES ASSUME NEW u \in Tasks \ {t} PROVE TaskInv(u)'
      OBVIOUS
    <2>1. TaskInv(u) /\ (at[u] # "idle" => Leaves(sid[u]))
      BY <1>6 DEF TrackInv, TaskInv
    <2>. QED  BY <1>2, <2>1, TaskStays
  <1>8. \A r \in Servers : ServerInv(r)'
    <2>. SUFFICES ASSUME NEW r \in Servers PROVE ServerInv(r)'
      OBVIOUS
    <2>1. \A u \in Tasks : (Making(u, r) => Making(u, r)') /\ (Starting(u, r) => Starting(u, r)')
      BY <1>1, <1>2 DEF Making, Starting, SameTask
    <2>. QED  BY <1>6, <2>1, ServerStays DEF TrackInv
  <1>9. TaskInv(t)'
    <2>1. conn'[t] = NoStream
      BY <1>1 DEF TrackInv, TaskInv
    <2>2. PICK a \in Action :
            /\ action'[t] = a
            /\ \/ a = "Create" /\ CallFor(t, "create.post", s)
               \/ a = "PullImage" /\ CallFor(t, "pull.check", s)
               \/ \E g \in {NoId} \cup {c \in Ids : server[c] = s} :
                    /\ container_for(s, g) # NoId
                    /\ \/ a = "Start" /\ CallOn(t, "start.post", container_for(s, g))
                       \/ a = "Stop" /\ CallOn(t, "stop", container_for(s, g))
                       \/ a = "Kill" /\ CallOn(t, "kill", container_for(s, g))
                       \/ a = "Remove" /\ CallOn(t, "remove", container_for(s, g))
      BY DEF Receive, TypeOK
    <2>3. \A g \in {NoId} \cup {c \in Ids : server[c] = s} :
              container_for(s, g) # NoId =>
                  container_for(s, g) \in Ids /\ server[container_for(s, g)] = s
      BY ZenonT(60) DEF container_for, TrackInv, ServerInv, TypeOK
    <2>4. \/ a = "Create" /\ at'[t] = "create.post" /\ srv'[t] = s
          \/ a = "PullImage" /\ at'[t] = "pull.check"
          \/ /\ id'[t] \in Ids /\ server[id'[t]] = s
             /\ \/ a = "Start" /\ at'[t] = "start.post"
                \/ a = "Stop" /\ at'[t] = "stop"
                \/ a = "Kill" /\ at'[t] = "kill"
                \/ a = "Remove" /\ at'[t] = "remove"
      <3>1. \A op : CallFor(t, op, s) => at'[t] = op /\ srv'[t] = s
        BY DEF CallFor, Goto, TypeOK, DockerTypeOK
      <3>2. \A op, c : CallOn(t, op, c) => at'[t] = op /\ id'[t] = c
        BY DEF CallOn, Goto, TypeOK, DockerTypeOK
      <3>3. CASE a = "Create" /\ CallFor(t, "create.post", s)
        BY <3>1, <3>3
      <3>4. CASE a = "PullImage" /\ CallFor(t, "pull.check", s)
        BY <3>1, <3>4
      <3>5. ASSUME NEW g \in {NoId} \cup {c \in Ids : server[c] = s},
                   container_for(s, g) # NoId,
                   \/ a = "Start" /\ CallOn(t, "start.post", container_for(s, g))
                   \/ a = "Stop" /\ CallOn(t, "stop", container_for(s, g))
                   \/ a = "Kill" /\ CallOn(t, "kill", container_for(s, g))
                   \/ a = "Remove" /\ CallOn(t, "remove", container_for(s, g))
            PROVE  /\ id'[t] \in Ids /\ server[id'[t]] = s
                   /\ \/ a = "Start" /\ at'[t] = "start.post"
                      \/ a = "Stop" /\ at'[t] = "stop"
                      \/ a = "Kill" /\ at'[t] = "kill"
                      \/ a = "Remove" /\ at'[t] = "remove"
        <4>1. id'[t] = container_for(s, g)
          BY <3>2, <3>5
        <4>2. id'[t] \in Ids /\ server[id'[t]] = s
          BY <2>3, <3>5, <4>1
        <4>. QED  BY <3>2, <3>5, <4>2
      <3>. QED  BY <2>2, <3>3, <3>4, <3>5
    <2>5. Stage(t)' /\ at'[t] # "idle" /\ at'[t] # "ok" /\ a # "StartTracked"
      BY <2>2, <2>4 DEF Stage
    <2>6. a = "Create" => srv'[t] = s
      BY <2>4
    <2>7. a \in {"Start", "Stop", "Kill", "Remove"} => id'[t] \in Ids /\ server'[id'[t]] = s
      BY <1>1, <2>4
    <2>. QED  BY <1>3, <2>1, <2>2, <2>5, <2>6, <2>7 DEF TaskInv
  <1>10. OneName'
    BY <1>1 DEF TrackInv, OneName, Live
  <1>11. Boots'
    BY <1>1 DEF Boots
  <1>. QED  BY <1>5, <1>7, <1>8, <1>9, <1>10, <1>11 DEF TrackInv

\* reconcile tracks the one container list_managed has of a server.
LEMMA ReconcileInv ==
    ASSUME TypeOK, TrackInv, reconcile
    PROVE  TrackInv'
  <1>1. /\ UNCHANGED <<state, server, at, id, srv, conn, action, sid, last, started>>
        /\ ~booting'
    BY DEF reconcile, dockerVars, engineVars, callVars
  <1>2. /\ \A t \in Tasks : at[t] = "idle" /\ conn[t] = NoStream
        /\ \A s \in Servers : tracked[s] = NoId
        /\ started = {}
    BY DEF reconcile, TrackInv, Boots, TaskInv
  <1>3. \A s \in Servers : tracked'[s] = NoId \/ tracked'[s] \in Named(s)
    BY <1>2, DockerAssumption DEF reconcile, list_managed, Named
  <1>4. \A s \in Servers : ServerInv(s)'
    <2>. SUFFICES ASSUME NEW s \in Servers PROVE ServerInv(s)'
      OBVIOUS
    <2>1. tracked'[s] # NoId => server'[tracked'[s]] = s
      BY <1>1, <1>3 DEF Named
    <2>2. tracked'[s] # NoId => Named(s)' \subseteq {tracked'[s]}
      <3>. SUFFICES ASSUME tracked'[s] # NoId, NEW c \in Named(s)' PROVE c = tracked'[s]
        OBVIOUS
      <3>1. c \in Ids /\ Live(c) /\ server[c] = s
        BY <1>1 DEF Named, Live
      <3>2. tracked'[s] \in Ids /\ Live(tracked'[s]) /\ server[tracked'[s]] = s /\ s # NoServer
        BY <1>3, DockerAssumption DEF Named
      <3>. QED  BY <3>1, <3>2 DEF TrackInv, OneName
    <2>3. last'[s] = "offline" => NoneRuns(s)'
      BY <1>1, <1>2 DEF TrackInv, ServerInv, NoneRuns, Named, Live, Starting
    <2>. QED  BY <1>1, <1>2, <2>1, <2>2, <2>3 DEF ServerInv
  <1>5. OneName' /\ OneTask' /\ Boots'
    BY <1>1 DEF TrackInv, OneName, OneTask, Boots, Live
  <1>6. \A t \in Tasks : TaskInv(t)'
    BY <1>1, <1>2 DEF TaskInv
  <1>. QED  BY <1>4, <1>5, <1>6 DEF TrackInv

\* A step that is nobody's command: the Engine's own, and a pump's end.
LEMMA NobodysStepInv ==
    ASSUME TypeOK, TrackInv, Calm,
           UNCHANGED <<callVars, booting, action, sid, tracked, last, started>>
    PROVE  TrackInv'
  <1>1. \A s \in Servers : Leaves(s)
    BY CalmLeaves
  <1>2. \A u \in Tasks : SameTask(u)
    BY DEF callVars, SameTask
  <1>3. \A u \in Tasks : TaskInv(u)'
    <2>. SUFFICES ASSUME NEW u \in Tasks PROVE TaskInv(u)'
      OBVIOUS
    <2>1. TaskInv(u) /\ (at[u] # "idle" => Leaves(sid[u]))
      BY <1>1 DEF TrackInv, TaskInv
    <2>. QED  BY <1>2, <2>1, TaskStays
  <1>4. \A s \in Servers : ServerInv(s)'
    <2>. SUFFICES ASSUME NEW s \in Servers PROVE ServerInv(s)'
      OBVIOUS
    <2>1. \A u \in Tasks : (Making(u, s) => Making(u, s)') /\ (Starting(u, s) => Starting(u, s)')
      BY <1>2 DEF Making, Starting, SameTask
    <2>. QED  BY <1>1, <2>1, ServerStays DEF TrackInv
  <1>5. OneName'
    BY CalmNames DEF TrackInv
  <1>6. OneTask' /\ Boots'
    BY <1>2 DEF TrackInv, OneTask, Boots, SameTask
  <1>. QED  BY <1>3, <1>4, <1>5, <1>6 DEF TrackInv

\* Every step keeps TrackInv, with one command at a time per server and no
\* answer lost.
LEMMA TrackStep ==
    ASSUME TypeOK, TrackInv, OneAtATime, ~LossyEngine, [Next]_vars
    PROVE  TrackInv'
  <1>1. CASE \E t \in Tasks, s \in Servers : Receive(t, s)
    BY <1>1, ReceiveInv
  <1>2. CASE \E t \in Tasks : Await(t)
    BY <1>2, CalmRequestInv, CreateMadeInv, StartedInv
  <1>3. CASE \E t \in Tasks : Handler(t)
    BY <1>3, HandlerInv
  <1>4. CASE \E a \in Streams : PumpEnds(a)
    BY <1>4, NobodysStepInv DEF PumpEnds, Calm, Live
  <1>5. CASE Engine /\ UNCHANGED dispatcherVars
    <2>1. UNCHANGED callVars
      BY <1>5 DEF Engine, ContainerExits, StreamEnds, ImagePruned
    <2>. QED  BY <1>5, <2>1, EngineIsCalm, NobodysStepInv DEF dispatcherVars
  <1>6. CASE Restart
    <2>1. \A t \in Tasks : at'[t] = "idle" /\ conn'[t] = NoStream
      BY <1>6 DEF Restart
    <2>2. \A s \in Servers : tracked'[s] = NoId /\ last'[s] = "none"
      BY <1>6 DEF Restart
    <2>3. started' = {} /\ UNCHANGED <<state, server>>
      BY <1>6 DEF Restart
    <2>4. OneName'
      BY <2>3 DEF TrackInv, OneName, Live
    <2>. QED  BY <2>1, <2>2, <2>3, <2>4 DEF TrackInv, OneTask, Boots, TaskInv, ServerInv
  <1>7. CASE reconcile
    BY <1>7, ReconcileInv
  <1>8. CASE UNCHANGED vars
    <2>1. Calm
      BY <1>8 DEF vars, dockerVars, engineVars, Calm, Live
    <2>. QED  BY <1>8, <2>1, NobodysStepInv DEF vars, dockerVars, dispatcherVars
  <1>. QED  BY <1>1, <1>2, <1>3, <1>4, <1>5, <1>6, <1>7, <1>8 DEF Next

\* With one command at a time per server and no answer lost, TrackInv holds.
LEMMA Tracking == OneAtATime /\ ~LossyEngine /\ Spec => []TrackInv
  <1>. SUFFICES ASSUME OneAtATime, ~LossyEngine PROVE Spec => []TrackInv
    OBVIOUS
  <1>1. Init => TrackInv
    <2>. SUFFICES ASSUME Init PROVE TrackInv
      OBVIOUS
    <2>1. OneName
      BY DEF Init, DockerInit, OneName
    <2>2. \A s \in Servers : ServerInv(s)
      BY DEF Init, ServerInv
    <2>3. \A t \in Tasks : TaskInv(t)
      BY DEF Init, DockerInit, TaskInv
    <2>. QED  BY <2>1, <2>2, <2>3 DEF Init, DockerInit, TrackInv, OneTask, Boots
  <1>2. TypeOK /\ TrackInv /\ [Next]_vars => TrackInv'
    BY TrackStep
  <1>. QED  BY <1>1, <1>2, TypeCorrect, PTL DEF Spec

\* At rest no command has anything left to record.
LEMMA RestIsRecorded ==
    ASSUME NEW s \in Servers, AtRest(s), NEW t \in Tasks
    PROVE  ~Making(t, s) /\ ~Starting(t, s)
  BY DEF AtRest, UnderWay, Making, Starting

\* However commands fail half way, and however other servers' starts remove
\* containers to free their ports: a server's container is the tracked one, so
\* a command without a container_id reaches it.
THEOREM TracksCurrent == OneAtATime /\ ~LossyEngine /\ Spec => []TrackedIsCurrent
  <1>1. TrackInv => TrackedIsCurrent
    BY RestIsRecorded DEF TrackInv, ServerInv, TrackedIsCurrent
  <1>. QED  BY <1>1, Tracking, PTL

\* The container a Start left running is the one heartbeats report (the comment
\* in the Start handler), whatever command was handled since.
THEOREM TracksStarted == OneAtATime /\ ~LossyEngine /\ Spec => []StartedIsTracked
  <1>1. TypeOK /\ TrackInv => StartedIsTracked
    BY DEF TrackInv, ServerInv, StartedIsTracked, TypeOK, Live
  <1>. QED  BY <1>1, Tracking, TypeCorrect, PTL

\* The event the Stop and Kill handlers send stays true until the next Start
\* reports "running": no container of the server runs.
THEOREM OfflineIsStopped == OneAtATime /\ ~LossyEngine /\ Spec => []OfflineMeansStopped
  <1>1. TrackInv => OfflineMeansStopped
    BY RestIsRecorded DEF TrackInv, ServerInv, OfflineMeansStopped, NoneRuns
  <1>. QED  BY <1>1, Tracking, PTL
=============================================================================
