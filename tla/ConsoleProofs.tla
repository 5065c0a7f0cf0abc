---------------------------- MODULE ConsoleProofs ----------------------------
(* LinesAreWhole for any number of inputs and connections.                     *)
(*                                                                             *)
(* The lock is what makes a line whole, so the invariant says what it guards:  *)
(* the task between its two writes holds the lock of its connection (Locked),  *)
(* and a text without its newline, on a connection that is not broken, belongs *)
(* to such a task (Pending).  A broken connection is not written to any more,  *)
(* so a text that was left without its newline there stays the last.           *)
EXTENDS Console, TLAPS

At == {"new", "lock", "text", "newline", "ok", "err"}

Item == {"text", "newline"} \X Inputs

ConsoleTypeOK ==
    /\ input \in [Inputs -> [at : At, console : Attaches \cup {NoConsole}]]
    /\ holder \in [Attaches -> Inputs \cup {NoConsole}]
    /\ stdin \in [Attaches -> Seq(Item)]
    /\ consoles \in Attaches \cup {NoConsole}

\* A task that has taken a console knows it; from the lock to the last write it
\* holds the lock.
Locked(i) ==
    /\ input[i].at \in {"lock", "text", "newline"} => input[i].console \in Attaches
    /\ input[i].at \in {"text", "newline"} => holder[input[i].console] = i

\* s ends in the text of task i.
Ends(s, i) == s # <<>> /\ s[Len(s)] = <<"text", i>>

\* What was written to a connection that is not broken ends in the text of a
\* task exactly when that task has yet to write the newline.
Pending(c) ==
    c \notin broken =>
        \A i \in Inputs : Ends(stdin[c], i) <=> (input[i].at = "newline" /\ input[i].console = c)

Whole(s) ==
    \A k \in DOMAIN s :
        /\ s[k][1] = "text" /\ k < Len(s) => s[k + 1] = <<"newline", s[k][2]>>
        /\ s[k][1] = "newline" => k > 1 /\ s[k - 1] = <<"text", s[k][2]>>

ConsoleInv ==
    /\ ConsoleTypeOK
    /\ \A i \in Inputs : Locked(i)
    /\ \A c \in Attaches : Pending(c) /\ Whole(stdin[c])

-----------------------------------------------------------------------------

\* What a sequence ends in after it was appended to.
LEMMA EndsAfter ==
    ASSUME NEW s \in Seq(Item), NEW i \in Inputs
    PROVE  /\ Append(s, <<"text", i>>) \in Seq(Item)
           /\ Append(s, <<"newline", i>>) \in Seq(Item)
           /\ \A j \in Inputs : Ends(Append(s, <<"text", i>>), j) <=> j = i
           /\ \A j \in Inputs : ~Ends(Append(s, <<"newline", i>>), j)
<1>1. <<"text", i>> \in Item /\ <<"newline", i>> \in Item
  BY DEF Item
<1>2. \A e \in Item : /\ Append(s, e) \in Seq(Item) /\ Append(s, e) # <<>>
                       /\ Append(s, e)[Len(Append(s, e))] = e
  OBVIOUS
<1>3. \A j : <<"text", i>> = <<"text", j>> <=> j = i
  OBVIOUS
<1>4. \A j : <<"newline", i>> # <<"text", j>>
  OBVIOUS
<1> QED BY <1>1, <1>2, <1>3, <1>4 DEF Ends

\* A text may follow anything but a text.
LEMMA TextKeepsWhole ==
    ASSUME NEW s \in Seq(Item), Whole(s), NEW i \in Inputs,
           \A j \in Inputs : ~Ends(s, j)
    PROVE  Whole(Append(s, <<"text", i>>))
<1> DEFINE r == Append(s, <<"text", i>>)
<1>0. s # <<>> => s[Len(s)][1] # "text"
  <2> SUFFICES ASSUME s # <<>>, s[Len(s)][1] = "text" PROVE FALSE
    OBVIOUS
  <2>1. s[Len(s)] \in Item
    OBVIOUS
  <2>2. PICK j \in Inputs : s[Len(s)] = <<"text", j>>
    BY <2>1 DEF Item
  <2> QED BY <2>2 DEF Ends
<1>1. Len(r) = Len(s) + 1 /\ DOMAIN r = 1..Len(s) + 1 /\ DOMAIN s = 1..Len(s) /\ Len(s) \in Nat
  OBVIOUS
<1>2. \A k \in 1..Len(s) : r[k] = s[k]
  OBVIOUS
<1>3. r[Len(s) + 1] = <<"text", i>>
  OBVIOUS
<1> HIDE DEF r
<1>4. ASSUME NEW k \in DOMAIN r
      PROVE  /\ r[k][1] = "text" /\ k < Len(r) => r[k + 1] = <<"newline", r[k][2]>>
             /\ r[k][1] = "newline" => k > 1 /\ r[k - 1] = <<"text", r[k][2]>>
  <2>1. CASE k = Len(s) + 1
    BY <2>1, <1>1, <1>3
  <2>2. CASE k \in 1..Len(s) /\ k = Len(s)
    BY <2>2, <1>0, <1>1, <1>2 DEF Whole
  <2>3. CASE k \in 1..Len(s) /\ k < Len(s)
    BY <2>3, <1>1, <1>2 DEF Whole
  <2> QED BY <2>1, <2>2, <2>3, <1>1
<1> QED BY ZenonT(30), <1>4 DEF Whole, r

\* A newline may follow the text of its task.
LEMMA NewlineKeepsWhole ==
    ASSUME NEW s \in Seq(Item), Whole(s), NEW i \in Inputs,
           Ends(s, i)
    PROVE  Whole(Append(s, <<"newline", i>>))
<1> DEFINE r == Append(s, <<"newline", i>>)
<1>1. /\ Len(r) = Len(s) + 1 /\ DOMAIN r = 1..Len(s) + 1 /\ DOMAIN s = 1..Len(s)
      /\ Len(s) \in Nat /\ Len(s) > 0 /\ s[Len(s)] = <<"text", i>>
  BY DEF Ends
<1>2. \A k \in 1..Len(s) : r[k] = s[k]
  OBVIOUS
<1>3. r[Len(s) + 1] = <<"newline", i>>
  OBVIOUS
<1> HIDE DEF r
<1>4. ASSUME NEW k \in DOMAIN r
      PROVE  /\ r[k][1] = "text" /\ k < Len(r) => r[k + 1] = <<"newline", r[k][2]>>
             /\ r[k][1] = "newline" => k > 1 /\ r[k - 1] = <<"text", r[k][2]>>
  <2>1. CASE k = Len(s) + 1
    BY <2>1, <1>1, <1>2, <1>3
  <2>2. CASE k \in 1..Len(s) /\ k = Len(s)
    BY <2>2, <1>1, <1>2, <1>3 DEF Whole
  <2>3. CASE k \in 1..Len(s) /\ k < Len(s)
    BY <2>3, <1>1, <1>2 DEF Whole
  <2> QED BY <2>1, <2>2, <2>3, <1>1
<1> QED BY <1>4 DEF Whole, r

USE ConsoleAssumption

-----------------------------------------------------------------------------
\* The types alone.
LEMMA ConsoleTypes == ConsoleInv /\ [ConsoleNext]_consoleVars => ConsoleTypeOK'
<1> SUFFICES ASSUME ConsoleTypeOK, \A i \in Inputs : Locked(i), [ConsoleNext]_consoleVars
             PROVE  ConsoleTypeOK'
  BY DEF ConsoleInv
<1>1. CASE Attached
  BY <1>1 DEF Attached, ConsoleTypeOK
<1>2. CASE Detached
  BY <1>2 DEF Detached, ConsoleTypeOK
<1>3. ASSUME NEW i \in Inputs, TakeConsole(i) PROVE ConsoleTypeOK'
  BY <1>3 DEF TakeConsole, ConsoleTypeOK, At
<1>4. ASSUME NEW i \in Inputs, LockStdin(i) PROVE ConsoleTypeOK'
  BY ZenonT(60), <1>4 DEF LockStdin, ConsoleTypeOK, At
<1>5. ASSUME NEW i \in Inputs, WriteText(i) PROVE ConsoleTypeOK'
  <2>1. input[i].console \in Attaches
    BY <1>5 DEF WriteText, WriteInput, Locked
  <2>2. Append(stdin[input[i].console], <<"text", i>>) \in Seq(Item)
    <3>1. stdin[input[i].console] \in Seq(Item)
      BY <2>1 DEF ConsoleTypeOK
    <3> QED BY <3>1, EndsAfter, Zenon
  <2>3. stdin' \in [Attaches -> Seq(Item)]
    BY <1>5, <2>1, <2>2 DEF WriteText, WriteInput, ConsoleTypeOK
  <2>4. input' \in [Inputs -> [at : At, console : Attaches \cup {NoConsole}]]
    <3>1. PICK a \in At : input' = [input EXCEPT ![i].at = a]
      BY <1>5 DEF WriteText, WriteInput, At
    <3>2. input[i] \in [at : At, console : Attaches \cup {NoConsole}]
      BY DEF ConsoleTypeOK
    <3> QED BY ZenonT(30), <3>1, <3>2 DEF ConsoleTypeOK
  <2>5. holder' \in [Attaches -> Inputs \cup {NoConsole}] /\ UNCHANGED consoles
    BY <1>5, <2>1 DEF WriteText, WriteInput, ConsoleTypeOK
  <2> QED BY <2>3, <2>4, <2>5 DEF ConsoleTypeOK
<1>6. ASSUME NEW i \in Inputs, WriteNewline(i) PROVE ConsoleTypeOK'
  <2>1. input[i].console \in Attaches
    BY <1>6 DEF WriteNewline, WriteInput, Locked
  <2>2. Append(stdin[input[i].console], <<"newline", i>>) \in Seq(Item)
    <3>1. stdin[input[i].console] \in Seq(Item)
      BY <2>1 DEF ConsoleTypeOK
    <3> QED BY <3>1, EndsAfter, Zenon
  <2>3. stdin' \in [Attaches -> Seq(Item)]
    BY ZenonT(30), <1>6, <2>1, <2>2 DEF WriteNewline, WriteInput, ConsoleTypeOK
  <2>4. input' \in [Inputs -> [at : At, console : Attaches \cup {NoConsole}]]
    <3>1. PICK a \in At : input' = [input EXCEPT ![i].at = a]
      BY <1>6 DEF WriteNewline, WriteInput, At
    <3>2. input[i] \in [at : At, console : Attaches \cup {NoConsole}]
      BY DEF ConsoleTypeOK
    <3> QED BY ZenonT(30), <3>1, <3>2 DEF ConsoleTypeOK
  <2>5. holder' \in [Attaches -> Inputs \cup {NoConsole}] /\ UNCHANGED consoles
    BY ZenonT(30), <1>6, <2>1 DEF WriteNewline, WriteInput, ConsoleTypeOK
  <2> QED BY <2>3, <2>4, <2>5 DEF ConsoleTypeOK
<1>7. CASE UNCHANGED consoleVars
  BY <1>7 DEF consoleVars, ConsoleTypeOK
<1> QED BY <1>1, <1>2, <1>3, <1>4, <1>5, <1>6, <1>7 DEF ConsoleNext, InputStep

\* A write of task i succeeds: it holds the lock, so no other task is between
\* its writes on this connection.
LEMMA WriteStep ==
    ASSUME ConsoleInv, ConsoleTypeOK', NEW i \in Inputs,
           NEW c \in Attaches, c = input[i].console, c \notin broken,
           \/ /\ input[i].at = "text"
              /\ stdin' = [stdin EXCEPT ![c] = Append(@, <<"text", i>>)]
              /\ input' = [input EXCEPT ![i].at = "newline"]
              /\ holder' = holder
           \/ /\ input[i].at = "newline"
              /\ stdin' = [stdin EXCEPT ![c] = Append(@, <<"newline", i>>)]
              /\ input' = [input EXCEPT ![i].at = "ok"]
              /\ holder' = [holder EXCEPT ![c] = NoConsole],
           UNCHANGED broken
    PROVE  ConsoleInv'
<1> USE DEF ConsoleInv
<1>1. holder[c] = i /\ \A j \in Inputs : (input[j].at \in {"text", "newline"} /\ input[j].console = c) => j = i
  BY ZenonT(30) DEF Locked
<1>2. stdin[c] \in Seq(Item) /\ Whole(stdin[c]) /\ Pending(c)
  BY ZenonT(30) DEF ConsoleTypeOK
<1>3. \A j \in Inputs : j # i => input'[j] = input[j]
  BY ZenonT(30) DEF ConsoleTypeOK
<1>4. \A d \in Attaches : d # c => stdin'[d] = stdin[d] /\ holder'[d] = holder[d]
  BY ZenonT(30) DEF ConsoleTypeOK
<1>5. /\ input'[i].console = c
      /\ \/ input'[i].at = "newline" /\ holder' = holder
         \/ input'[i].at = "ok"
  <2>1. DOMAIN input = Inputs /\ input[i] \in [at : At, console : Attaches \cup {NoConsole}]
    BY DEF ConsoleTypeOK
  <2>2. CASE input' = [input EXCEPT ![i].at = "newline"] /\ holder' = holder
    <3>1. input'[i] = [input[i] EXCEPT !.at = "newline"] BY Zenon, <2>1, <2>2
    <3>2. input'[i].console = input[i].console /\ input'[i].at = "newline" BY Zenon, <2>1, <3>1
    <3> QED BY Zenon, <2>2, <3>2
  <2>3. CASE input' = [input EXCEPT ![i].at = "ok"]
    <3>1. input'[i] = [input[i] EXCEPT !.at = "ok"] BY Zenon, <2>1, <2>3
    <3>2. input'[i].console = input[i].console /\ input'[i].at = "ok" BY ZenonT(30), <2>1, <3>1
    <3> QED BY Zenon, <2>3, <3>2
  <2> QED BY ZenonT(30), <2>2, <2>3
<1>6. ASSUME NEW j \in Inputs PROVE Locked(j)'
  <2>1. CASE j = i
    BY Zenon, <2>1, <1>1, <1>5 DEF Locked
  <2>2. CASE j # i
    BY ZenonT(120), <2>2, <1>1, <1>3, <1>4 DEF Locked
  <2> QED BY <2>1, <2>2
<1>7. ASSUME NEW d \in Attaches, d # c PROVE Pending(d)' /\ Whole(stdin[d])'
  <2>1. stdin'[d] = stdin[d] /\ Pending(d) /\ Whole(stdin[d])
    BY ZenonT(30), <1>4, <1>7
  <2>2. \A j \in Inputs : (input'[j].at = "newline" /\ input'[j].console = d) <=>
                            (input[j].at = "newline" /\ input[j].console = d)
    BY ZenonT(30), <1>3, <1>5, <1>7
  <2> QED BY ZenonT(30), <2>1, <2>2 DEF Pending
<1>8. CASE input[i].at = "text"
  <2>1. stdin'[c] = Append(stdin[c], <<"text", i>>) /\ input'[i].at = "newline"
    <3>1. /\ stdin' = [stdin EXCEPT ![c] = Append(stdin[c], <<"text", i>>)]
          /\ input' = [input EXCEPT ![i].at = "newline"]
      BY Zenon, <1>8
    <3>2. stdin'[c] = Append(stdin[c], <<"text", i>>)
      BY Zenon, <3>1 DEF ConsoleTypeOK
    <3>3. DOMAIN input = Inputs /\ input[i] \in [at : At, console : Attaches \cup {NoConsole}]
      BY Zenon DEF ConsoleTypeOK
    <3>4. input'[i] = [input[i] EXCEPT !.at = "newline"]
      BY Zenon, <3>1, <3>3
    <3>5. input'[i].at = "newline"
      BY Zenon, <3>3, <3>4
    <3> QED BY Zenon, <3>2, <3>5
  <2>2. \A j \in Inputs : ~Ends(stdin[c], j)
    BY ZenonT(30), <1>1, <1>2, <1>8 DEF Pending
  <2>3. Whole(stdin'[c])
    BY ZenonT(30), <1>2, <2>1, <2>2, TextKeepsWhole
  <2>4. \A j \in Inputs : Ends(stdin'[c], j) <=> j = i
    <3>1. \A j \in Inputs : Ends(Append(stdin[c], <<"text", i>>), j) <=> j = i
      BY <1>2, EndsAfter, Zenon
    <3> QED BY <3>1, <2>1, Zenon
  <2>5. \A j \in Inputs : (input'[j].at = "newline" /\ input'[j].console = c) <=> j = i
    BY ZenonT(30), <2>1, <1>1, <1>3, <1>5
  <2>6. Pending(c)'
    BY ZenonT(30), <2>4, <2>5 DEF Pending
  <2> QED BY <2>3, <2>6, <1>6, <1>7
<1>9. CASE input[i].at = "newline"
  <2>1. stdin'[c] = Append(stdin[c], <<"newline", i>>) /\ input'[i].at = "ok"
    <3>1. /\ stdin' = [stdin EXCEPT ![c] = Append(stdin[c], <<"newline", i>>)]
          /\ input' = [input EXCEPT ![i].at = "ok"]
      BY Zenon, <1>9
    <3>2. stdin'[c] = Append(stdin[c], <<"newline", i>>)
      BY Zenon, <3>1 DEF ConsoleTypeOK
    <3>3. DOMAIN input = Inputs /\ input[i] \in [at : At, console : Attaches \cup {NoConsole}]
      BY Zenon DEF ConsoleTypeOK
    <3>4. input'[i] = [input[i] EXCEPT !.at = "ok"]
      BY Zenon, <3>1, <3>3
    <3>5. input'[i].at = "ok"
      BY Zenon, <3>3, <3>4
    <3> QED BY Zenon, <3>2, <3>5
  <2>2. Ends(stdin[c], i)
    BY <1>2, <1>9 DEF Pending
  <2>3. Whole(stdin'[c])
    BY ZenonT(30), <1>2, <2>1, <2>2, NewlineKeepsWhole
  <2>4. \A j \in Inputs : ~Ends(stdin'[c], j)
    <3>1. \A j \in Inputs : ~Ends(Append(stdin[c], <<"newline", i>>), j)
      BY <1>2, EndsAfter, Zenon
    <3> QED BY <3>1, <2>1, Zenon
  <2>5. \A j \in Inputs : ~(input'[j].at = "newline" /\ input'[j].console = c)
    BY ZenonT(30), <2>1, <1>1, <1>3, <1>5
  <2>6. Pending(c)'
    BY <2>4, <2>5 DEF Pending
  <2> QED BY ZenonT(30), <2>3, <2>6, <1>6, <1>7
<1> QED BY ZenonT(30), <1>8, <1>9

\* A step that writes nothing, leaves tasks between their writes where they are
\* or breaks their connection, and takes no lock from them.
LEMMA QuietStep ==
    ASSUME ConsoleInv, ConsoleTypeOK', UNCHANGED stdin, broken \subseteq broken',
           \A i \in Inputs : Locked(i)',
           \A i \in Inputs : input'[i].at = "newline" => input'[i] = input[i],
           \A i \in Inputs : (input[i].at = "newline" /\ input'[i] # input[i]) =>
                                input[i].console \in broken'
    PROVE  ConsoleInv'
<1>1. ASSUME NEW c \in Attaches PROVE Pending(c)' /\ Whole(stdin[c])'
  <2>1. Pending(c) /\ Whole(stdin[c]) /\ stdin'[c] = stdin[c]
    BY DEF ConsoleInv
  <2> QED BY <2>1 DEF Pending
<1> QED BY <1>1 DEF ConsoleInv

-----------------------------------------------------------------------------
\* What the container reads on a connection is whole lines (console_input and
\* the lock of ActiveConsole), for any number of inputs and connections, and
\* however writes fail and consoles are replaced.
THEOREM InputLinesAreWhole == ConsoleSpec => []LinesAreWhole
<1>1. ConsoleInit => ConsoleInv
  <2> SUFFICES ASSUME ConsoleInit PROVE ConsoleInv
    OBVIOUS
  <2>1. ConsoleTypeOK
    BY DEF ConsoleInit, ConsoleTypeOK, At
  <2>2. \A i \in Inputs : Locked(i) /\ input[i].at = "new"
    BY DEF ConsoleInit, Locked
  <2>3. \A c \in Attaches : stdin[c] = <<>>
    BY DEF ConsoleInit
  <2>4. Whole(<<>>) /\ \A i : ~Ends(<<>>, i)
    BY DEF Whole, Ends
  <2> QED BY <2>1, <2>2, <2>3, <2>4 DEF ConsoleInv, Pending
<1>2. ConsoleInv /\ [ConsoleNext]_consoleVars => ConsoleInv'
  <2> SUFFICES ASSUME ConsoleInv, [ConsoleNext]_consoleVars PROVE ConsoleInv'
    OBVIOUS
  <2>0. ConsoleTypeOK' /\ ConsoleTypeOK /\ \A i \in Inputs : Locked(i)
    BY ConsoleTypes DEF ConsoleInv
  <2>1. CASE Attached \/ Detached \/ UNCHANGED consoleVars
    <3>1. UNCHANGED <<stdin, input, holder>> /\ broken \subseteq broken'
      BY <2>1 DEF Attached, Detached, consoleVars
    <3>2. \A i \in Inputs : Locked(i)'
      BY <3>1, <2>0 DEF Locked
    <3> QED BY <3>1, <3>2, <2>0, QuietStep
  <2>2. ASSUME NEW i \in Inputs, TakeConsole(i) \/ LockStdin(i) PROVE ConsoleInv'
    <3>1. UNCHANGED <<stdin, broken>> /\ input[i].at # "newline" /\ input'[i].at # "newline"
      BY <2>2, <2>0 DEF TakeConsole, LockStdin, ConsoleTypeOK
    <3>2. \A j \in Inputs : j # i => input'[j] = input[j]
      BY <2>2, <2>0 DEF TakeConsole, LockStdin, ConsoleTypeOK
    <3>3. ASSUME NEW j \in Inputs PROVE Locked(j)'
      <4>1. CASE TakeConsole(i)
        BY <4>1, <2>0 DEF TakeConsole, ConsoleTypeOK, Locked
      <4>2. CASE LockStdin(i)
        <5>1. input[i].console \in Attaches /\ holder[input[i].console] = NoConsole
          BY <4>2, <2>0 DEF LockStdin, Locked
        <5>2. input'[i].console = input[i].console /\ holder'[input[i].console] = i
          BY <4>2, <5>1, <2>0 DEF LockStdin, ConsoleTypeOK
        <5>3. \A c \in Attaches : c # input[i].console => holder'[c] = holder[c]
          BY ZenonT(90), <4>2, <2>0 DEF LockStdin, ConsoleTypeOK
        <5> QED BY <5>1, <5>2, <5>3, <3>2, <2>0 DEF Locked
      <4> QED BY <2>2, <4>1, <4>2
    <3> QED BY <3>1, <3>2, <3>3, <2>0, QuietStep
  <2>3. ASSUME NEW i \in Inputs, WriteText(i) \/ WriteNewline(i) PROVE ConsoleInv'
    <3> DEFINE c == input[i].console
    <3>1. c \in Attaches /\ holder[c] = i
      BY <2>3, <2>0 DEF WriteText, WriteNewline, WriteInput, Locked
    <3>2. CASE c \notin broken /\ UNCHANGED broken
      <4>1. CASE WriteText(i)
        BY ZenonT(30), <4>1, <3>1, <3>2, <2>0, WriteStep DEF WriteText, WriteInput, ConsoleTypeOK
      <4>2. CASE WriteNewline(i)
        BY <4>2, <3>1, <3>2, <2>0, WriteStep DEF WriteNewline, WriteInput, ConsoleTypeOK
      <4> QED BY ZenonT(30), <2>3, <4>1, <4>2
    <3>3. CASE /\ broken' = broken \cup {c}
               /\ input' = [input EXCEPT ![i].at = "err"]
               /\ holder' = [holder EXCEPT ![c] = NoConsole]
               /\ UNCHANGED stdin
      <4>1. input'[i].at = "err" /\ \A j \in Inputs : j # i => input'[j] = input[j]
        BY <3>3, <2>0 DEF ConsoleTypeOK
      <4>2. ASSUME NEW j \in Inputs PROVE Locked(j)'
        BY <4>1, <3>1, <3>3, <2>0 DEF Locked, ConsoleTypeOK
      <4> QED BY <4>1, <4>2, <3>3, <2>0, QuietStep
    <3> QED BY ZenonT(30), <3>2, <3>3, <2>3 DEF WriteText, WriteNewline, WriteInput
  <2> QED BY <2>1, <2>2, <2>3 DEF ConsoleNext, InputStep
<1>3. ConsoleInv => LinesAreWhole
  BY DEF ConsoleInv, Whole, LinesAreWhole
<1> QED BY <1>1, <1>2, <1>3, PTL DEF ConsoleSpec
=============================================================================
