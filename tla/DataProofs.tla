------------------------------ MODULE DataProofs ------------------------------
(***************************************************************************)
(* What the programs of Programs on a file or a pipe write arrives.        *)
(*                                                                         *)
(* DataInv says of each of them where in its code it can be, and what the  *)
(* file, the offset, the buffer and the pipe hold there.                   *)
(***************************************************************************)
EXTENDS ProgramsProofs

-----------------------------------------------------------------------------
(* The programs that work on a file or a pipe                              *)

(* A file that fits the buffer is never put behind its room.               *)
Reads ==
    Len(original) <= SIZE_BUF_STORAGE =>
      Alone(/\ file = original
            /\ \/ AtCall(1) /\ buffer = <<>>
               \/ AtCall(2) /\ offset <= Len(original) /\ buffer = SubSeq(original, 1, offset)
               \/ AtCall(3) /\ buffer = original,
            buffer = original)

(* text is what it still has to append.                                    *)
Hello == Text("Hello", 3)
AppendsNow(text) ==
    /\ code[Parent] = <<AppendAll(text, <<Exit(-2)>>)>> \o Left(Main_2_3, 3)
    /\ file \o text = original \o Hello

Appends ==
    Alone(\/ AtCall(1) /\ file = original
          \/ \E text \in Seq(Bytes) : AppendsNow(text)
          \/ AtCall(3) /\ file = original \o Hello,
          file = original \o Hello)

Digits == Text("digits", 19)
Zeroed == SubSeq(Digits, 1, 2) \o Text("00", 2) \o SubSeq(Digits, 5, 19)
Tabbed == Zeroed \o Text("tabbed", 11)
Seeking ==
    faults = 0 =>
      Alone(\/ AtCall(1) /\ buffer = <<>>
            \/ (AtCall(2) \/ AtCall(3)) /\ file = <<>> /\ offset = 0 /\ buffer = <<>>
            \/ (AtCall(4) \/ AtCall(5)) /\ file = Digits /\ buffer = <<>>
            \/ AtCall(6) /\ file = Digits /\ offset = 2 /\ buffer = <<>>
            \/ AtCall(7) /\ file = Zeroed /\ offset = 4 /\ buffer = <<>>
            \/ AtCall(8) /\ file = Zeroed /\ offset = 10 /\ buffer = <<>>
            \/ AtCall(9) /\ file = Zeroed /\ buffer = SubSeq(Zeroed, 11, 19)
            \/ AtCall(10) /\ file = Zeroed /\ offset = 19 /\ buffer = SubSeq(Zeroed, 11, 19)
            \/ (AtCall(11) \/ AtCall(12)) /\ file = Tabbed /\ buffer = SubSeq(Zeroed, 11, 19)
            \/ AtCall(13) /\ file = Tabbed /\ offset = 0 /\ buffer = SubSeq(Zeroed, 11, 19)
            \/ AtCall(14) /\ file = Tabbed /\ buffer = SubSeq(Zeroed, 11, 19) \o Zeroed,
            file = Tabbed /\ buffer = SubSeq(Zeroed, 11, 19) \o Zeroed)

New == Text("newfd", 2)
Old == Text("oldfd", 2)
(* Without newfd, what is left to do before the rest.                      *)
OldAlone == <<WriteFile(Old, <<>>), Exit(-3)>>
NewWritten ==
    \E i \in 0 .. 2 : offset = i /\ Begins(SubSeq(New, 1, i)) /\ (faults = 0 => i = 2)
BothWritten == Follows(New, Old) /\ (faults = 0 => Begins(New \o Old))
Duplicates ==
    Alone(\/ AtCall(1) /\ file = original
          \/ (AtCall(2) \/ AtCall(3)) /\ file = original /\ offset = 0
          \/ code[Parent] = OldAlone \o Left(Main_2_6, 3)
          \/ AtCall(4) /\ NewWritten
          \/ AtCall(5) /\ BothWritten,
          BothWritten)

(* 7_9: nobody writes between the parent and the child.                    *)
ParentWrote ==
    \E i \in 1 .. 2 : file = Text("Parent", i) /\ offset = i /\ (~torn => i = 2)
BothWrote ==
    \E i, j \in 1 .. 2 :
        file = Text("Parent", i) \o Text("Child", j) /\ (~torn => i = 2 /\ j = 2)
ParentInherits ==
    IF run[C1] = "none"
    THEN Running(Parent) =>
           \/ Escaping
           \/ AtCall(1)
           \/ AtCall(2) /\ file = <<>> /\ offset = 0
           \/ AtCall(3) /\ ParentWrote
    ELSE Running(Parent) => Escaping \/ AtCall(4) \/ AtCall(5)
ChildInherits ==
    /\ run[C1] = "running" =>
          \/ code[C1] = Child_7_9 /\ ParentWrote
          \/ code[C1] = Left(Child_7_9, 2) /\ BothWrote
          \/ Now(C1).op = "exit" /\ Bad(Now(C1).status)
    /\ Succeeded(C1) => BothWrote
Inherits == run[C2] = "none" /\ ParentInherits /\ ChildInherits

Pipes ==
    Alone(\/ AtCall(1) /\ written = 0 /\ pipe = 0
          \/ AtCall(2) /\ written = 0 /\ pipe = 0
          \/ (AtCall(3) \/ AtCall(4)) /\ written = 20
          \/ (AtCall(5) \/ AtCall(6)) /\ written = 20 /\ pipe = 0,
          written > 0 /\ got = written)

Drained == pipe = 0 /\ ~OpenAt("write")
(* The parent keeps its write end until it has written, so the child takes *)
(* no end of file for the end of the data before.                          *)
ParentDrains ==
    IF run[C1] = "none"
    THEN Running(Parent) =>
           \/ Escaping
           \/ AtCall(1)
           \/ AtCall(2) /\ "write" \in ends[Parent]
    ELSE Running(Parent) =>
           \/ (AtCall(3) \/ AtCall(4)) /\ "write" \in ends[Parent]
           \/ Escaping \/ AtCall(5) \/ AtCall(6) \/ AtCall(7)
ChildDrains ==
    /\ run[C1] = "running" =>
          \/ code[C1] = Child_11_2
          \/ code[C1] = Left(Child_11_2, 2)
          \/ (code[C1] = Left(Child_11_2, 3) \/ code[C1] = Left(Child_11_2, 4)) /\ Drained
          \/ Now(C1).op = "exit" /\ Bad(Now(C1).status)
    /\ Succeeded(C1) => Drained
Drains == run[C2] = "none" /\ ParentDrains /\ ChildDrains

(* 11_3: the child takes a part, unless nothing will ever come.            *)
Sent == written \in {0, 4, 8}
Taken == got = 4 \/ (written = 0 /\ ~OpenAt("write"))
Deaf == \A p \in Procs : pending[p] = {} /\ ~timer[p]
ParentSends ==
    IF run[C1] = "none"
    THEN /\ written = 0 /\ got = 0
         /\ Running(Parent) =>
               \/ Escaping
               \/ AtCall(1)
               \/ AtCall(2) /\ "PIPE" \in ignored[Parent]
               \/ AtCall(3) /\ "PIPE" \in ignored[Parent] /\ "write" \in ends[Parent]
    ELSE Running(Parent) =>
           \/ /\ "PIPE" \in ignored[Parent] /\ "write" \in ends[Parent]
              /\ \/ (AtCall(4) \/ AtCall(5)) /\ written = 0
                 \/ AtCall(6) /\ written \in {0, 4}
                 \/ AtCall(7)
           \/ Escaping \/ AtCall(8) \/ AtCall(9)
ChildTakes ==
    /\ run[C1] = "running" =>
          \/ code[C1] = Child_11_3 /\ got = 0
          \/ code[C1] = Left(Child_11_3, 2) /\ got = 0
          \/ (code[C1] = Left(Child_11_3, 3) \/ code[C1] = Left(Child_11_3, 4)) /\ Taken
          \/ Now(C1).op = "exit" /\ Bad(Now(C1).status)
    /\ Succeeded(C1) => Taken
Sends ==
    /\ run[C2] = "none" /\ Sent /\ ParentSends /\ ChildTakes /\ Deaf
    /\ Parent \in killed => status[Parent] # Number.PIPE

DataInv ==
    /\ program = "2_2" => Reads
    /\ program = "2_3" => Appends
    /\ program = "2_4" => Seeking
    /\ program = "2_5" => Replaces
    /\ program = "2_6" => Duplicates
    /\ program = "7_9" => Inherits
    /\ program = "11_1" => Pipes
    /\ program = "11_2" => Drains
    /\ program = "11_3" => Sends

-----------------------------------------------------------------------------
(* The calls of the programs that work on a file or a pipe                 *)

LEMMA At_2_2 ==
    ASSUME Base, UNCHANGED program, program = "2_2", Running(Parent)
    PROVE  /\ Left(Main(program), 1) = Main(program)
           /\ AtCall(1) => Now(Parent) = OpenFile(FALSE, <<Exit(-10)>>)
           /\ AtCall(2) => Now(Parent) = ReadFile(10, SIZE_BUF_STORAGE, TRUE, <<Exit(-5)>>)
           /\ AtCall(3) => Now(Parent) = Exit(0)
           /\ AtCall(1) /\ GoOn(Parent, <<>>) => AtCall(2)'
           /\ AtCall(2) /\ GoOn(Parent, <<>>) => AtCall(3)'
           /\ AtCall(2) /\ GoOn(Parent, <<Now(Parent)>>) => AtCall(2)'
<1> DEFINE c1 == OpenFile(FALSE, <<Exit(-10)>>)
           c2 == ReadFile(10, SIZE_BUF_STORAGE, TRUE, <<Exit(-5)>>)
           c3 == Exit(0)
<1>1. Main_2_2 = <<c1, c2, c3>>
  BY DEF Main_2_2
<1>. HIDE DEF c1, c2, c3
<1>2. /\ Len(Main_2_2) = 3
      /\ Main_2_2[1] = c1
      /\ Main_2_2[2] = c2
      /\ Main_2_2[3] = c3
  BY <1>1
<1>3. Main(program) = Main_2_2
  BY DEF Main
<1>4. Len(Main(program)) = 3
  BY <1>2, <1>3
<1>5. \A k \in 1 .. 3 : AtCall(k) =>
         /\ Now(Parent) = Main_2_2[k]
         /\ GoOn(Parent, <<>>) => AtCall(k + 1)'
         /\ GoOn(Parent, <<Now(Parent)>>) => AtCall(k)'
  BY <1>3, <1>4, AtCalls
<1>6. AtCall(1) =>
         /\ Now(Parent) = c1
         /\ GoOn(Parent, <<>>) => AtCall(2)'
  <2>1. 1 \in 1 .. 3 /\ 1 + 1 = 2
    OBVIOUS
  <2>. QED
    BY <1>2, <1>5, <2>1
<1>7. AtCall(2) =>
         /\ Now(Parent) = c2
         /\ GoOn(Parent, <<>>) => AtCall(3)'
         /\ GoOn(Parent, <<Now(Parent)>>) => AtCall(2)'
  <2>1. 2 \in 1 .. 3 /\ 2 + 1 = 3
    OBVIOUS
  <2>. QED
    BY <1>2, <1>5, <2>1
<1>8. AtCall(3) =>
         /\ Now(Parent) = c3
  <2>1. 3 \in 1 .. 3 /\ 3 + 1 = 4
    OBVIOUS
  <2>. QED
    BY <1>2, <1>5, <2>1
<1>9. Left(Main(program), 1) = Main(program)
  BY <1>3, Start_2_2, SubSeqFull DEF Left, Starts
<1>14. AtCall(1) => Now(Parent) = OpenFile(FALSE, <<Exit(-10)>>)
  BY <1>6, Zenon DEF c1
<1>15. AtCall(2) => Now(Parent) = ReadFile(10, SIZE_BUF_STORAGE, TRUE, <<Exit(-5)>>)
  BY <1>7, Zenon DEF c2
<1>16. AtCall(3) => Now(Parent) = Exit(0)
  BY <1>8, Zenon DEF c3
<1>34. AtCall(1) /\ GoOn(Parent, <<>>) => AtCall(2)'
  BY <1>6
<1>35. AtCall(2) /\ GoOn(Parent, <<>>) => AtCall(3)'
  BY <1>7
<1>36. AtCall(2) /\ GoOn(Parent, <<Now(Parent)>>) => AtCall(2)'
  BY <1>7
<1>. QED
  BY <1>9, <1>14, <1>15, <1>16, <1>34, <1>35, <1>36, Zenon

LEMMA At_2_3 ==
    ASSUME Base, UNCHANGED program, program = "2_3", Running(Parent)
    PROVE  /\ Left(Main(program), 1) = Main(program)
           /\ AtCall(1) => Now(Parent) = OpenFile(FALSE, <<Exit(-10)>>)
           /\ AtCall(2) => Now(Parent) = AppendAll(Hello, <<Exit(-2)>>)
           /\ AtCall(3) => Now(Parent) = Exit(0)
           /\ AtCall(1) /\ GoOn(Parent, <<>>) => AtCall(2)'
           /\ AtCall(2) /\ GoOn(Parent, <<>>) => AtCall(3)'
<1> DEFINE c1 == OpenFile(FALSE, <<Exit(-10)>>)
           c2 == AppendAll(Hello, <<Exit(-2)>>)
           c3 == Exit(0)
<1>1. Main_2_3 = <<c1, c2, c3>>
  BY DEF Main_2_3, Hello
<1>. HIDE DEF c1, c2, c3
<1>2. /\ Len(Main_2_3) = 3
      /\ Main_2_3[1] = c1
      /\ Main_2_3[2] = c2
      /\ Main_2_3[3] = c3
  BY <1>1
<1>3. Main(program) = Main_2_3
  BY DEF Main
<1>4. Len(Main(program)) = 3
  BY <1>2, <1>3
<1>5. \A k \in 1 .. 3 : AtCall(k) =>
         /\ Now(Parent) = Main_2_3[k]
         /\ GoOn(Parent, <<>>) => AtCall(k + 1)'
         /\ GoOn(Parent, <<Now(Parent)>>) => AtCall(k)'
  BY <1>3, <1>4, AtCalls
<1>6. AtCall(1) =>
         /\ Now(Parent) = c1
         /\ GoOn(Parent, <<>>) => AtCall(2)'
  <2>1. 1 \in 1 .. 3 /\ 1 + 1 = 2
    OBVIOUS
  <2>. QED
    BY <1>2, <1>5, <2>1
<1>7. AtCall(2) =>
         /\ Now(Parent) = c2
         /\ GoOn(Parent, <<>>) => AtCall(3)'
  <2>1. 2 \in 1 .. 3 /\ 2 + 1 = 3
    OBVIOUS
  <2>. QED
    BY <1>2, <1>5, <2>1
<1>8. AtCall(3) =>
         /\ Now(Parent) = c3
  <2>1. 3 \in 1 .. 3 /\ 3 + 1 = 4
    OBVIOUS
  <2>. QED
    BY <1>2, <1>5, <2>1
<1>9. Left(Main(program), 1) = Main(program)
  BY <1>3, Start_2_3, SubSeqFull DEF Left, Starts
<1>14. AtCall(1) => Now(Parent) = OpenFile(FALSE, <<Exit(-10)>>)
  BY <1>6, Zenon DEF c1
<1>15. AtCall(2) => Now(Parent) = AppendAll(Hello, <<Exit(-2)>>)
  BY <1>7, Zenon DEF c2
<1>16. AtCall(3) => Now(Parent) = Exit(0)
  BY <1>8, Zenon DEF c3
<1>34. AtCall(1) /\ GoOn(Parent, <<>>) => AtCall(2)'
  BY <1>6
<1>35. AtCall(2) /\ GoOn(Parent, <<>>) => AtCall(3)'
  BY <1>7
<1>. QED
  BY <1>9, <1>14, <1>15, <1>16, <1>34, <1>35, Zenon

LEMMA At_2_4 ==
    ASSUME Base, UNCHANGED program, program = "2_4", Running(Parent)
    PROVE  /\ Left(Main(program), 1) = Main(program)
           /\ AtCall(1) => Now(Parent) = OpenFile(TRUE, <<Exit(-2)>>)
           /\ AtCall(2) => Now(Parent) = LSeek(0, "SET")
           /\ AtCall(3) => Now(Parent) = WriteFile(Digits, <<>>)
           /\ AtCall(4) => Now(Parent) = LSeek(0, "CUR")
           /\ AtCall(5) => Now(Parent) = LSeek(2, "SET")
           /\ AtCall(6) => Now(Parent) = WriteFile(Text("00", 2), <<>>)
           /\ AtCall(7) => Now(Parent) = LSeek(6, "CUR")
           /\ AtCall(8) => Now(Parent) = ReadFile(10, 100, FALSE, <<>>)
           /\ AtCall(9) => Now(Parent) = LSeek(0, "END")
           /\ AtCall(10) => Now(Parent) = WriteFile(Text("tabbed", 11), <<>>)
           /\ AtCall(11) => Now(Parent) = LSeek(0, "CUR")
           /\ AtCall(12) => Now(Parent) = LSeek(0, "SET")
           /\ AtCall(13) => Now(Parent) = ReadFile(19, 100, FALSE, <<>>)
           /\ AtCall(14) => Now(Parent) = Exit(0)
           /\ AtCall(1) /\ GoOn(Parent, <<>>) => AtCall(2)'
           /\ AtCall(2) /\ GoOn(Parent, <<>>) => AtCall(3)'
           /\ AtCall(3) /\ GoOn(Parent, <<>>) => AtCall(4)'
           /\ AtCall(4) /\ GoOn(Parent, <<>>) => AtCall(5)'
           /\ AtCall(5) /\ GoOn(Parent, <<>>) => AtCall(6)'
           /\ AtCall(6) /\ GoOn(Parent, <<>>) => AtCall(7)'
           /\ AtCall(7) /\ GoOn(Parent, <<>>) => AtCall(8)'
           /\ AtCall(8) /\ GoOn(Parent, <<>>) => AtCall(9)'
           /\ AtCall(9) /\ GoOn(Parent, <<>>) => AtCall(10)'
           /\ AtCall(10) /\ GoOn(Parent, <<>>) => AtCall(11)'
           /\ AtCall(11) /\ GoOn(Parent, <<>>) => AtCall(12)'
           /\ AtCall(12) /\ GoOn(Parent, <<>>) => AtCall(13)'
           /\ AtCall(13) /\ GoOn(Parent, <<>>) => AtCall(14)'
<1> DEFINE c1 == OpenFile(TRUE, <<Exit(-2)>>)
           c2 == LSeek(0, "SET")
           c3 == WriteFile(Digits, <<>>)
           c4 == LSeek(0, "CUR")
           c5 == LSeek(2, "SET")
           c6 == WriteFile(Text("00", 2), <<>>)
           c7 == LSeek(6, "CUR")
           c8 == ReadFile(10, 100, FALSE, <<>>)
           c9 == LSeek(0, "END")
           c10 == WriteFile(Text("tabbed", 11), <<>>)
           c11 == LSeek(0, "CUR")
           c12 == LSeek(0, "SET")
           c13 == ReadFile(19, 100, FALSE, <<>>)
           c14 == Exit(0)
<1>1. Main_2_4 = <<c1, c2, c3, c4, c5, c6, c7, c8, c9, c10, c11, c12, c13, c14>>
  BY DEF Main_2_4, Digits
<1>. HIDE DEF c1, c2, c3, c4, c5, c6, c7, c8, c9, c10, c11, c12, c13, c14
<1>2. /\ Len(Main_2_4) = 14
      /\ Main_2_4[1] = c1
      /\ Main_2_4[2] = c2
      /\ Main_2_4[3] = c3
      /\ Main_2_4[4] = c4
      /\ Main_2_4[5] = c5
      /\ Main_2_4[6] = c6
      /\ Main_2_4[7] = c7
      /\ Main_2_4[8] = c8
      /\ Main_2_4[9] = c9
      /\ Main_2_4[10] = c10
      /\ Main_2_4[11] = c11
      /\ Main_2_4[12] = c12
      /\ Main_2_4[13] = c13
      /\ Main_2_4[14] = c14
  BY <1>1
<1>3. Main(program) = Main_2_4
  BY DEF Main
<1>4. Len(Main(program)) = 14
  BY <1>2, <1>3
<1>5. \A k \in 1 .. 14 : AtCall(k) =>
         /\ Now(Parent) = Main_2_4[k]
         /\ GoOn(Parent, <<>>) => AtCall(k + 1)'
         /\ GoOn(Parent, <<Now(Parent)>>) => AtCall(k)'
  BY <1>3, <1>4, AtCalls
<1>6. AtCall(1) =>
         /\ Now(Parent) = c1
         /\ GoOn(Parent, <<>>) => AtCall(2)'
  <2>1. 1 \in 1 .. 14 /\ 1 + 1 = 2
    OBVIOUS
  <2>. QED
    BY <1>2, <1>5, <2>1
<1>7. AtCall(2) =>
         /\ Now(Parent) = c2
         /\ GoOn(Parent, <<>>) => AtCall(3)'
  <2>1. 2 \in 1 .. 14 /\ 2 + 1 = 3
    OBVIOUS
  <2>. QED
    BY <1>2, <1>5, <2>1
<1>8. AtCall(3) =>
         /\ Now(Parent) = c3
         /\ GoOn(Parent, <<>>) => AtCall(4)'
  <2>1. 3 \in 1 .. 14 /\ 3 + 1 = 4
    OBVIOUS
  <2>. QED
    BY <1>2, <1>5, <2>1
<1>9. AtCall(4) =>
         /\ Now(Parent) = c4
         /\ GoOn(Parent, <<>>) => AtCall(5)'
  <2>1. 4 \in 1 .. 14 /\ 4 + 1 = 5
    OBVIOUS
  <2>. QED
    BY <1>2, <1>5, <2>1
<1>10. AtCall(5) =>
         /\ Now(Parent) = c5
         /\ GoOn(Parent, <<>>) => AtCall(6)'
  <2>1. 5 \in 1 .. 14 /\ 5 + 1 = 6
    OBVIOUS
  <2>. QED
    BY <1>2, <1>5, <2>1
<1>11. AtCall(6) =>
         /\ Now(Parent) = c6
         /\ GoOn(Parent, <<>>) => AtCall(7)'
  <2>1. 6 \in 1 .. 14 /\ 6 + 1 = 7
    OBVIOUS
  <2>. QED
    BY <1>2, <1>5, <2>1
<1>12. AtCall(7) =>
         /\ Now(Parent) = c7
         /\ GoOn(Parent, <<>>) => AtCall(8)'
  <2>1. 7 \in 1 .. 14 /\ 7 + 1 = 8
    OBVIOUS
  <2>. QED
    BY <1>2, <1>5, <2>1
<1>13. AtCall(8) =>
         /\ Now(Parent) = c8
         /\ GoOn(Parent, <<>>) => AtCall(9)'
  <2>1. 8 \in 1 .. 14 /\ 8 + 1 = 9
    OBVIOUS
  <2>. QED
    BY <1>2, <1>5, <2>1
<1>14. AtCall(9) =>
         /\ Now(Parent) = c9
         /\ GoOn(Parent, <<>>) => AtCall(10)'
  <2>1. 9 \in 1 .. 14 /\ 9 + 1 = 10
    OBVIOUS
  <2>. QED
    BY <1>2, <1>5, <2>1
<1>15. AtCall(10) =>
         /\ Now(Parent) = c10
         /\ GoOn(Parent, <<>>) => AtCall(11)'
  <2>1. 10 \in 1 .. 14 /\ 10 + 1 = 11
    OBVIOUS
  <2>. QED
    BY <1>2, <1>5, <2>1
<1>16. AtCall(11) =>
         /\ Now(Parent) = c11
         /\ GoOn(Parent, <<>>) => AtCall(12)'
  <2>1. 11 \in 1 .. 14 /\ 11 + 1 = 12
    OBVIOUS
  <2>. QED
    BY <1>2, <1>5, <2>1
<1>17. AtCall(12) =>
         /\ Now(Parent) = c12
         /\ GoOn(Parent, <<>>) => AtCall(13)'
  <2>1. 12 \in 1 .. 14 /\ 12 + 1 = 13
    OBVIOUS
  <2>. QED
    BY <1>2, <1>5, <2>1
<1>18. AtCall(13) =>
         /\ Now(Parent) = c13
         /\ GoOn(Parent, <<>>) => AtCall(14)'
  <2>1. 13 \in 1 .. 14 /\ 13 + 1 = 14
    OBVIOUS
  <2>. QED
    BY <1>2, <1>5, <2>1
<1>19. AtCall(14) =>
         /\ Now(Parent) = c14
  <2>1. 14 \in 1 .. 14 /\ 14 + 1 = 15
    OBVIOUS
  <2>. QED
    BY <1>2, <1>5, <2>1
<1>20. Left(Main(program), 1) = Main(program)
  BY <1>3, Start_2_4, SubSeqFull DEF Left, Starts
<1>25. AtCall(1) => Now(Parent) = OpenFile(TRUE, <<Exit(-2)>>)
  BY <1>6, Zenon DEF c1
<1>26. AtCall(2) => Now(Parent) = LSeek(0, "SET")
  BY <1>7, Zenon DEF c2
<1>27. AtCall(3) => Now(Parent) = WriteFile(Digits, <<>>)
  BY <1>8, Zenon DEF c3
<1>28. AtCall(4) => Now(Parent) = LSeek(0, "CUR")
  BY <1>9, Zenon DEF c4
<1>29. AtCall(5) => Now(Parent) = LSeek(2, "SET")
  BY <1>10, Zenon DEF c5
<1>30. AtCall(6) => Now(Parent) = WriteFile(Text("00", 2), <<>>)
  BY <1>11, Zenon DEF c6
<1>31. AtCall(7) => Now(Parent) = LSeek(6, "CUR")
  BY <1>12, Zenon DEF c7
<1>32. AtCall(8) => Now(Parent) = ReadFile(10, 100, FALSE, <<>>)
  BY <1>13, Zenon DEF c8
<1>33. AtCall(9) => Now(Parent) = LSeek(0, "END")
  BY <1>14, Zenon DEF c9
<1>34. AtCall(10) => Now(Parent) = WriteFile(Text("tabbed", 11), <<>>)
  BY <1>15, Zenon DEF c10
<1>35. AtCall(11) => Now(Parent) = LSeek(0, "CUR")
  BY <1>16, Zenon DEF c11
<1>36. AtCall(12) => Now(Parent) = LSeek(0, "SET")
  BY <1>17, Zenon DEF c12
<1>37. AtCall(13) => Now(Parent) = ReadFile(19, 100, FALSE, <<>>)
  BY <1>18, Zenon DEF c13
<1>38. AtCall(14) => Now(Parent) = Exit(0)
  BY <1>19, Zenon DEF c14
<1>45. AtCall(1) /\ GoOn(Parent, <<>>) => AtCall(2)'
  BY <1>6
<1>46. AtCall(2) /\ GoOn(Parent, <<>>) => AtCall(3)'
  BY <1>7
<1>47. AtCall(3) /\ GoOn(Parent, <<>>) => AtCall(4)'
  BY <1>8
<1>48. AtCall(4) /\ GoOn(Parent, <<>>) => AtCall(5)'
  BY <1>9
<1>49. AtCall(5) /\ GoOn(Parent, <<>>) => AtCall(6)'
  BY <1>10
<1>50. AtCall(6) /\ GoOn(Parent, <<>>) => AtCall(7)'
  BY <1>11
<1>51. AtCall(7) /\ GoOn(Parent, <<>>) => AtCall(8)'
  BY <1>12
<1>52. AtCall(8) /\ GoOn(Parent, <<>>) => AtCall(9)'
  BY <1>13
<1>53. AtCall(9) /\ GoOn(Parent, <<>>) => AtCall(10)'
  BY <1>14
<1>54. AtCall(10) /\ GoOn(Parent, <<>>) => AtCall(11)'
  BY <1>15
<1>55. AtCall(11) /\ GoOn(Parent, <<>>) => AtCall(12)'
  BY <1>16
<1>56. AtCall(12) /\ GoOn(Parent, <<>>) => AtCall(13)'
  BY <1>17
<1>57. AtCall(13) /\ GoOn(Parent, <<>>) => AtCall(14)'
  BY <1>18
<1>. QED
  BY <1>20, <1>25, <1>26, <1>27, <1>28, <1>29, <1>30, <1>31, <1>32, <1>33, <1>34, <1>35, <1>36, <1>37, <1>38, <1>45, <1>46, <1>47, <1>48, <1>49, <1>50, <1>51, <1>52, <1>53, <1>54, <1>55, <1>56, <1>57, Zenon

LEMMA At_2_6 ==
    ASSUME Base, UNCHANGED program, program = "2_6", Running(Parent)
    PROVE  /\ Left(Main(program), 1) = Main(program)
           /\ AtCall(1) => Now(Parent) = OpenFile(FALSE, <<Exit(-2)>>)
           /\ AtCall(2) => Now(Parent) = Dup(<<WriteFile(Text("oldfd", 2), <<>>), Exit(-3)>>)
           /\ AtCall(3) => Now(Parent) = WriteFile(Text("newfd", 2), <<>>)
           /\ AtCall(4) => Now(Parent) = WriteFile(Text("oldfd", 2), <<>>)
           /\ AtCall(5) => Now(Parent) = Exit(0)
           /\ AtCall(1) /\ GoOn(Parent, <<>>) => AtCall(2)'
           /\ AtCall(2) /\ GoOn(Parent, <<>>) => AtCall(3)'
           /\ AtCall(3) /\ GoOn(Parent, <<>>) => AtCall(4)'
           /\ AtCall(4) /\ GoOn(Parent, <<>>) => AtCall(5)'
<1> DEFINE c1 == OpenFile(FALSE, <<Exit(-2)>>)
           c2 == Dup(<<WriteFile(Text("oldfd", 2), <<>>), Exit(-3)>>)
           c3 == WriteFile(Text("newfd", 2), <<>>)
           c4 == WriteFile(Text("oldfd", 2), <<>>)
           c5 == Exit(0)
<1>1. Main_2_6 = <<c1, c2, c3, c4, c5>>
  BY DEF Main_2_6
<1>. HIDE DEF c1, c2, c3, c4, c5
<1>2. /\ Len(Main_2_6) = 5
      /\ Main_2_6[1] = c1
      /\ Main_2_6[2] = c2
      /\ Main_2_6[3] = c3
      /\ Main_2_6[4] = c4
      /\ Main_2_6[5] = c5
  BY <1>1
<1>3. Main(program) = Main_2_6
  BY DEF Main
<1>4. Len(Main(program)) = 5
  BY <1>2, <1>3
<1>5. \A k \in 1 .. 5 : AtCall(k) =>
         /\ Now(Parent) = Main_2_6[k]
         /\ GoOn(Parent, <<>>) => AtCall(k + 1)'
         /\ GoOn(Parent, <<Now(Parent)>>) => AtCall(k)'
  BY <1>3, <1>4, AtCalls
<1>6. AtCall(1) =>
         /\ Now(Parent) = c1
         /\ GoOn(Parent, <<>>) => AtCall(2)'
  <2>1. 1 \in 1 .. 5 /\ 1 + 1 = 2
    OBVIOUS
  <2>. QED
    BY <1>2, <1>5, <2>1
<1>7. AtCall(2) =>
         /\ Now(Parent) = c2
         /\ GoOn(Parent, <<>>) => AtCall(3)'
  <2>1. 2 \in 1 .. 5 /\ 2 + 1 = 3
    OBVIOUS
  <2>. QED
    BY <1>2, <1>5, <2>1
<1>8. AtCall(3) =>
         /\ Now(Parent) = c3
         /\ GoOn(Parent, <<>>) => AtCall(4)'
  <2>1. 3 \in 1 .. 5 /\ 3 + 1 = 4
    OBVIOUS
  <2>. QED
    BY <1>2, <1>5, <2>1
<1>9. AtCall(4) =>
         /\ Now(Parent) = c4
         /\ GoOn(Parent, <<>>) => AtCall(5)'
  <2>1. 4 \in 1 .. 5 /\ 4 + 1 = 5
    OBVIOUS
  <2>. QED
    BY <1>2, <1>5, <2>1
<1>10. AtCall(5) =>
         /\ Now(Parent) = c5
  <2>1. 5 \in 1 .. 5 /\ 5 + 1 = 6
    OBVIOUS
  <2>. QED
    BY <1>2, <1>5, <2>1
<1>11. Left(Main(program), 1) = Main(program)
  BY <1>3, Start_2_6, SubSeqFull DEF Left, Starts
<1>16. AtCall(1) => Now(Parent) = OpenFile(FALSE, <<Exit(-2)>>)
  BY <1>6, Zenon DEF c1
<1>17. AtCall(2) => Now(Parent) = Dup(<<WriteFile(Text("oldfd", 2), <<>>), Exit(-3)>>)
  BY <1>7, Zenon DEF c2
<1>18. AtCall(3) => Now(Parent) = WriteFile(Text("newfd", 2), <<>>)
  BY <1>8, Zenon DEF c3
<1>19. AtCall(4) => Now(Parent) = WriteFile(Text("oldfd", 2), <<>>)
  BY <1>9, Zenon DEF c4
<1>20. AtCall(5) => Now(Parent) = Exit(0)
  BY <1>10, Zenon DEF c5
<1>36. AtCall(1) /\ GoOn(Parent, <<>>) => AtCall(2)'
  BY <1>6
<1>37. AtCall(2) /\ GoOn(Parent, <<>>) => AtCall(3)'
  BY <1>7
<1>38. AtCall(3) /\ GoOn(Parent, <<>>) => AtCall(4)'
  BY <1>8
<1>39. AtCall(4) /\ GoOn(Parent, <<>>) => AtCall(5)'
  BY <1>9
<1>. QED
  BY <1>11, <1>16, <1>17, <1>18, <1>19, <1>20, <1>36, <1>37, <1>38, <1>39, Zenon

LEMMA At_7_9 ==
    ASSUME Base, UNCHANGED program, program = "7_9", Running(Parent)
    PROVE  /\ Left(Main(program), 1) = Main(program)
           /\ AtCall(1) => Now(Parent) = OpenFile(TRUE, <<Exit(-2)>>)
           /\ AtCall(2) => Now(Parent) = WriteFile(Text("Parent", 2), <<Exit(-4)>>)
           /\ AtCall(3) => Now(Parent) = Fork(C1, Child_7_9, FailsMinus1)
           /\ AtCall(4) => Now(Parent) = Wait({C1}, "unsaid", FailsMinus1)
           /\ AtCall(5) => Now(Parent) = Exit(0)
           /\ AtCall(1) /\ GoOn(Parent, <<>>) => AtCall(2)'
           /\ AtCall(2) /\ GoOn(Parent, <<>>) => AtCall(3)'
           /\ AtCall(3) /\ GoOn(Parent, <<>>) => AtCall(4)'
           /\ AtCall(4) /\ GoOn(Parent, <<>>) => AtCall(5)'
<1> DEFINE c1 == OpenFile(TRUE, <<Exit(-2)>>)
           c2 == WriteFile(Text("Parent", 2), <<Exit(-4)>>)
           c3 == Fork(C1, Child_7_9, FailsMinus1)
           c4 == Wait({C1}, "unsaid", FailsMinus1)
           c5 == Exit(0)
<1>1. Main_7_9 = <<c1, c2, c3, c4, c5>>
  BY DEF Main_7_9
<1>. HIDE DEF c1, c2, c3, c4, c5
<1>2. /\ Len(Main_7_9) = 5
      /\ Main_7_9[1] = c1
      /\ Main_7_9[2] = c2
      /\ Main_7_9[3] = c3
      /\ Main_7_9[4] = c4
      /\ Main_7_9[5] = c5
  BY <1>1
<1>3. Main(program) = Main_7_9
  BY DEF Main
<1>4. Len(Main(program)) = 5
  BY <1>2, <1>3
<1>5. \A k \in 1 .. 5 : AtCall(k) =>
         /\ Now(Parent) = Main_7_9[k]
         /\ GoOn(Parent, <<>>) => AtCall(k + 1)'
         /\ GoOn(Parent, <<Now(Parent)>>) => AtCall(k)'
  BY <1>3, <1>4, AtCalls
<1>6. AtCall(1) =>
         /\ Now(Parent) = c1
         /\ GoOn(Parent, <<>>) => AtCall(2)'
  <2>1. 1 \in 1 .. 5 /\ 1 + 1 = 2
    OBVIOUS
  <2>. QED
    BY <1>2, <1>5, <2>1
<1>7. AtCall(2) =>
         /\ Now(Parent) = c2
         /\ GoOn(Parent, <<>>) => AtCall(3)'
  <2>1. 2 \in 1 .. 5 /\ 2 + 1 = 3
    OBVIOUS
  <2>. QED
    BY <1>2, <1>5, <2>1
<1>8. AtCall(3) =>
         /\ Now(Parent) = c3
         /\ GoOn(Parent, <<>>) => AtCall(4)'
  <2>1. 3 \in 1 .. 5 /\ 3 + 1 = 4
    OBVIOUS
  <2>. QED
    BY <1>2, <1>5, <2>1
<1>9. AtCall(4) =>
         /\ Now(Parent) = c4
         /\ GoOn(Parent, <<>>) => AtCall(5)'
  <2>1. 4 \in 1 .. 5 /\ 4 + 1 = 5
    OBVIOUS
  <2>. QED
    BY <1>2, <1>5, <2>1
<1>10. AtCall(5) =>
         /\ Now(Parent) = c5
  <2>1. 5 \in 1 .. 5 /\ 5 + 1 = 6
    OBVIOUS
  <2>. QED
    BY <1>2, <1>5, <2>1
<1>11. Left(Main(program), 1) = Main(program)
  BY <1>3, Start_7_9, SubSeqFull DEF Left, Starts
<1>16. AtCall(1) => Now(Parent) = OpenFile(TRUE, <<Exit(-2)>>)
  BY <1>6, Zenon DEF c1
<1>17. AtCall(2) => Now(Parent) = WriteFile(Text("Parent", 2), <<Exit(-4)>>)
  BY <1>7, Zenon DEF c2
<1>18. AtCall(3) => Now(Parent) = Fork(C1, Child_7_9, FailsMinus1)
  BY <1>8, Zenon DEF c3
<1>19. AtCall(4) => Now(Parent) = Wait({C1}, "unsaid", FailsMinus1)
  BY <1>9, Zenon DEF c4
<1>20. AtCall(5) => Now(Parent) = Exit(0)
  BY <1>10, Zenon DEF c5
<1>36. AtCall(1) /\ GoOn(Parent, <<>>) => AtCall(2)'
  BY <1>6
<1>37. AtCall(2) /\ GoOn(Parent, <<>>) => AtCall(3)'
  BY <1>7
<1>38. AtCall(3) /\ GoOn(Parent, <<>>) => AtCall(4)'
  BY <1>8
<1>39. AtCall(4) /\ GoOn(Parent, <<>>) => AtCall(5)'
  BY <1>9
<1>. QED
  BY <1>11, <1>16, <1>17, <1>18, <1>19, <1>20, <1>36, <1>37, <1>38, <1>39, Zenon

LEMMA At_11_1 ==
    ASSUME Base, UNCHANGED program, program = "11_1", Running(Parent)
    PROVE  /\ Left(Main(program), 1) = Main(program)
           /\ AtCall(1) => Now(Parent) = OpenPipe
           /\ AtCall(2) => Now(Parent) = WritePipe(20, Fails)
           /\ AtCall(3) => Now(Parent) = CloseEnd("write")
           /\ AtCall(4) => Now(Parent) = ReadPipe(6, TRUE)
           /\ AtCall(5) => Now(Parent) = CloseEnd("read")
           /\ AtCall(6) => Now(Parent) = Exit(0)
           /\ AtCall(1) /\ GoOn(Parent, <<>>) => AtCall(2)'
           /\ AtCall(2) /\ GoOn(Parent, <<>>) => AtCall(3)'
           /\ AtCall(3) /\ GoOn(Parent, <<>>) => AtCall(4)'
           /\ AtCall(4) /\ GoOn(Parent, <<>>) => AtCall(5)'
           /\ AtCall(5) /\ GoOn(Parent, <<>>) => AtCall(6)'
           /\ AtCall(4) /\ GoOn(Parent, <<Now(Parent)>>) => AtCall(4)'
<1> DEFINE c1 == OpenPipe
           c2 == WritePipe(20, Fails)
           c3 == CloseEnd("write")
           c4 == ReadPipe(6, TRUE)
           c5 == CloseEnd("read")
           c6 == Exit(0)
<1>1. Main_11_1 = <<c1, c2, c3, c4, c5, c6>>
  BY DEF Main_11_1
<1>. HIDE DEF c1, c2, c3, c4, c5, c6
<1>2. /\ Len(Main_11_1) = 6
      /\ Main_11_1[1] = c1
      /\ Main_11_1[2] = c2
      /\ Main_11_1[3] = c3
      /\ Main_11_1[4] = c4
      /\ Main_11_1[5] = c5
      /\ Main_11_1[6] = c6
  BY <1>1
<1>3. Main(program) = Main_11_1
  BY DEF Main
<1>4. Len(Main(program)) = 6
  BY <1>2, <1>3
<1>5. \A k \in 1 .. 6 : AtCall(k) =>
         /\ Now(Parent) = Main_11_1[k]
         /\ GoOn(Parent, <<>>) => AtCall(k + 1)'
         /\ GoOn(Parent, <<Now(Parent)>>) => AtCall(k)'
  BY <1>3, <1>4, AtCalls
<1>6. AtCall(1) =>
         /\ Now(Parent) = c1
         /\ GoOn(Parent, <<>>) => AtCall(2)'
  <2>1. 1 \in 1 .. 6 /\ 1 + 1 = 2
    OBVIOUS
  <2>. QED
    BY <1>2, <1>5, <2>1
<1>7. AtCall(2) =>
         /\ Now(Parent) = c2
         /\ GoOn(Parent, <<>>) => AtCall(3)'
  <2>1. 2 \in 1 .. 6 /\ 2 + 1 = 3
    OBVIOUS
  <2>. QED
    BY <1>2, <1>5, <2>1
<1>8. AtCall(3) =>
         /\ Now(Parent) = c3
         /\ GoOn(Parent, <<>>) => AtCall(4)'
  <2>1. 3 \in 1 .. 6 /\ 3 + 1 = 4
    OBVIOUS
  <2>. QED
    BY <1>2, <1>5, <2>1
<1>9. AtCall(4) =>
         /\ Now(Parent) = c4
         /\ GoOn(Parent, <<>>) => AtCall(5)'
         /\ GoOn(Parent, <<Now(Parent)>>) => AtCall(4)'
  <2>1. 4 \in 1 .. 6 /\ 4 + 1 = 5
    OBVIOUS
  <2>. QED
    BY <1>2, <1>5, <2>1
<1>10. AtCall(5) =>
         /\ Now(Parent) = c5
         /\ GoOn(Parent, <<>>) => AtCall(6)'
  <2>1. 5 \in 1 .. 6 /\ 5 + 1 = 6
    OBVIOUS
  <2>. QED
    BY <1>2, <1>5, <2>1
<1>11. AtCall(6) =>
         /\ Now(Parent) = c6
  <2>1. 6 \in 1 .. 6 /\ 6 + 1 = 7
    OBVIOUS
  <2>. QED
    BY <1>2, <1>5, <2>1
<1>12. Left(Main(program), 1) = Main(program)
  BY <1>3, Start_11_1, SubSeqFull DEF Left, Starts
<1>17. AtCall(1) => Now(Parent) = OpenPipe
  BY <1>6, Zenon DEF c1
<1>18. AtCall(2) => Now(Parent) = WritePipe(20, Fails)
  BY <1>7, Zenon DEF c2
<1>19. AtCall(3) => Now(Parent) = CloseEnd("write")
  BY <1>8, Zenon DEF c3
<1>20. AtCall(4) => Now(Parent) = ReadPipe(6, TRUE)
  BY <1>9, Zenon DEF c4
<1>21. AtCall(5) => Now(Parent) = CloseEnd("read")
  BY <1>10, Zenon DEF c5
<1>22. AtCall(6) => Now(Parent) = Exit(0)
  BY <1>11, Zenon DEF c6
<1>37. AtCall(1) /\ GoOn(Parent, <<>>) => AtCall(2)'
  BY <1>6
<1>38. AtCall(2) /\ GoOn(Parent, <<>>) => AtCall(3)'
  BY <1>7
<1>39. AtCall(3) /\ GoOn(Parent, <<>>) => AtCall(4)'
  BY <1>8
<1>40. AtCall(4) /\ GoOn(Parent, <<>>) => AtCall(5)'
  BY <1>9
<1>41. AtCall(5) /\ GoOn(Parent, <<>>) => AtCall(6)'
  BY <1>10
<1>42. AtCall(4) /\ GoOn(Parent, <<Now(Parent)>>) => AtCall(4)'
  BY <1>9
<1>. QED
  BY <1>12, <1>17, <1>18, <1>19, <1>20, <1>21, <1>22, <1>37, <1>38, <1>39, <1>40, <1>41, <1>42, Zenon

LEMMA At_11_2 ==
    ASSUME Base, UNCHANGED program, program = "11_2", Running(Parent)
    PROVE  /\ Left(Main(program), 1) = Main(program)
           /\ AtCall(1) => Now(Parent) = OpenPipe
           /\ AtCall(2) => Now(Parent) = Fork(C1, Child_11_2, Fails)
           /\ AtCall(3) => Now(Parent) = CloseEnd("read")
           /\ AtCall(4) => Now(Parent) = WritePipe(15, Fails)
           /\ AtCall(5) => Now(Parent) = CloseEnd("write")
           /\ AtCall(6) => Now(Parent) = Wait(Children, "unsaid", Fails)
           /\ AtCall(7) => Now(Parent) = Exit(0)
           /\ AtCall(1) /\ GoOn(Parent, <<>>) => AtCall(2)'
           /\ AtCall(2) /\ GoOn(Parent, <<>>) => AtCall(3)'
           /\ AtCall(3) /\ GoOn(Parent, <<>>) => AtCall(4)'
           /\ AtCall(4) /\ GoOn(Parent, <<>>) => AtCall(5)'
           /\ AtCall(5) /\ GoOn(Parent, <<>>) => AtCall(6)'
           /\ AtCall(6) /\ GoOn(Parent, <<>>) => AtCall(7)'
<1> DEFINE c1 == OpenPipe
           c2 == Fork(C1, Child_11_2, Fails)
           c3 == CloseEnd("read")
           c4 == WritePipe(15, Fails)
           c5 == CloseEnd("write")
           c6 == Wait(Children, "unsaid", Fails)
           c7 == Exit(0)
<1>1. Main_11_2 = <<c1, c2, c3, c4, c5, c6, c7>>
  BY DEF Main_11_2
<1>. HIDE DEF c1, c2, c3, c4, c5, c6, c7
<1>2. /\ Len(Main_11_2) = 7
      /\ Main_11_2[1] = c1
      /\ Main_11_2[2] = c2
      /\ Main_11_2[3] = c3
      /\ Main_11_2[4] = c4
      /\ Main_11_2[5] = c5
      /\ Main_11_2[6] = c6
      /\ Main_11_2[7] = c7
  BY <1>1
<1>3. Main(program) = Main_11_2
  BY DEF Main
<1>4. Len(Main(program)) = 7
  BY <1>2, <1>3
<1>5. \A k \in 1 .. 7 : AtCall(k) =>
         /\ Now(Parent) = Main_11_2[k]
         /\ GoOn(Parent, <<>>) => AtCall(k + 1)'
         /\ GoOn(Parent, <<Now(Parent)>>) => AtCall(k)'
  BY <1>3, <1>4, AtCalls
<1>6. AtCall(1) =>
         /\ Now(Parent) = c1
         /\ GoOn(Parent, <<>>) => AtCall(2)'
  <2>1. 1 \in 1 .. 7 /\ 1 + 1 = 2
    OBVIOUS
  <2>. QED
    BY <1>2, <1>5, <2>1
<1>7. AtCall(2) =>
         /\ Now(Parent) = c2
         /\ GoOn(Parent, <<>>) => AtCall(3)'
  <2>1. 2 \in 1 .. 7 /\ 2 + 1 = 3
    OBVIOUS
  <2>. QED
    BY <1>2, <1>5, <2>1
<1>8. AtCall(3) =>
         /\ Now(Parent) = c3
         /\ GoOn(Parent, <<>>) => AtCall(4)'
  <2>1. 3 \in 1 .. 7 /\ 3 + 1 = 4
    OBVIOUS
  <2>. QED
    BY <1>2, <1>5, <2>1
<1>9. AtCall(4) =>
         /\ Now(Parent) = c4
         /\ GoOn(Parent, <<>>) => AtCall(5)'
  <2>1. 4 \in 1 .. 7 /\ 4 + 1 = 5
    OBVIOUS
  <2>. QED
    BY <1>2, <1>5, <2>1
<1>10. AtCall(5) =>
         /\ Now(Parent) = c5
         /\ GoOn(Parent, <<>>) => AtCall(6)'
  <2>1. 5 \in 1 .. 7 /\ 5 + 1 = 6
    OBVIOUS
  <2>. QED
    BY <1>2, <1>5, <2>1
<1>11. AtCall(6) =>
         /\ Now(Parent) = c6
         /\ GoOn(Parent, <<>>) => AtCall(7)'
  <2>1. 6 \in 1 .. 7 /\ 6 + 1 = 7
    OBVIOUS
  <2>. QED
    BY <1>2, <1>5, <2>1
<1>12. AtCall(7) =>
         /\ Now(Parent) = c7
  <2>1. 7 \in 1 .. 7 /\ 7 + 1 = 8
    OBVIOUS
  <2>. QED
    BY <1>2, <1>5, <2>1
<1>13. Left(Main(program), 1) = Main(program)
  BY <1>3, Start_11_2, SubSeqFull DEF Left, Starts
<1>18. AtCall(1) => Now(Parent) = OpenPipe
  BY <1>6, Zenon DEF c1
<1>19. AtCall(2) => Now(Parent) = Fork(C1, Child_11_2, Fails)
  BY <1>7, Zenon DEF c2
<1>20. AtCall(3) => Now(Parent) = CloseEnd("read")
  BY <1>8, Zenon DEF c3
<1>21. AtCall(4) => Now(Parent) = WritePipe(15, Fails)
  BY <1>9, Zenon DEF c4
<1>22. AtCall(5) => Now(Parent) = CloseEnd("write")
  BY <1>10, Zenon DEF c5
<1>23. AtCall(6) => Now(Parent) = Wait(Children, "unsaid", Fails)
  BY <1>11, Zenon DEF c6
<1>24. AtCall(7) => Now(Parent) = Exit(0)
  BY <1>12, Zenon DEF c7
<1>38. AtCall(1) /\ GoOn(Parent, <<>>) => AtCall(2)'
  BY <1>6
<1>39. AtCall(2) /\ GoOn(Parent, <<>>) => AtCall(3)'
  BY <1>7
<1>40. AtCall(3) /\ GoOn(Parent, <<>>) => AtCall(4)'
  BY <1>8
<1>41. AtCall(4) /\ GoOn(Parent, <<>>) => AtCall(5)'
  BY <1>9
<1>42. AtCall(5) /\ GoOn(Parent, <<>>) => AtCall(6)'
  BY <1>10
<1>43. AtCall(6) /\ GoOn(Parent, <<>>) => AtCall(7)'
  BY <1>11
<1>. QED
  BY <1>13, <1>18, <1>19, <1>20, <1>21, <1>22, <1>23, <1>24, <1>38, <1>39, <1>40, <1>41, <1>42, <1>43, Zenon

LEMMA At_11_3 ==
    ASSUME Base, UNCHANGED program, program = "11_3", Running(Parent)
    PROVE  /\ Left(Main(program), 1) = Main(program)
           /\ AtCall(1) => Now(Parent) = Ignore("PIPE")
           /\ AtCall(2) => Now(Parent) = OpenPipe
           /\ AtCall(3) => Now(Parent) = Fork(C1, Child_11_3, Fails)
           /\ AtCall(4) => Now(Parent) = CloseEnd("read")
           /\ AtCall(5) => Now(Parent) = WritePipe(4, <<>>)
           /\ AtCall(6) => Now(Parent) = WritePipe(4, <<>>)
           /\ AtCall(7) => Now(Parent) = CloseEnd("write")
           /\ AtCall(8) => Now(Parent) = Wait(Children, "unsaid", Fails)
           /\ AtCall(9) => Now(Parent) = Exit(0)
           /\ AtCall(1) /\ GoOn(Parent, <<>>) => AtCall(2)'
           /\ AtCall(2) /\ GoOn(Parent, <<>>) => AtCall(3)'
           /\ AtCall(3) /\ GoOn(Parent, <<>>) => AtCall(4)'
           /\ AtCall(4) /\ GoOn(Parent, <<>>) => AtCall(5)'
           /\ AtCall(5) /\ GoOn(Parent, <<>>) => AtCall(6)'
           /\ AtCall(6) /\ GoOn(Parent, <<>>) => AtCall(7)'
           /\ AtCall(7) /\ GoOn(Parent, <<>>) => AtCall(8)'
           /\ AtCall(8) /\ GoOn(Parent, <<>>) => AtCall(9)'
<1> DEFINE c1 == Ignore("PIPE")
           c2 == OpenPipe
           c3 == Fork(C1, Child_11_3, Fails)
           c4 == CloseEnd("read")
           c5 == WritePipe(4, <<>>)
           c6 == WritePipe(4, <<>>)
           c7 == CloseEnd("write")
           c8 == Wait(Children, "unsaid", Fails)
           c9 == Exit(0)
<1>1. Main_11_3 = <<c1, c2, c3, c4, c5, c6, c7, c8, c9>>
  BY DEF Main_11_3
<1>. HIDE DEF c1, c2, c3, c4, c5, c6, c7, c8, c9
<1>2. /\ Len(Main_11_3) = 9
      /\ Main_11_3[1] = c1
      /\ Main_11_3[2] = c2
      /\ Main_11_3[3] = c3
      /\ Main_11_3[4] = c4
      /\ Main_11_3[5] = c5
      /\ Main_11_3[6] = c6
      /\ Main_11_3[7] = c7
      /\ Main_11_3[8] = c8
      /\ Main_11_3[9] = c9
  BY <1>1
<1>3. Main(program) = Main_11_3
  BY DEF Main
<1>4. Len(Main(program)) = 9
  BY <1>2, <1>3
<1>5. \A k \in 1 .. 9 : AtCall(k) =>
         /\ Now(Parent) = Main_11_3[k]
         /\ GoOn(Parent, <<>>) => AtCall(k + 1)'
  BY <1>3, <1>4, AtCalls
<1>6. AtCall(1) =>
         /\ Now(Parent) = c1
         /\ GoOn(Parent, <<>>) => AtCall(2)'
  <2>1. 1 \in 1 .. 9 /\ 1 + 1 = 2
    OBVIOUS
  <2>. QED
    BY <1>2, <1>5, <2>1
<1>7. AtCall(2) =>
         /\ Now(Parent) = c2
         /\ GoOn(Parent, <<>>) => AtCall(3)'
  <2>1. 2 \in 1 .. 9 /\ 2 + 1 = 3
    OBVIOUS
  <2>. QED
    BY <1>2, <1>5, <2>1
<1>8. AtCall(3) =>
         /\ Now(Parent) = c3
         /\ GoOn(Parent, <<>>) => AtCall(4)'
  <2>1. 3 \in 1 .. 9 /\ 3 + 1 = 4
    OBVIOUS
  <2>. QED
    BY <1>2, <1>5, <2>1
<1>9. AtCall(4) =>
         /\ Now(Parent) = c4
         /\ GoOn(Parent, <<>>) => AtCall(5)'
  <2>1. 4 \in 1 .. 9 /\ 4 + 1 = 5
    OBVIOUS
  <2>. QED
    BY <1>2, <1>5, <2>1
<1>10. AtCall(5) =>
         /\ Now(Parent) = c5
         /\ GoOn(Parent, <<>>) => AtCall(6)'
  <2>1. 5 \in 1 .. 9 /\ 5 + 1 = 6
    OBVIOUS
  <2>. QED
    BY <1>2, <1>5, <2>1
<1>11. AtCall(6) =>
         /\ Now(Parent) = c6
         /\ GoOn(Parent, <<>>) => AtCall(7)'
  <2>1. 6 \in 1 .. 9 /\ 6 + 1 = 7
    OBVIOUS
  <2>. QED
    BY <1>2, <1>5, <2>1
<1>12. AtCall(7) =>
         /\ Now(Parent) = c7
         /\ GoOn(Parent, <<>>) => AtCall(8)'
  <2>1. 7 \in 1 .. 9 /\ 7 + 1 = 8
    OBVIOUS
  <2>. QED
    BY <1>2, <1>5, <2>1
<1>13. AtCall(8) =>
         /\ Now(Parent) = c8
         /\ GoOn(Parent, <<>>) => AtCall(9)'
  <2>1. 8 \in 1 .. 9 /\ 8 + 1 = 9
    OBVIOUS
  <2>. QED
    BY <1>2, <1>5, <2>1
<1>14. AtCall(9) =>
         /\ Now(Parent) = c9
  <2>1. 9 \in 1 .. 9 /\ 9 + 1 = 10
    OBVIOUS
  <2>. QED
    BY <1>2, <1>5, <2>1
<1>20. Left(Main(program), 1) = Main(program)
  BY <1>3, Start_11_3, SubSeqFull DEF Left, Starts
<1>21. AtCall(1) => Now(Parent) = Ignore("PIPE")
  BY <1>6, Zenon DEF c1
<1>22. AtCall(2) => Now(Parent) = OpenPipe
  BY <1>7, Zenon DEF c2
<1>23. AtCall(3) => Now(Parent) = Fork(C1, Child_11_3, Fails)
  BY <1>8, Zenon DEF c3
<1>24. AtCall(4) => Now(Parent) = CloseEnd("read")
  BY <1>9, Zenon DEF c4
<1>25. AtCall(5) => Now(Parent) = WritePipe(4, <<>>)
  BY <1>10, Zenon DEF c5
<1>26. AtCall(6) => Now(Parent) = WritePipe(4, <<>>)
  BY <1>11, Zenon DEF c6
<1>27. AtCall(7) => Now(Parent) = CloseEnd("write")
  BY <1>12, Zenon DEF c7
<1>28. AtCall(8) => Now(Parent) = Wait(Children, "unsaid", Fails)
  BY <1>13, Zenon DEF c8
<1>29. AtCall(9) => Now(Parent) = Exit(0)
  BY <1>14, Zenon DEF c9
<1>31. AtCall(1) /\ GoOn(Parent, <<>>) => AtCall(2)'
  BY <1>6
<1>32. AtCall(2) /\ GoOn(Parent, <<>>) => AtCall(3)'
  BY <1>7
<1>33. AtCall(3) /\ GoOn(Parent, <<>>) => AtCall(4)'
  BY <1>8
<1>34. AtCall(4) /\ GoOn(Parent, <<>>) => AtCall(5)'
  BY <1>9
<1>35. AtCall(5) /\ GoOn(Parent, <<>>) => AtCall(6)'
  BY <1>10
<1>36. AtCall(6) /\ GoOn(Parent, <<>>) => AtCall(7)'
  BY <1>11
<1>37. AtCall(7) /\ GoOn(Parent, <<>>) => AtCall(8)'
  BY <1>12
<1>38. AtCall(8) /\ GoOn(Parent, <<>>) => AtCall(9)'
  BY <1>13
<1>. QED
  BY <1>20, <1>21, <1>22, <1>23, <1>24, <1>25, <1>26, <1>27, <1>28, <1>29,
     <1>31, <1>32, <1>33, <1>34, <1>35, <1>36, <1>37, <1>38, Zenon

-----------------------------------------------------------------------------
(* 2_2 has the whole file in its buffer                                    *)

LEMMA MoreBytes ==
    ASSUME NEW S, NEW s \in Seq(S), NEW at \in 0 .. Len(s), NEW n \in Nat, at + n <= Len(s)
    PROVE  SubSeq(s, 1, at) \o SubSeq(s, at + 1, at + n) = SubSeq(s, 1, at + n)
<1>1. 1 \in 1 .. Len(s) + 1 /\ at \in 1 - 1 .. Len(s) /\ at + n \in at .. Len(s)
  OBVIOUS
<1>. QED
  BY <1>1, ConcatAdjacentSubSeq

(* As long as a read starts within the room, it appends.                   *)
LEMMA ReadAppends ==
    ASSUME NEW p \in Procs, DoReadFile(p), buffer \in Seq(Bytes), file \in Seq(Bytes),
           offset \in Nat, Now(p).bytes \in Nat,
           Now(p).room \in Nat, Len(buffer) <= Now(p).room
    PROVE  LET n == Min({Now(p).bytes, Max({0, Len(file) - offset})})
           IN buffer' = buffer \o SubSeq(file, offset + 1, offset + n)
<1> DEFINE n == Min({Now(p).bytes, Max({0, Len(file) - offset})})
           new == SubSeq(file, offset + 1, offset + n)
<1>1. Places(Now(p).room) = {Len(buffer)}
  BY DEF Places
<1>2. buffer' = SubSeq(buffer, 1, Len(buffer)) \o new \o SubSeq(buffer, Len(buffer) + n + 1, Len(buffer))
  BY <1>1 DEF DoReadFile
<1>3. n \in Nat /\ (n = 0 \/ offset + n <= Len(file)) /\ Len(file) \in Nat
  BY ReadSize, LenProperties
<1>. HIDE DEF n
<1>4. new \in Seq(Bytes)
  BY <1>3
<1>. HIDE DEF new
<1>5. SubSeq(buffer, 1, Len(buffer)) = buffer
  BY SubSeqFull
<1>6. SubSeq(buffer, Len(buffer) + n + 1, Len(buffer)) = <<>>
  BY <1>3, LenProperties, SubSeqEmpty
<1>7. buffer \o new \o <<>> = buffer \o new
  BY <1>4, ConcatEmptySeq, ConcatProperties
<1>. QED
  BY <1>2, <1>5, <1>6, <1>7, Zenon DEF new, n

LEMMA ReadsStep ==
    ASSUME Base, [Next]_vars, program = "2_2", original \in Seq(Bytes), Reads
    PROVE  Reads'
<1>2. UNCHANGED <<program, original>>
  BY DEF Next, vars
<1>. SUFFICES ASSUME Len(original) <= SIZE_BUF_STORAGE
              PROVE  Reads'
  BY <1>2 DEF Reads
<1>0. /\ \A c \in Children : run[c] = "none" /\ c \in Procs \ {Parent}
      /\ Parent \in Procs
  BY ProcessesAssumption DEF Reads, Alone, Procs
<1>1. Running(Parent) =>
          \/ Escaping
          \/ AtCall(1) /\ file = original /\ buffer = <<>>
          \/ AtCall(2) /\ file = original /\ offset <= Len(original)
             /\ buffer = SubSeq(original, 1, offset)
          \/ AtCall(3) /\ file = original /\ buffer = original
  BY DEF Reads, Alone
<1>3. Running(Parent) =>
          /\ AtCall(1) => Now(Parent) = OpenFile(FALSE, <<Exit(-10)>>)
          /\ AtCall(2) => Now(Parent) = ReadFile(10, SIZE_BUF_STORAGE, TRUE, <<Exit(-5)>>)
          /\ AtCall(3) => Now(Parent) = Exit(0)
  BY <1>2, At_2_2, Zenon
<1>4. Running(Parent) => Now(Parent).op \notin {"fork", "suspend"}
  BY <1>1, <1>3 DEF Escaping, OpenFile, ReadFile, Exit
<1>11. CASE Overrun /\ Clobbered(Parent)
  <2>1. Running(Parent) /\ Len(buffer) > SIZE_BUF_STORAGE
    BY <1>11 DEF Overrun, Clobbered
  <2>2. Escaping
    <3>1. Len(original) \in Nat /\ offset \in Nat
      BY DEF Base, FileTyped
    <3>2. offset <= Len(original) => Len(SubSeq(original, 1, offset)) = offset
      BY <3>1, SubSeqProperties
    <3>. QED
      BY <1>1, <2>1, <3>1, <3>2 DEF SIZE_BUF_STORAGE
  <2>3. "fail" \notin DOMAIN Now(Parent)
    BY <1>0, <2>1, <2>2, NowTyped DEF Escaping, Fields
  <2>4. Dies(Parent)
    BY <1>11, <2>1, <2>3, SignalsAre DEF Clobbered, Dies
  <2>. QED
    BY <1>0, <1>2, <2>4, DeathFails DEF Reads, Alone
<1>. SUFFICES ASSUME ~(Overrun /\ Clobbered(Parent))
              PROVE  Reads'
  BY <1>11
<1>5. /\ \A c \in Children : run'[c] = "none"
      /\ \/ Same
         \/ Running(Parent) /\ ~Running(Parent)' /\ ~Succeeded(Parent)'
         \/ /\ Running(Parent) /\ Now(Parent).op = "exit" /\ ~Escaping
            /\ ~Running(Parent)' /\ UNCHANGED <<faults, pipe, written, got, disk>>
         \/ /\ Moves(Parent) /\ Running(Parent)'
            /\ Now(Parent).op # "exit" /\ UNCHANGED run
  BY <1>0, <1>4, AloneStep
<1>6. CASE Same
  <2>1. /\ UNCHANGED <<original, file, offset, buffer>>
        /\ (AtCall(1)' <=> AtCall(1)) /\ (AtCall(2)' <=> AtCall(2)) /\ (AtCall(3)' <=> AtCall(3))
        /\ (Running(Parent)' <=> Running(Parent)) /\ (Succeeded(Parent)' <=> Succeeded(Parent))
        /\ Escaping' <=> Escaping
    BY <1>6, SameKeeps
  <2>2. (buffer = original)' <=> buffer = original
    BY <2>1
  <2>3. (file = original)' <=> file = original
    BY <2>1
  <2>4. (buffer = <<>>)' <=> buffer = <<>>
    BY <2>1
  <2>5. (offset <= Len(original) /\ buffer = SubSeq(original, 1, offset))'
           <=> offset <= Len(original) /\ buffer = SubSeq(original, 1, offset)
    BY <2>1
  <2>. QED
    BY <1>5, <2>1, <2>2, <2>3, <2>4, <2>5, Zenon DEF Reads, Alone
<1>7. CASE ~Running(Parent)' /\ ~Succeeded(Parent)'
  BY <1>5, <1>7 DEF Reads, Alone
<1>8. CASE /\ Running(Parent) /\ Now(Parent).op = "exit" /\ ~Escaping
           /\ ~Running(Parent)' /\ UNCHANGED <<faults, pipe, written, got, disk>>
  <2>1. buffer = original
    BY <1>1, <1>3, <1>8 DEF OpenFile, ReadFile
  <2>2. (buffer = original)'
    BY <1>2, <1>8, <2>1 DEF disk
  <2>. QED
    BY <1>5, <1>8, <2>2 DEF Reads, Alone
<1>9. CASE Moves(Parent) /\ Running(Parent)' /\ Now(Parent).op # "exit" /\ UNCHANGED run
  <2>0. Running(Parent) /\ ~Escaping /\ ~Succeeded(Parent)'
    BY <1>9 DEF Moves, Escaping, Succeeded, Running
  <2>1. SUFFICES \/ Escaping'
                 \/ (AtCall(2) /\ file = original /\ offset <= Len(original)
                       /\ buffer = SubSeq(original, 1, offset))'
                 \/ (AtCall(3) /\ file = original /\ buffer = original)'
    BY <1>5, <2>0, Zenon DEF Reads, Alone
  <2>2. /\ AtCall(1) /\ GoOn(Parent, <<>>) => AtCall(2)'
        /\ AtCall(2) /\ GoOn(Parent, <<>>) => AtCall(3)'
        /\ AtCall(2) /\ GoOn(Parent, <<Now(Parent)>>) => AtCall(2)'
    BY <1>2, <2>0, At_2_2, Zenon
  <2>3. CASE AtCall(1) /\ file = original /\ buffer = <<>>
    <3>1. Now(Parent).op = "open" /\ Now(Parent).fail = <<Exit(-10)>> /\ Now(Parent).truncate = FALSE
      BY <1>3, <2>0, <2>3 DEF OpenFile
    <3>2. CASE CallFails(Parent)
      BY <3>1, <3>2, ParentFails, BadStatuses
    <3>3. CASE Step(Parent)
      <4>1. DoOpenFile(Parent)
        BY <3>1, <3>3, StepOfCall
      <4>2. offset' = 0 /\ file' = original /\ GoOn(Parent, <<>>) /\ buffer' = <<>>
        BY <2>3, <3>1, <4>1 DEF DoOpenFile
      <4>3. SubSeq(original, 1, 0) = <<>> /\ 0 <= Len(original)
        BY SubSeqEmpty
      <4>. QED
        BY <1>2, <2>2, <2>3, <4>2, <4>3
    <3>. QED
      BY <1>9, <3>1, <3>2, <3>3, MoveOfCall
  <2>4. CASE AtCall(2) /\ file = original /\ offset <= Len(original)
             /\ buffer = SubSeq(original, 1, offset)
    <3>1. /\ Now(Parent).op = "read_file" /\ Now(Parent).fail = <<Exit(-5)>>
          /\ Now(Parent).bytes = 10 /\ Now(Parent).again = TRUE
          /\ Now(Parent).room = SIZE_BUF_STORAGE
      BY <1>3, <2>0, <2>4 DEF ReadFile
    <3>2. CASE CallFails(Parent)
      BY <3>1, <3>2, ParentFails, BadStatuses
    <3>3. CASE Step(Parent)
      <4>0. DoReadFile(Parent)
        BY <3>1, <3>3, StepOfCall
      <4>. DEFINE n == Min({10, Max({0, Len(original) - offset})})
      <4>1. /\ buffer' = buffer \o SubSeq(original, offset + 1, offset + n)
            /\ offset' = offset + n /\ file' = file
            /\ n > 0 => GoOn(Parent, <<Now(Parent)>>)
            /\ ~(n > 0) => GoOn(Parent, <<>>)
        <5>1. buffer \in Seq(Bytes) /\ offset \in Nat /\ Len(original) \in Nat
          BY DEF Base, FileTyped
        <5>2. Len(buffer) <= Now(Parent).room /\ Now(Parent).room \in Nat /\ Now(Parent).bytes \in Nat
          BY <2>4, <3>1, <5>1, SubSeqProperties DEF SIZE_BUF_STORAGE
        <5>3. buffer' = buffer \o SubSeq(original, offset + 1, offset + n)
          BY <1>0, <2>4, <3>1, <4>0, <5>1, <5>2, ReadAppends
        <5>. QED
          BY <2>4, <3>1, <4>0, <5>3 DEF DoReadFile
      <4>2. offset \in 0 .. Len(original) /\ Len(original) \in Nat /\ offset \in Nat
        BY <2>4 DEF Base, FileTyped
      <4>3. /\ n \in Nat
            /\ n = 0 \/ offset + n <= Len(original)
            /\ n = 0 => offset >= Len(original)
        <5>1. \A bytes, size, at \in Nat :
                 LET m == Min({bytes, Max({0, size - at})})
                 IN /\ m \in Nat
                    /\ m = 0 \/ at + m <= size
                    /\ (m = 0 /\ bytes > 0) => at >= size
          BY ReadSize
        <5>2. /\ n \in Nat
              /\ n = 0 \/ offset + n <= Len(original)
              /\ (n = 0 /\ 10 > 0) => offset >= Len(original)
          BY <4>2, <5>1, Zenon
        <5>. QED
          BY <5>2
      <4>. HIDE DEF n
      <4>4. offset + n <= Len(original) /\ buffer' = SubSeq(original, 1, offset')
        BY <2>4, <4>1, <4>2, <4>3, MoreBytes
      <4>5. CASE n > 0
        BY <1>2, <2>2, <2>4, <4>1, <4>2, <4>3, <4>4, <4>5
      <4>6. CASE n = 0
        <5>1. offset' = Len(original)
          BY <4>1, <4>2, <4>3, <4>6
        <5>2. SubSeq(original, 1, Len(original)) = original
          BY SubSeqFull
        <5>. QED
          BY <1>2, <2>2, <2>4, <4>1, <4>4, <4>6, <5>1, <5>2
      <4>. QED
        BY <4>3, <4>5, <4>6
    <3>. QED
      BY <1>9, <3>1, <3>2, <3>3, MoveOfCall
  <2>5. ~AtCall(3)
    BY <1>3, <1>9, <2>0, BadStatuses
  <2>. QED
    BY <1>1, <2>0, <2>3, <2>4, <2>5
<1>. QED
  BY <1>5, <1>6, <1>7, <1>8, <1>9

LEMMA InitReads ==
    ASSUME Init, program = "2_2", Base
    PROVE  Reads
<1>1. Parent \in Procs /\ \A c \in Children : run[c] = "none"
  BY ProcessesAssumption DEF Procs, Init, Booted
<1>2. /\ code[Parent] = Main(program) /\ file = original /\ run[Parent] = "running"
      /\ buffer = <<>>
  BY <1>1 DEF Init, Booted
<1>3. Left(Main(program), 1) = Main(program)
  <2>1. Main(program) = Main_2_2
    BY DEF Main
  <2>. QED
    BY <2>1, Start_2_2, SubSeqFull DEF Left, Starts
<1>. QED
  BY <1>1, <1>2, <1>3 DEF Reads, Alone, AtCall, Succeeded

-----------------------------------------------------------------------------
(* 11_1 reads from the pipe what it wrote                                  *)

LEMMA PipesStep ==
    ASSUME Base, [Next]_vars, program = "11_1", Pipes
    PROVE  Pipes'
<1>0. \A c \in Children : run[c] = "none"
  BY DEF Pipes, Alone
<1>1. Running(Parent) =>
          \/ Escaping
          \/ AtCall(1) /\ written = 0 /\ pipe = 0
          \/ AtCall(2) /\ written = 0 /\ pipe = 0
          \/ AtCall(3) /\ written = 20
          \/ AtCall(4) /\ written = 20
          \/ AtCall(5) /\ written = 20 /\ pipe = 0
          \/ AtCall(6) /\ written = 20 /\ pipe = 0
  BY DEF Pipes, Alone
<1>2. UNCHANGED <<program, original>> /\ Parent \in Procs
  BY DEF Next, vars, Procs
<1>3. Running(Parent) =>
          /\ AtCall(1) => Now(Parent) = OpenPipe
          /\ AtCall(2) => Now(Parent) = WritePipe(20, Fails)
          /\ AtCall(3) => Now(Parent) = CloseEnd("write")
          /\ AtCall(4) => Now(Parent) = ReadPipe(6, TRUE)
          /\ AtCall(5) => Now(Parent) = CloseEnd("read")
          /\ AtCall(6) => Now(Parent) = Exit(0)
  BY <1>2, At_11_1, Zenon
<1>4. Running(Parent) => Now(Parent).op \notin {"fork", "suspend"}
  BY <1>1, <1>3 DEF Escaping, OpenPipe, WritePipe, CloseEnd, ReadPipe, Exit
<1>5. /\ \A c \in Children : run'[c] = "none"
      /\ \/ Same
         \/ Running(Parent) /\ ~Running(Parent)' /\ ~Succeeded(Parent)'
         \/ /\ Running(Parent) /\ Now(Parent).op = "exit" /\ ~Escaping
            /\ ~Running(Parent)' /\ UNCHANGED <<faults, pipe, written, got, disk>>
         \/ /\ Moves(Parent) /\ Running(Parent)'
            /\ Now(Parent).op # "exit" /\ UNCHANGED run
  BY <1>0, <1>4, AloneStep DEF Overrun
<1>6. CASE Same
  <2>1. /\ \A k : AtCall(k)' <=> AtCall(k)
        /\ (Running(Parent)' <=> Running(Parent)) /\ (Succeeded(Parent)' <=> Succeeded(Parent))
        /\ Escaping' <=> Escaping
        /\ UNCHANGED <<pipe, written, got>>
    BY <1>6, SameKeeps
  <2>2. /\ (written = 0)' <=> written = 0
        /\ (pipe = 0)' <=> pipe = 0
        /\ (written = 20)' <=> written = 20
        /\ (written > 0 /\ got = written)' <=> written > 0 /\ got = written
    BY <2>1
  <2>. QED
    BY <1>5, <2>1, <2>2, Zenon DEF Pipes, Alone
<1>7. CASE ~Running(Parent)' /\ ~Succeeded(Parent)'
  BY <1>5, <1>7 DEF Pipes, Alone
<1>8. CASE /\ Running(Parent) /\ Now(Parent).op = "exit" /\ ~Escaping
           /\ ~Running(Parent)' /\ UNCHANGED <<faults, pipe, written, got, disk>>
  <2>1. written = 20 /\ pipe = 0
    BY <1>1, <1>3, <1>8 DEF OpenPipe, WritePipe, CloseEnd, ReadPipe
  <2>2. (written > 0 /\ got = written)'
    BY <1>8, <2>1 DEF Base, PipeTyped
  <2>. QED
    BY <1>5, <1>8, <2>2 DEF Pipes, Alone
<1>9. CASE Moves(Parent) /\ Running(Parent)' /\ Now(Parent).op # "exit" /\ UNCHANGED run
  <2>0. Running(Parent) /\ ~Escaping /\ ~Succeeded(Parent)'
    BY <1>9 DEF Moves, Escaping, Succeeded, Running
  <2>1. SUFFICES \/ Escaping'
                 \/ (AtCall(2) /\ written = 0 /\ pipe = 0)'
                 \/ (AtCall(3) /\ written = 20)'
                 \/ (AtCall(4) /\ written = 20)'
                 \/ (AtCall(5) /\ written = 20 /\ pipe = 0)'
                 \/ (AtCall(6) /\ written = 20 /\ pipe = 0)'
    BY <1>5, <2>0, Zenon DEF Pipes, Alone
  <2>2. /\ AtCall(1) /\ GoOn(Parent, <<>>) => AtCall(2)'
        /\ AtCall(2) /\ GoOn(Parent, <<>>) => AtCall(3)'
        /\ AtCall(3) /\ GoOn(Parent, <<>>) => AtCall(4)'
        /\ AtCall(4) /\ GoOn(Parent, <<>>) => AtCall(5)'
        /\ AtCall(5) /\ GoOn(Parent, <<>>) => AtCall(6)'
        /\ AtCall(4) /\ GoOn(Parent, <<Now(Parent)>>) => AtCall(4)'
    BY <1>2, <2>0, At_11_1, Zenon
  <2>3. CASE AtCall(1) /\ written = 0 /\ pipe = 0
    <3>1. Now(Parent).op = "pipe" /\ Now(Parent).fail = <<Exit(1)>>
      BY <1>3, <2>0, <2>3 DEF OpenPipe
    <3>2. CASE CallFails(Parent)
      BY <3>1, <3>2, ParentFails, BadStatuses
    <3>3. CASE Step(Parent)
      <4>1. DoPipe(Parent)
        BY <3>1, <3>3, StepOfCall
      <4>. QED
        BY <2>2, <2>3, <4>1 DEF DoPipe
    <3>. QED
      BY <1>9, <3>1, <3>2, <3>3, MoveOfCall
  <2>4. CASE AtCall(2) /\ written = 0 /\ pipe = 0
    <3>1. /\ Now(Parent).op = "write" /\ Now(Parent).fail = <<Exit(1)>>
          /\ Now(Parent).bytes = 20
      BY <1>3, <2>0, <2>4 DEF WritePipe, Fails
    <3>2. CASE CallFails(Parent)
      BY <3>1, <3>2, ParentFails, BadStatuses
    <3>3. CASE DoWrite(Parent)
      BY <2>2, <2>4, <3>1, <3>3 DEF DoWrite
    <3>4. CASE BrokenPipe(Parent)
      <4>1. GoOn(Parent, <<Exit(1)>>)
        <5>1. ~EndBySignal(Parent, "PIPE")
          BY <1>2, <1>9 DEF EndBySignal, End, Running
        <5>. QED
          BY <3>1, <3>4, <5>1 DEF BrokenPipe
      <4>2. Now(Parent)' = Exit(1)
        BY <1>2, <2>0, <4>1, GoesOn
      <4>. QED
        BY <4>2, BadStatuses DEF Escaping
    <3>. QED
      BY <1>9, <3>1, <3>2, <3>3, <3>4, MoveOfCall, StepOfCall
  <2>5. CASE AtCall(3) /\ written = 20
    <3>1. Now(Parent).op = "close" /\ "fail" \notin DOMAIN Now(Parent)
      BY <1>3, <2>0, <2>5 DEF CloseEnd
    <3>2. DoClose(Parent)
      BY <1>9, <3>1, MoveOfCall, StepOfCall
    <3>. QED
      BY <2>2, <2>5, <3>2 DEF DoClose
  <2>6. CASE AtCall(4) /\ written = 20
    <3>1. /\ Now(Parent).op = "read" /\ Now(Parent).fail = <<Exit(1)>>
          /\ Now(Parent).bytes = 6 /\ Now(Parent).again = TRUE
      BY <1>3, <2>0, <2>6 DEF ReadPipe
    <3>2. CASE CallFails(Parent)
      BY <3>1, <3>2, ParentFails, BadStatuses
    <3>3. CASE Step(Parent)
      <4>0. DoRead(Parent)
        BY <3>1, <3>3, StepOfCall
      <4>. DEFINE n == Min({6, pipe})
      <4>1. /\ pipe' = pipe - n /\ written' = written
            /\ n > 0 => GoOn(Parent, <<Now(Parent)>>)
            /\ ~(n > 0) => GoOn(Parent, <<>>)
        BY <3>1, <4>0 DEF DoRead
      <4>2. pipe \in Nat /\ n \in {6, pipe}
        <5>1. pipe \in Nat /\ pipe \in Int /\ 6 \in Int
          BY DEF Base, PipeTyped
        <5>2. \A a, b \in Int : Min({a, b}) \in {a, b}
          BY MinMax
        <5>. QED
          BY <5>1, <5>2, Zenon
      <4>. HIDE DEF n
      <4>3. CASE n > 0
        BY <2>2, <2>6, <4>1, <4>3
      <4>4. CASE ~(n > 0)
        BY <2>2, <2>6, <4>1, <4>2, <4>4
      <4>. QED
        BY <4>3, <4>4
    <3>. QED
      BY <1>9, <3>1, <3>2, <3>3, MoveOfCall
  <2>7. CASE AtCall(5) /\ written = 20 /\ pipe = 0
    <3>1. Now(Parent).op = "close" /\ "fail" \notin DOMAIN Now(Parent)
      BY <1>3, <2>0, <2>7 DEF CloseEnd
    <3>2. DoClose(Parent)
      BY <1>9, <3>1, MoveOfCall, StepOfCall
    <3>. QED
      BY <2>2, <2>7, <3>2 DEF DoClose
  <2>8. ~AtCall(6)
    BY <1>3, <1>9, <2>0, BadStatuses
  <2>. QED
    BY <1>1, <2>0, <2>3, <2>4, <2>5, <2>6, <2>7, <2>8
<1>. QED
  BY <1>5, <1>6, <1>7, <1>8, <1>9

LEMMA InitPipes ==
    ASSUME Init, program = "11_1", Base
    PROVE  Pipes
<1>1. Parent \in Procs /\ \A c \in Children : run[c] = "none"
  BY ProcessesAssumption DEF Procs, Init, Booted
<1>2. /\ code[Parent] = Main(program) /\ run[Parent] = "running"
      /\ written = 0 /\ pipe = 0
  BY <1>1 DEF Init, Booted
<1>3. Left(Main(program), 1) = Main(program)
  <2>1. Main(program) = Main_11_1
    BY DEF Main
  <2>. QED
    BY <2>1, Start_11_1, SubSeqFull DEF Left, Starts
<1>. QED
  BY <1>1, <1>2, <1>3 DEF Pipes, Alone, AtCall, Succeeded

-----------------------------------------------------------------------------
(* 2_3 appends its text                                                    *)

(* What is written at the end comes after what there is.                   *)
LEMMA AtTheEnd ==
    ASSUME file \in Seq(Bytes), NEW text \in Seq(Bytes)
    PROVE  Overwrite(Len(file), text) = file \o text
<1> DEFINE at == Len(file)
<1>1. at \in Nat /\ Len(text) \in Nat
  OBVIOUS
<1>2. Max({at, at + Len(text)}) = at + Len(text)
  <2>1. Max({at, at + Len(text)}) \in {at, at + Len(text)} /\ Max({at, at + Len(text)}) >= at + Len(text)
    <3>1. at \in Int /\ at + Len(text) \in Int
      BY <1>1
    <3>2. \A a, b \in Int : Max({a, b}) \in {a, b} /\ Max({a, b}) >= b
      BY MinMax
    <3>. QED
      BY <3>1, <3>2, Zenon
  <2>. QED
    BY <1>1, <2>1
<1>3. /\ Overwrite(at, text) \in Seq(Bytes) /\ Len(Overwrite(at, text)) = at + Len(text)
      /\ \A k \in 1 .. Len(Overwrite(at, text)) :
            Overwrite(at, text)[k] = IF k \in (at + 1) .. (at + Len(text)) THEN text[k - at]
                                     ELSE IF k <= Len(file) THEN file[k] ELSE Zero
  BY <1>1, <1>2, OverwriteTyped
<1>4. /\ file \o text \in Seq(Bytes) /\ Len(file \o text) = at + Len(text)
      /\ \A k \in 1 .. at + Len(text) :
            (file \o text)[k] = IF k <= Len(file) THEN file[k] ELSE text[k - at]
  BY ConcatProperties
<1>5. \A k \in 1 .. at + Len(text) : Overwrite(at, text)[k] = (file \o text)[k]
  BY <1>1, <1>3, <1>4
<1>6. Overwrite(at, text) = file \o text
  BY <1>3, <1>4, <1>5, SeqEqual
<1>. QED
  BY <1>6

(* What was written of a text t to the end of f, and what is left of it.    *)
LEMMA Beginning ==
    ASSUME NEW S, NEW f \in Seq(S), NEW t \in Seq(S), NEW n \in 0 .. Len(t)
    PROVE  LET g == f \o SubSeq(t, 1, n)
           IN  /\ SubSeq(t, 1, n) \in Seq(S) /\ g \in Seq(S) /\ Len(g) = Len(f) + n
               /\ \A i \in 1 .. Len(f) + n : g[i] = IF i <= Len(f) THEN f[i] ELSE t[i - Len(f)]
<1> DEFINE a == SubSeq(t, 1, n)
           g == f \o a
<1>0. Len(t) \in Nat /\ n \in Int /\ n <= Len(t) /\ n >= 0 /\ Len(f) \in Nat
  OBVIOUS
<1>1. a \in Seq(S) /\ Len(a) = n /\ \A i \in 1 .. n : a[i] = t[i]
  <2>1. /\ 1 \in Int /\ n \in Int /\ \A i \in 1 .. n : t[i] \in S
    BY <1>0
  <2>2. /\ SubSeq(t, 1, n) \in Seq(S) /\ Len(SubSeq(t, 1, n)) = IF 1 <= n THEN n - 1 + 1 ELSE 0
        /\ \A i \in 1 .. n - 1 + 1 : SubSeq(t, 1, n)[i] = t[1 + i - 1]
    BY <2>1, SubSeqProperties
  <2>. QED
    BY <1>0, <2>2
<1>. HIDE DEF a
<1>2. /\ g \in Seq(S) /\ Len(g) = Len(f) + Len(a)
      /\ \A i \in 1 .. Len(f) + Len(a) : g[i] = IF i <= Len(f) THEN f[i] ELSE a[i - Len(f)]
  BY <1>1, ConcatProperties
<1>. HIDE DEF g
<1>3. /\ g \in Seq(S) /\ Len(g) = Len(f) + n
      /\ \A i \in 1 .. Len(f) + n : g[i] = IF i <= Len(f) THEN f[i] ELSE t[i - Len(f)]
  BY <1>0, <1>1, <1>2
<1>. QED
  BY <1>1, <1>3 DEF a, g

LEMMA Rejoined ==
    ASSUME NEW S, NEW f \in Seq(S), NEW t \in Seq(S), NEW n \in 0 .. Len(t)
    PROVE  /\ SubSeq(t, 1, n) \in Seq(S) /\ SubSeq(t, n + 1, Len(t)) \in Seq(S)
           /\ \A g : g = f \o SubSeq(t, 1, n) => g \o SubSeq(t, n + 1, Len(t)) = f \o t
<1> DEFINE g == f \o SubSeq(t, 1, n)
<1>1. /\ SubSeq(t, 1, n) \in Seq(S) /\ g \in Seq(S) /\ Len(g) = Len(f) + n
      /\ \A i \in 1 .. Len(f) + n : g[i] = IF i <= Len(f) THEN f[i] ELSE t[i - Len(f)]
  BY Beginning
<1>. HIDE DEF g
<1> DEFINE b == SubSeq(t, n + 1, Len(t))
<1>0. Len(t) \in Nat /\ n \in Int /\ n <= Len(t) /\ n >= 0 /\ Len(f) \in Nat
  OBVIOUS
<1>2. b \in Seq(S) /\ Len(b) = Len(t) - n /\ \A i \in 1 .. Len(t) - n : b[i] = t[n + i]
  <2>1. n + 1 \in Int /\ Len(t) \in Int /\ \A i \in n + 1 .. Len(t) : t[i] \in S
    BY <1>0
  <2>2. /\ SubSeq(t, n + 1, Len(t)) \in Seq(S)
        /\ Len(SubSeq(t, n + 1, Len(t))) = IF n + 1 <= Len(t) THEN Len(t) - (n + 1) + 1 ELSE 0
        /\ \A i \in 1 .. Len(t) - (n + 1) + 1 : SubSeq(t, n + 1, Len(t))[i] = t[(n + 1) + i - 1]
    BY <2>1, SubSeqProperties
  <2>. QED
    BY <1>0, <2>2
<1>. HIDE DEF b
<1>4. /\ g \o b \in Seq(S) /\ Len(g \o b) = Len(f) + Len(t)
      /\ \A i \in 1 .. Len(f) + Len(t) : (g \o b)[i] = IF i <= Len(f) THEN f[i] ELSE t[i - Len(f)]
  <2>1. /\ g \o b \in Seq(S) /\ Len(g \o b) = Len(g) + Len(b)
        /\ \A i \in 1 .. Len(g) + Len(b) : (g \o b)[i] = IF i <= Len(g) THEN g[i] ELSE b[i - Len(g)]
    BY <1>1, <1>2, ConcatProperties
  <2>2. Len(g) = Len(f) + n /\ Len(g) + Len(b) = Len(f) + Len(t)
    BY <1>0, <1>1, <1>2
  <2>3. ASSUME NEW i \in 1 .. Len(f) + Len(t)
        PROVE  (g \o b)[i] = IF i <= Len(f) THEN f[i] ELSE t[i - Len(f)]
    <3>2. (g \o b)[i] = IF i <= Len(g) THEN g[i] ELSE b[i - Len(g)]
      BY <2>1, <2>2
    <3>3. CASE i <= Len(g)
      <4>1. i \in 1 .. Len(f) + n
        BY <1>0, <2>2, <3>3
      <4>. QED
        BY <1>1, <3>2, <3>3, <2>2, <4>1
    <3>4. CASE ~(i <= Len(g))
      <4>1. i - Len(g) \in 1 .. Len(t) - n /\ n + (i - Len(g)) = i - Len(f) /\ ~(i <= Len(f))
        BY <1>0, <2>2, <3>4
      <4>2. b[i - Len(g)] = t[n + (i - Len(g))]
        BY <1>2, <4>1
      <4>. QED
        BY <3>2, <3>4, <4>1, <4>2
    <3>. QED
      BY <3>3, <3>4
  <2>. QED
    BY <2>1, <2>2, <2>3
<1>5. /\ f \o t \in Seq(S) /\ Len(f \o t) = Len(f) + Len(t)
      /\ \A i \in 1 .. Len(f) + Len(t) : (f \o t)[i] = IF i <= Len(f) THEN f[i] ELSE t[i - Len(f)]
  BY ConcatProperties
<1>6. g \o b = f \o t
  BY <1>0, <1>4, <1>5, SeqEqual
<1>7. \A e : e = g => e \o b = f \o t
  BY <1>6
<1>. QED
  BY <1>1, <1>2, <1>7 DEF b, g

LEMMA Calls_2_3 ==
    /\ Hello \in Seq(Bytes) /\ Len(Hello) = 3 /\ SubSeq(Hello, 1, 3) = Hello
    /\ Left(Main_2_3, 2) = <<AppendAll(Hello, <<Exit(-2)>>)>> \o Left(Main_2_3, 3)
    /\ \A text : LET s == <<AppendAll(text, <<Exit(-2)>>)>> \o Left(Main_2_3, 3)
                 IN  /\ Head(s) = AppendAll(text, <<Exit(-2)>>)
                     /\ Tail(s) = Left(Main_2_3, 3)
<1>0. Hello \in Seq(Bytes) /\ Len(Hello) = 3 /\ SubSeq(Hello, 1, 3) = Hello
  <2>1. Hello \in Seq(Bytes) /\ Len(Hello) = 3
    BY TextsTyped, Made DEF Hello, Text
  <2>. QED
    BY <2>1, SubSeqFull
<1> DEFINE open == OpenFile(FALSE, <<Exit(-10)>>)
           append(text) == AppendAll(text, <<Exit(-2)>>)
           rest == Left(Main_2_3, 3)
<1>1. Main_2_3 = <<open, append(Hello), Exit(0)>>
  BY DEF Main_2_3, Hello
<1>. HIDE DEF open, append
<1>2. Main_2_3 \in Seq(ParentCalls)
  BY Start_2_3 DEF Starts
<1>3. Len(Main_2_3) = 3 /\ Main_2_3[2] = append(Hello)
  BY <1>1
<1>4. rest \in Seq(ParentCalls) /\ Left(Main_2_3, 2) = <<append(Hello)>> \o rest
  <2>1. 2 \in 1 .. Len(Main_2_3) /\ 3 \in 2 .. Len(Main_2_3) /\ 3 \in 1 .. Len(Main_2_3)
    BY <1>3
  <2>2. SubSeq(Main_2_3, 2, 3) = <<Main_2_3[2]>> \o SubSeq(Main_2_3, 2 + 1, 3)
    BY <1>2, <1>3, <2>1, SubSeqRecursiveFirst
  <2>3. SubSeq(Main_2_3, 2, 3) = <<Main_2_3[2]>> \o SubSeq(Main_2_3, 3, 3)
    BY <2>2
  <2>4. rest \in Seq(ParentCalls)
    BY <1>2, <2>1, LeftOf
  <2>. QED
    BY <1>3, <2>3, <2>4 DEF Left
<1>. HIDE DEF rest
<1>5. ASSUME NEW c
      PROVE  Head(<<c>> \o rest) = c /\ Tail(<<c>> \o rest) = rest
  <2> DEFINE T == ParentCalls \cup {c}
  <2>1. <<c>> \in Seq(T) /\ rest \in Seq(T) /\ <<c>> # <<>> /\ <<c>>[1] = c /\ Tail(<<c>>) = <<>>
    BY <1>4
  <2>2. <<>> \o rest = rest
    BY <1>4, ConcatEmptySeq
  <2>. HIDE DEF T
  <2>. QED
    BY <2>1, <2>2, HeadTailOfConcat
<1>. QED
  BY <1>0, <1>4, <1>5 DEF append, rest

LEMMA OtherText ==
    ASSUME NEW c, NEW o, NEW t, NEW u, NEW a, NEW b, NEW f,
           c = [op |-> o, text |-> t, append |-> a, again |-> b, fail |-> f]
    PROVE  [c EXCEPT !.text = u] = [op |-> o, text |-> u, append |-> a, again |-> b, fail |-> f]
OBVIOUS

LEMMA AppendIs ==
    ASSUME NEW c, NEW text, c = AppendAll(text, <<Exit(-2)>>)
    PROVE  /\ c.op = "write_file" /\ c.text = text /\ c.fail = <<Exit(-2)>>
           /\ c.append
           /\ c.again
           /\ \A u : [c EXCEPT !.text = u] = AppendAll(u, <<Exit(-2)>>)
<1>1. c.op = "write_file" /\ c.text = text /\ c.fail = <<Exit(-2)>>
  BY DEF AppendAll
<1>2. c.append
  BY DEF AppendAll
<1>3. c.again
  BY DEF AppendAll
<1>4. ASSUME NEW u
      PROVE  [c EXCEPT !.text = u] = AppendAll(u, <<Exit(-2)>>)
  <2> DEFINE true == TRUE
             f == <<Exit(-2)>>
  <2>1. /\ c = [op |-> "write_file", text |-> text, append |-> true, again |-> true, fail |-> f]
        /\ AppendAll(u, <<Exit(-2)>>)
              = [op |-> "write_file", text |-> u, append |-> true, again |-> true, fail |-> f]
    BY Zenon DEF AppendAll
  <2>. HIDE DEF true, f
  <2>. QED
    BY <2>1, OtherText
<1>. QED
  BY <1>1, <1>2, <1>3, <1>4, Zenon

LEMMA AppendsStep ==
    ASSUME Base, [Next]_vars, program = "2_3", original \in Seq(Bytes), Appends
    PROVE  Appends'
<1> DEFINE rest == Left(Main_2_3, 3)
           append(text) == AppendAll(text, <<Exit(-2)>>)
<1>0. \A c \in Children : run[c] = "none"
  BY DEF Appends, Alone
<1>1. Running(Parent) =>
          \/ Escaping
          \/ AtCall(1) /\ file = original
          \/ \E text \in Seq(Bytes) : AppendsNow(text)
          \/ AtCall(3) /\ file = original \o Hello
  BY DEF Appends, Alone
<1>2. UNCHANGED <<program, original>> /\ Parent \in Procs /\ Main(program) = Main_2_3
  BY DEF Next, vars, Procs, Main
<1>3. Running(Parent) =>
          /\ AtCall(1) => Now(Parent) = OpenFile(FALSE, <<Exit(-10)>>)
          /\ AtCall(3) => Now(Parent) = Exit(0)
  BY <1>2, At_2_3, Zenon
<1>4. \A text : AppendsNow(text) => Now(Parent) = append(text) /\ Now(Parent).op = "write_file"
  <2>1. \A text : AppendsNow(text) => Now(Parent) = append(text)
    BY Calls_2_3 DEF AppendsNow, Now
  <2>2. \A text : append(text).op = "write_file"
    BY DEF AppendAll
  <2>. QED
    BY <2>1, <2>2
<1>5. Running(Parent) => Now(Parent).op \notin {"fork", "suspend"}
  BY <1>1, <1>3, <1>4 DEF Escaping, OpenFile, Exit
<1>6. /\ \A c \in Children : run'[c] = "none"
      /\ \/ Same
         \/ Running(Parent) /\ ~Running(Parent)' /\ ~Succeeded(Parent)'
         \/ /\ Running(Parent) /\ Now(Parent).op = "exit" /\ ~Escaping
            /\ ~Running(Parent)' /\ UNCHANGED <<faults, pipe, written, got, disk>>
         \/ /\ Moves(Parent) /\ Running(Parent)'
            /\ Now(Parent).op # "exit" /\ UNCHANGED run
  BY <1>0, <1>5, AloneStep DEF Overrun
<1>7. CASE Same
  <2>1. /\ \A k : AtCall(k)' <=> AtCall(k)
        /\ (Running(Parent)' <=> Running(Parent)) /\ (Succeeded(Parent)' <=> Succeeded(Parent))
        /\ Escaping' <=> Escaping
        /\ UNCHANGED <<original, file>> /\ code'[Parent] = code[Parent]
    BY <1>7, SameKeeps
  <2>2. \A text : AppendsNow(text)' <=> AppendsNow(text)
    BY <2>1 DEF AppendsNow
  <2>3. (file = original)' <=> file = original
    BY <2>1
  <2>4. (file = original \o Hello)' <=> file = original \o Hello
    BY <2>1
  <2>5. (\E text \in Seq(Bytes) : AppendsNow(text)') <=> \E text \in Seq(Bytes) : AppendsNow(text)
    BY <2>2
  <2>. QED
    BY <1>6, <2>1, <2>3, <2>4, <2>5, Zenon DEF Appends, Alone
<1>8. CASE ~Running(Parent)' /\ ~Succeeded(Parent)'
  BY <1>6, <1>8 DEF Appends, Alone
<1>9. CASE /\ Running(Parent) /\ Now(Parent).op = "exit" /\ ~Escaping
           /\ ~Running(Parent)' /\ UNCHANGED <<faults, pipe, written, got, disk>>
  <2>1. file = original \o Hello
    BY <1>1, <1>3, <1>4, <1>9 DEF OpenFile
  <2>2. (file = original \o Hello)'
    BY <1>2, <1>9, <2>1 DEF disk
  <2>. QED
    BY <1>6, <1>9, <2>2 DEF Appends, Alone
<1>10. CASE Moves(Parent) /\ Running(Parent)' /\ Now(Parent).op # "exit" /\ UNCHANGED run
  <2>0. Running(Parent) /\ ~Escaping /\ ~Succeeded(Parent)'
    BY <1>10 DEF Moves, Escaping, Succeeded, Running
  <2>1. SUFFICES Escaping' \/ (\E text \in Seq(Bytes) : AppendsNow(text)') \/ (AtCall(3) /\ file = original \o Hello)'
    BY <1>6, <2>0, Zenon DEF Appends, Alone
  <2>2. CASE AtCall(1) /\ file = original
    <3>1. Now(Parent).op = "open" /\ Now(Parent).fail = <<Exit(-10)>> /\ Now(Parent).truncate = FALSE
      BY <1>3, <2>0, <2>2 DEF OpenFile
    <3>2. CASE CallFails(Parent)
      BY <3>1, <3>2, ParentFails, BadStatuses
    <3>3. CASE Step(Parent)
      <4>1. DoOpenFile(Parent)
        BY <3>1, <3>3, StepOfCall
      <4>2. file' = original /\ GoOn(Parent, <<>>)
        BY <2>2, <3>1, <4>1 DEF DoOpenFile
      <4>3. AtCall(2)'
        BY <1>2, <2>0, <2>2, <4>2, At_2_3
      <4>4. code'[Parent] = <<append(Hello)>> \o rest
        <5>1. code'[Parent] = Left(Main_2_3, 2)
          BY <1>2, <4>3 DEF AtCall
        <5>. QED
          BY <5>1, Calls_2_3
      <4>5. AppendsNow(Hello)'
        BY <1>2, <4>2, <4>4 DEF AppendsNow
      <4>. QED
        BY <4>5, Calls_2_3
    <3>. QED
      BY <1>10, <3>1, <3>2, <3>3, MoveOfCall
  <2>3. ASSUME NEW text \in Seq(Bytes), AppendsNow(text)
        PROVE  \/ Escaping'
               \/ \E t \in Seq(Bytes) : AppendsNow(t)'
               \/ (AtCall(3) /\ file = original \o Hello)'
    <3>1. /\ Now(Parent).op = "write_file" /\ Now(Parent).text = text
          /\ Now(Parent).append
          /\ Now(Parent).again
          /\ Now(Parent).fail = <<Exit(-2)>>
          /\ \A u : [Now(Parent) EXCEPT !.text = u] = AppendAll(u, <<Exit(-2)>>)
      BY <1>4, <2>3, AppendIs, Zenon
    <3>2. \A n \in 0 .. Len(text) :
             /\ SubSeq(text, 1, n) \in Seq(Bytes) /\ SubSeq(text, n + 1, Len(text)) \in Seq(Bytes)
             /\ \A g : g = file \o SubSeq(text, 1, n) =>
                      g \o SubSeq(text, n + 1, Len(text)) = file \o text
      BY Rejoined DEF Base, FileTyped
    <3>3. ASSUME NEW n \in 0 .. Len(text), PutBytes(Parent, n)
          PROVE  file' = file \o SubSeq(text, 1, n)
      <4>1. file' = Overwrite(Len(file), SubSeq(text, 1, n))
        BY <3>1, <3>3 DEF PutBytes
      <4>. QED
        BY <3>2, <4>1, AtTheEnd DEF Base, FileTyped
    <3>4. CASE CallFails(Parent)
      BY <3>1, <3>4, ParentFails, BadStatuses
    <3>5. CASE Step(Parent)
      <4>1. PutBytes(Parent, Len(text)) /\ GoOn(Parent, <<>>)
        <5>1. DoWriteFile(Parent)
          BY <3>1, <3>5, StepOfCall
        <5>. QED
          BY <3>1, <5>1 DEF DoWriteFile
      <4>2. file' = original' \o Hello
        <5>1. Len(text) \in 0 .. Len(text) /\ SubSeq(text, 1, Len(text)) = text
          BY SubSeqFull
        <5>2. file' = file \o text
          BY <3>3, <4>1, <5>1
        <5>. QED
          BY <1>2, <2>3, <5>2 DEF AppendsNow
      <4>3. code'[Parent] = rest
        <5>1. code'[Parent] = Tail(code[Parent])
          BY <2>0, <4>1, ParentGoesOn
        <5>. QED
          BY <2>3, <5>1, Calls_2_3 DEF AppendsNow
      <4>4. AtCall(3)'
        BY <1>2, <4>3 DEF AtCall, Main
      <4>. QED
        BY <4>2, <4>4
    <3>6. CASE ShortWrite(Parent)
      <4>1. PICK n \in 1 .. Len(text) - 1 :
               /\ PutBytes(Parent, n)
               /\ GoOn(Parent, <<[Now(Parent) EXCEPT !.text = SubSeq(text, n + 1, Len(text))]>>)
        BY <3>1, <3>6 DEF ShortWrite
      <4>2. PICK u \in Seq(Bytes) : u = SubSeq(text, n + 1, Len(text))
        <5>1. n \in 0 .. Len(text)
          OBVIOUS
        <5>2. SubSeq(text, n + 1, Len(text)) \in Seq(Bytes)
          BY <3>2, <5>1
        <5>. QED
          BY <5>2
      <4>3. GoOn(Parent, <<append(u)>>)
        BY <3>1, <4>1, <4>2
      <4>4. code'[Parent] = <<append(u)>> \o rest
        <5>1. code'[Parent] = <<append(u)>> \o Tail(code[Parent])
          BY <2>0, <4>3, ParentGoesOn
        <5>. QED
          BY <2>3, <5>1, Calls_2_3 DEF AppendsNow
      <4>5. file' \o u = original' \o Hello
        <5>1. n \in 0 .. Len(text)
          OBVIOUS
        <5>2. file' \o u = file \o text
          BY <3>2, <3>3, <4>1, <4>2, <5>1
        <5>. QED
          BY <1>2, <2>3, <5>2 DEF AppendsNow
      <4>6. AppendsNow(u)'
        BY <4>4, <4>5 DEF AppendsNow
      <4>. QED
        BY <4>6
    <3>. QED
      BY <1>10, <3>4, <3>5, <3>6, MoveOfCall
  <2>4. ~(AtCall(3) /\ file = original \o Hello)
    BY <1>3, <1>10, <2>0, BadStatuses
  <2>. QED
    BY <1>1, <2>0, <2>2, <2>3, <2>4
<1>. QED
  BY <1>6, <1>7, <1>8, <1>9, <1>10

LEMMA InitAppends ==
    ASSUME Init, program = "2_3", Base
    PROVE  Appends
<1>1. Parent \in Procs /\ \A c \in Children : run[c] = "none"
  BY ProcessesAssumption DEF Procs, Init, Booted
<1>2. code[Parent] = Main(program) /\ run[Parent] = "running" /\ file = original
  BY <1>1 DEF Init, Booted
<1>3. Left(Main(program), 1) = Main(program)
  <2>1. Main(program) = Main_2_3
    BY DEF Main
  <2>. QED
    BY <2>1, Start_2_3, SubSeqFull DEF Left, Starts
<1>. QED
  BY <1>1, <1>2, <1>3 DEF Appends, Alone, AtCall, Succeeded

-----------------------------------------------------------------------------
(* Writing over a part of the file                                         *)

LEMMA JoinOfThree ==
    ASSUME NEW S, NEW a \in Seq(S), NEW b \in Seq(S), NEW c \in Seq(S)
    PROVE  \A y, x : (y = a \o b /\ x = y \o c) =>
               /\ x \in Seq(S) /\ Len(x) = Len(a) + Len(b) + Len(c)
               /\ \A i \in 1 .. Len(a) + Len(b) + Len(c) :
                     x[i] = IF i <= Len(a) THEN a[i]
                            ELSE IF i <= Len(a) + Len(b) THEN b[i - Len(a)]
                            ELSE c[i - (Len(a) + Len(b))]
<1> DEFINE ab == a \o b
           abc == ab \o c
<1>1. /\ ab \in Seq(S) /\ Len(ab) = Len(a) + Len(b)
      /\ \A i \in 1 .. Len(a) + Len(b) : ab[i] = IF i <= Len(a) THEN a[i] ELSE b[i - Len(a)]
  BY ConcatProperties
<1>. HIDE DEF ab
<1>2. /\ abc \in Seq(S) /\ Len(abc) = Len(ab) + Len(c)
      /\ \A i \in 1 .. Len(ab) + Len(c) : abc[i] = IF i <= Len(ab) THEN ab[i] ELSE c[i - Len(ab)]
  <2>1. abc \in Seq(S) /\ Len(abc) = Len(ab) + Len(c)
    BY <1>1, ConcatProperties
  <2>2. \A i \in 1 .. Len(ab) + Len(c) : abc[i] = IF i <= Len(ab) THEN ab[i] ELSE c[i - Len(ab)]
    BY <1>1, ConcatProperties
  <2>. QED
    BY <2>1, <2>2
<1>. HIDE DEF abc
<1>3. Len(a) \in Nat /\ Len(b) \in Nat /\ Len(c) \in Nat
  OBVIOUS
<1>4. \A i \in 1 .. Len(a) + Len(b) + Len(c) :
         abc[i] = IF i <= Len(a) THEN a[i]
                  ELSE IF i <= Len(a) + Len(b) THEN b[i - Len(a)]
                  ELSE c[i - (Len(a) + Len(b))]
  BY <1>1, <1>2, <1>3
<1>5. abc \in Seq(S) /\ Len(abc) = Len(a) + Len(b) + Len(c)
  BY <1>1, <1>2, <1>3
<1>. QED
  BY <1>4, <1>5, Zenon DEF ab, abc

(* What is left of s from its m-th element.                                *)
LEMMA RestOf ==
    ASSUME NEW S, NEW s \in Seq(S), NEW m \in Nat \ {0}
    PROVE  /\ SubSeq(s, m, Len(s)) \in Seq(S)
           /\ Len(SubSeq(s, m, Len(s))) = IF m <= Len(s) THEN Len(s) - m + 1 ELSE 0
           /\ \A i \in 1 .. Len(s) - m + 1 : SubSeq(s, m, Len(s))[i] = s[m + i - 1]
<1>1. m \in Int /\ Len(s) \in Int /\ \A i \in m .. Len(s) : s[i] \in S
  OBVIOUS
<1>. QED
  BY <1>1, SubSeqProperties

LEMMA RestOfRest ==
    ASSUME NEW S, NEW s \in Seq(S), NEW m \in Nat \ {0}, NEW n \in Nat \ {0}
    PROVE  \A r : r = SubSeq(s, m, Len(s)) =>
               SubSeq(r, n, Len(r)) = SubSeq(s, m + n - 1, Len(s))
<1> DEFINE r == SubSeq(s, m, Len(s))
           x == SubSeq(r, n, Len(r))
           y == SubSeq(s, m + n - 1, Len(s))
<1>1. /\ r \in Seq(S) /\ Len(r) = IF m <= Len(s) THEN Len(s) - m + 1 ELSE 0
      /\ \A i \in 1 .. Len(s) - m + 1 : r[i] = s[m + i - 1]
  BY RestOf
<1>. HIDE DEF r
<1>2. /\ x \in Seq(S) /\ Len(x) = IF n <= Len(r) THEN Len(r) - n + 1 ELSE 0
      /\ \A i \in 1 .. Len(r) - n + 1 : x[i] = r[n + i - 1]
  BY <1>1, RestOf
<1>3. /\ y \in Seq(S)
      /\ Len(y) = IF m + n - 1 <= Len(s) THEN Len(s) - (m + n - 1) + 1 ELSE 0
      /\ \A i \in 1 .. Len(s) - (m + n - 1) + 1 : y[i] = s[(m + n - 1) + i - 1]
  <2>1. m + n - 1 \in Nat \ {0}
    OBVIOUS
  <2>. QED
    BY <2>1, RestOf
<1>. HIDE DEF x, y
<1>4. Len(s) \in Nat
  OBVIOUS
<1>5. Len(x) = Len(y)
  BY <1>1, <1>2, <1>3, <1>4
<1>6. ASSUME NEW i \in 1 .. Len(x)
      PROVE  x[i] = y[i]
  <2>1. /\ i \in 1 .. Len(r) - n + 1 /\ n + i - 1 \in 1 .. Len(s) - m + 1
        /\ i \in 1 .. Len(s) - (m + n - 1) + 1
        /\ m + (n + i - 1) - 1 = (m + n - 1) + i - 1
    BY <1>1, <1>2, <1>4
  <2>2. x[i] = r[n + i - 1] /\ r[n + i - 1] = s[m + (n + i - 1) - 1]
    BY <1>1, <1>2, <2>1
  <2>. QED
    BY <1>3, <2>1, <2>2
<1>7. x = y
  BY <1>2, <1>3, <1>5, <1>6, SeqEqual
<1>. QED
  BY <1>7 DEF r, x, y

(* text is written behind a, over the beginning of b.                      *)
LEMMA WhichIsLonger ==
    ASSUME NEW j \in Nat, NEW k \in Nat, NEW l \in Nat
    PROVE  /\ \A f, m : (/\ f = j + k /\ m \in {f, j + l} /\ m >= f /\ m >= j + l) =>
                            m = IF k <= l THEN j + l ELSE j + k
           /\ \A m, d : (/\ m = (IF k <= l THEN j + l ELSE j + k)
                         /\ d = (IF k <= l THEN 0 ELSE k - l)) => m = j + l + d /\ m \in Nat
OBVIOUS

LEMMA WrittenThere ==
    ASSUME file \in Seq(Bytes), NEW a \in Seq(Bytes), NEW b \in Seq(Bytes),
           Len(file) = Len(a) + Len(b),
           \A i \in 1 .. Len(a) + Len(b) : file[i] = IF i <= Len(a) THEN a[i] ELSE b[i - Len(a)],
           NEW text \in Seq(Bytes)
    PROVE  Overwrite(Len(a), text) = a \o text \o SubSeq(b, Len(text) + 1, Len(b))
<1> DEFINE at == Len(a)
           c == SubSeq(b, Len(text) + 1, Len(b))
           y == a \o text
           x == y \o c
           n == Max({Len(file), at + Len(text)})
<1>1. at \in Nat /\ Len(b) \in Nat /\ Len(text) \in Nat
  OBVIOUS
<1>2. /\ Len(file) = at + Len(b)
      /\ \A i \in 1 .. at + Len(b) : file[i] = IF i <= at THEN a[i] ELSE b[i - at]
  OBVIOUS
<1>3. /\ c \in Seq(Bytes) /\ Len(c) = IF Len(text) + 1 <= Len(b) THEN Len(b) - (Len(text) + 1) + 1 ELSE 0
      /\ \A i \in 1 .. Len(b) - (Len(text) + 1) + 1 : c[i] = b[(Len(text) + 1) + i - 1]
  <2>1. Len(text) + 1 \in Nat \ {0}
    BY <1>1
  <2>. QED
    BY <2>1, RestOf
<1>. HIDE DEF c
<1>4. /\ x \in Seq(Bytes) /\ Len(x) = at + Len(text) + Len(c)
      /\ \A i \in 1 .. at + Len(text) + Len(c) :
            x[i] = IF i <= at THEN a[i] ELSE IF i <= at + Len(text) THEN text[i - at]
                   ELSE c[i - (at + Len(text))]
  <2>. HIDE DEF x, y
  <2>1. y = a \o text /\ x = y \o c
    BY DEF x, y
  <2>2. c \in Seq(Bytes)
    BY <1>3
  <2>3. x \in Seq(Bytes) /\ Len(x) = Len(a) + Len(text) + Len(c)
    BY <2>1, <2>2, JoinOfThree
  <2>4. \A i \in 1 .. Len(a) + Len(text) + Len(c) :
            x[i] = IF i <= Len(a) THEN a[i] ELSE IF i <= Len(a) + Len(text) THEN text[i - Len(a)]
                   ELSE c[i - (Len(a) + Len(text))]
    BY <2>1, <2>2, JoinOfThree
  <2>. QED
    BY <2>3, <2>4
<1>5. /\ Overwrite(at, text) \in Seq(Bytes) /\ Len(Overwrite(at, text)) = n
      /\ \A k \in 1 .. n :
            Overwrite(at, text)[k] = IF k \in (at + 1) .. (at + Len(text)) THEN text[k - at]
                                     ELSE IF k <= Len(file) THEN file[k] ELSE Zero
  BY <1>1, OverwriteTyped
<1>6. n = IF Len(b) <= Len(text) THEN at + Len(text) ELSE at + Len(b)
  <2>1. Len(file) \in Int /\ at + Len(text) \in Int
    BY <1>1
  <2>2. \A j, k \in Int : /\ Max({j, k}) \in {j, k}
                          /\ Max({j, k}) >= j /\ Max({j, k}) >= k
    BY MinMax
  <2>3. n \in {Len(file), at + Len(text)} /\ n >= Len(file) /\ n >= at + Len(text)
    BY <2>1, <2>2, Zenon
  <2>. HIDE DEF at, n
  <2>4. \A f, m : (/\ f = at + Len(b) /\ m \in {f, at + Len(text)} /\ m >= f
                  /\ m >= at + Len(text)) =>
                     m = IF Len(b) <= Len(text) THEN at + Len(text) ELSE at + Len(b)
    BY <1>1, WhichIsLonger, Zenon
  <2>5. Len(file) = at + Len(b)
    BY <1>2
  <2>. QED
    BY <2>3, <2>4, <2>5, Zenon
<1>. HIDE DEF at, x, n
<1>6a. Len(c) \in Nat
  BY <1>3
<1>7. n = at + Len(text) + Len(c) /\ n \in Nat
  <2>1. Len(c) = IF Len(b) <= Len(text) THEN 0 ELSE Len(b) - Len(text)
    BY <1>1, <1>3
  <2>2. \A m, d : (/\ m = (IF Len(b) <= Len(text) THEN at + Len(text) ELSE at + Len(b))
                   /\ d = (IF Len(b) <= Len(text) THEN 0 ELSE Len(b) - Len(text))) =>
                       m = at + Len(text) + d /\ m \in Nat
    BY <1>1, WhichIsLonger
  <2>. QED
    BY <1>6, <2>1, <2>2
<1>8. ASSUME NEW i \in 1 .. n
      PROVE  Overwrite(at, text)[i] = x[i]
  <2>1. CASE i <= at
    <3>1. x[i] = a[i] /\ Overwrite(at, text)[i] = IF i <= Len(file) THEN file[i] ELSE Zero
      BY <1>1, <1>4, <1>5, <1>7, <2>1
    <3>2. i <= Len(file) /\ file[i] = a[i]
      BY <1>1, <1>2, <2>1
    <3>. QED
      BY <3>1, <3>2
  <2>2. CASE at < i /\ i <= at + Len(text)
    <3>1. x[i] = text[i - at]
      BY <1>1, <1>4, <1>7, <2>2
    <3>2. Overwrite(at, text)[i] = text[i - at]
      BY <1>1, <1>5, <1>7, <2>2
    <3>. QED
      BY <3>1, <3>2
  <2>3. CASE at + Len(text) < i
    <3>1. /\ Len(text) < Len(b) /\ n = at + Len(b) /\ i \in 1 .. at + Len(b) /\ ~(i <= at)
          /\ i - (at + Len(text)) \in 1 .. Len(b) - (Len(text) + 1) + 1
          /\ (Len(text) + 1) + (i - (at + Len(text))) - 1 = i - at
      BY <1>1, <1>6, <2>3
    <3>2. file[i] = b[i - at]
      BY <1>2, <3>1
    <3>3. Overwrite(at, text)[i] = file[i]
      BY <1>1, <1>2, <1>5, <2>3, <3>1
    <3>4. c[i - (at + Len(text))] = b[i - at]
      BY <1>3, <3>1
    <3>5. x[i] = c[i - (at + Len(text))]
      BY <1>1, <1>4, <1>7, <2>3
    <3>. QED
      BY <3>2, <3>3, <3>4, <3>5
  <2>. QED
    BY <1>1, <2>1, <2>2, <2>3
<1>9. Overwrite(at, text) = x
  BY <1>4, <1>5, <1>7, <1>8, SeqEqual
<1>. QED
  BY <1>9 DEF at, x, y, c

LEMMA WrittenOver ==
    ASSUME file \in Seq(Bytes), NEW a \in Seq(Bytes), NEW b \in Seq(Bytes), file = a \o b,
           NEW text \in Seq(Bytes)
    PROVE  Overwrite(Len(a), text) = a \o text \o SubSeq(b, Len(text) + 1, Len(b))
<1>1. /\ Len(a \o b) = Len(a) + Len(b)
      /\ \A i \in 1 .. Len(a) + Len(b) : (a \o b)[i] = IF i <= Len(a) THEN a[i] ELSE b[i - Len(a)]
  BY ConcatProperties
<1>2. /\ Len(file) = Len(a) + Len(b)
      /\ \A i \in 1 .. Len(a) + Len(b) : file[i] = IF i <= Len(a) THEN a[i] ELSE b[i - Len(a)]
  BY <1>1, Zenon
<1>. QED
  BY <1>2, WrittenThere, Zenon

-----------------------------------------------------------------------------
(* What has failed does not come back                                      *)

LEMMA StepsDoNotFail ==
    ASSUME NEW p, Step(p)
    PROVE  UNCHANGED <<faults, torn>>
<1>1. Now(p).op = "exit" => UNCHANGED <<faults, torn>>
  <2>1. Now(p).op = "exit" => DoExit(p)
    BY StepOfCall, Zenon
  <2>. QED
    BY <2>1 DEF DoExit, io, disk, End
<1>2. Now(p).op = "fork" => UNCHANGED <<faults, torn>>
  <2>1. Now(p).op = "fork" => DoFork(p)
    BY StepOfCall, Zenon
  <2>. QED
    BY <2>1 DEF DoFork, io, disk
<1>3. Now(p).op = "exec" => UNCHANGED <<faults, torn>>
  <2>1. Now(p).op = "exec" => DoExec(p)
    BY StepOfCall, Zenon
  <2>. QED
    BY <2>1 DEF DoExec, io, disk
<1>4. Now(p).op = "wait" => UNCHANGED <<faults, torn>>
  <2>1. Now(p).op = "wait" => DoWait(p)
    BY StepOfCall, Zenon
  <2>. QED
    BY <2>1 DEF DoWait, Reap, io, disk
<1>5. Now(p).op = "poll" => UNCHANGED <<faults, torn>>
  <2>1. Now(p).op = "poll" => DoPoll(p)
    BY StepOfCall, Zenon
  <2>. QED
    BY <2>1 DEF DoPoll, Reap, io, disk
<1>6. Now(p).op = "poll_while" => UNCHANGED <<faults, torn>>
  <2>1. Now(p).op = "poll_while" => DoPollWhile(p)
    BY StepOfCall, Zenon
  <2>. QED
    BY <2>1 DEF DoPollWhile, Reap, io, disk
<1>7. Now(p).op = "block" => UNCHANGED <<faults, torn>>
  <2>1. Now(p).op = "block" => DoBlock(p)
    BY StepOfCall, Zenon
  <2>. QED
    BY <2>1 DEF DoBlock, io, disk
<1>8. Now(p).op = "handle" => UNCHANGED <<faults, torn>>
  <2>1. Now(p).op = "handle" => DoHandle(p)
    BY StepOfCall, Zenon
  <2>. QED
    BY <2>1 DEF DoHandle, io, disk
<1>9. Now(p).op = "ignore" => UNCHANGED <<faults, torn>>
  <2>1. Now(p).op = "ignore" => DoIgnore(p)
    BY StepOfCall, Zenon
  <2>. QED
    BY <2>1 DEF DoIgnore, io, disk
<1>10. Now(p).op = "kill" => UNCHANGED <<faults, torn>>
  <2>1. Now(p).op = "kill" => DoKill(p)
    BY StepOfCall, Zenon
  <2>. QED
    BY <2>1 DEF DoKill, io, disk
<1>11. Now(p).op = "test" => UNCHANGED <<faults, torn>>
  <2>1. Now(p).op = "test" => DoTest(p)
    BY StepOfCall, Zenon
  <2>. QED
    BY <2>1 DEF DoTest, io, disk
<1>12. Now(p).op = "suspend" => UNCHANGED <<faults, torn>>
  <2>1. Now(p).op = "suspend" => DoSuspend(p)
    BY StepOfCall, Zenon
  <2>. QED
    BY <2>1 DEF DoSuspend, io, disk
<1>13. Now(p).op = "if" => UNCHANGED <<faults, torn>>
  <2>1. Now(p).op = "if" => DoIfCaught(p)
    BY StepOfCall, Zenon
  <2>. QED
    BY <2>1 DEF DoIfCaught, io, disk
<1>14. Now(p).op = "alarm" => UNCHANGED <<faults, torn>>
  <2>1. Now(p).op = "alarm" => DoAlarm(p)
    BY StepOfCall, Zenon
  <2>. QED
    BY <2>1 DEF DoAlarm, io, disk
<1>15. Now(p).op = "count" => UNCHANGED <<faults, torn>>
  <2>1. Now(p).op = "count" => DoCount(p)
    BY StepOfCall, Zenon
  <2>. QED
    BY <2>1 DEF DoCount, io, disk
<1>16. Now(p).op = "pipe" => UNCHANGED <<faults, torn>>
  <2>1. Now(p).op = "pipe" => DoPipe(p)
    BY StepOfCall, Zenon
  <2>. QED
    BY <2>1 DEF DoPipe, io, disk
<1>17. Now(p).op = "close" => UNCHANGED <<faults, torn>>
  <2>1. Now(p).op = "close" => DoClose(p)
    BY StepOfCall, Zenon
  <2>. QED
    BY <2>1 DEF DoClose, io, disk
<1>18. Now(p).op = "read" => UNCHANGED <<faults, torn>>
  <2>1. Now(p).op = "read" => DoRead(p)
    BY StepOfCall, Zenon
  <2>. QED
    BY <2>1 DEF DoRead, io, disk
<1>19. Now(p).op = "open" => UNCHANGED <<faults, torn>>
  <2>1. Now(p).op = "open" => DoOpenFile(p)
    BY StepOfCall, Zenon
  <2>. QED
    BY <2>1 DEF DoOpenFile, io, disk
<1>20. Now(p).op = "dup" => UNCHANGED <<faults, torn>>
  <2>1. Now(p).op = "dup" => DoDup(p)
    BY StepOfCall, Zenon
  <2>. QED
    BY <2>1 DEF DoDup, io, disk
<1>21. Now(p).op = "write_file" => UNCHANGED <<faults, torn>>
  <2>1. Now(p).op = "write_file" => DoWriteFile(p)
    BY StepOfCall, Zenon
  <2>. QED
    BY <2>1 DEF DoWriteFile, io, disk
<1>22. Now(p).op = "read_file" => UNCHANGED <<faults, torn>>
  <2>1. Now(p).op = "read_file" => DoReadFile(p)
    BY StepOfCall, Zenon
  <2>. QED
    BY <2>1 DEF DoReadFile, io, disk
<1>23. Now(p).op = "lseek" => UNCHANGED <<faults, torn>>
  <2>1. Now(p).op = "lseek" => DoLSeek(p)
    BY StepOfCall, Zenon
  <2>. QED
    BY <2>1 DEF DoLSeek, io, disk
<1>24. Now(p).op = "search" => UNCHANGED <<faults, torn>>
  <2>1. Now(p).op = "search" => DoSearch(p)
    BY StepOfCall, Zenon
  <2>. QED
    BY <2>1 DEF DoSearch, io, disk
<1>25. Now(p).op = "write" => UNCHANGED <<faults, torn>>
  <2>1. Now(p).op = "write" => DoWrite(p) \/ BrokenPipe(p)
    BY StepOfCall, Zenon
  <2>. QED
    BY <2>1 DEF DoWrite, BrokenPipe, EndBySignal, End, io, disk
<1>26. Now(p).op \in {"exit", "fork", "exec", "wait", "poll", "poll_while", "block", "handle", "ignore", "kill", "test", "suspend", "if", "alarm", "count", "pipe", "close", "read", "open", "dup", "write_file", "read_file", "lseek", "search", "write"}
  BY StepOfCall
<1>. QED
  BY <1>1, <1>2, <1>3, <1>4, <1>5, <1>6, <1>7, <1>8, <1>9, <1>10, <1>11, <1>12, <1>13, <1>14, <1>15, <1>16, <1>17, <1>18, <1>19, <1>20, <1>21, <1>22, <1>23, <1>24, <1>25, <1>26

LEMMA FaultsGrow ==
    ASSUME Base, [Next]_vars
    PROVE  (faults' = 0 => faults = 0) /\ (~torn' => ~torn)
<1>1. faults \in Nat
  BY ProcessesAssumption DEF Base, FaultsTyped
<1>2. CASE UNCHANGED vars
  BY <1>2 DEF vars, kernel, io, disk
<1>3. ASSUME NEW p \in Procs, Step(p)
      PROVE  UNCHANGED <<faults, torn>>
  BY <1>3, StepsDoNotFail
<1>4. ASSUME NEW p \in Procs, CallFails(p) \/ ShortWrite(p) \/ Killed(p)
      PROVE  faults' = faults + 1 /\ (torn => torn')
  <2>1. faults' = faults + 1
    BY <1>4 DEF CallFails, ShortWrite, Killed
  <2>2. CallFails(p) \/ Killed(p) => UNCHANGED torn
    BY DEF CallFails, Killed, EndBySignal, End, io, disk
  <2>3. ShortWrite(p) => (torn => torn')
    BY Zenon DEF ShortWrite
  <2>. QED
    BY <1>4, <2>1, <2>2, <2>3
<1>5. ASSUME NEW p \in Procs, Deliver(p) \/ Expire(p)
      PROVE  UNCHANGED <<faults, torn>>
  BY <1>5 DEF Deliver, Expire, EndBySignal, End, io, disk
<1>6. ASSUME NEW s, Signalled(Parent, s)
      PROVE  faults' = faults + 1 /\ (torn => torn')
  BY <1>6 DEF Signalled, io, disk
<1>8. ASSUME Clobbered(Parent)
      PROVE  UNCHANGED <<faults, torn>>
  BY <1>8 DEF Clobbered, EndBySignal, End, io, disk
<1>7. CASE Next
  <2> DEFINE G == (UNCHANGED faults \/ faults' = faults + 1) /\ (torn => torn')
  <2>2. \A p \in Procs : Step(p) \/ CallFails(p) \/ ShortWrite(p) => G
    BY <1>3, <1>4
  <2>3. \A p \in Procs : Deliver(p) \/ Expire(p) \/ Killed(p) => G
    BY <1>4, <1>5
  <2>4. (Clobbered(Parent) => G) /\ \A s : Signalled(Parent, s) => G
    BY <1>6, <1>8
  <2>. HIDE DEF G
  <2>5. G
    BY <1>7, <2>2, <2>3, <2>4, Zenon DEF Next
  <2>1. (UNCHANGED faults \/ faults' = faults + 1) /\ (torn => torn')
    BY <2>5 DEF G
  <2>. QED
    BY <1>1, <2>1
<1>. QED
  BY <1>2, <1>7

-----------------------------------------------------------------------------
(* 2_6 writes through two descriptors                                      *)

LEMMA WrittenFirst ==
    ASSUME file \in Seq(Bytes), NEW text \in Seq(Bytes)
    PROVE  Overwrite(0, text) = text \o SubSeq(file, Len(text) + 1, Len(file))
<1> DEFINE e == <<>>
<1>1. e \in Seq(Bytes) /\ Len(e) = 0 /\ \A s \in Seq(Bytes) : e \o s = s
  BY ConcatEmptySeq, EmptySeq
<1>. HIDE DEF e
<1>2. file = e \o file
  BY <1>1
<1>3. Overwrite(Len(e), text) = e \o text \o SubSeq(file, Len(text) + 1, Len(file))
  BY <1>1, <1>2, WrittenOver, Zenon
<1>4. e \o text = text
  BY <1>1
<1>. QED
  BY <1>1, <1>3, <1>4

(* A part of a text of two bytes, from its start.                          *)
LEMMA FirstPart ==
    ASSUME NEW text \in Seq(Bytes), Len(text) = 2, NEW n \in 0 .. 2
    PROVE  /\ SubSeq(text, 1, n) \in Seq(Bytes) /\ Len(SubSeq(text, 1, n)) = n
           /\ n = 0 => SubSeq(text, 1, n) = <<>>
           /\ n = 2 => SubSeq(text, 1, n) = text
<1>1. n \in 1 - 1 .. Len(text) /\ 1 \in 1 .. Len(text) + 1 /\ \A i \in 1 .. n : text[i] \in Bytes
  OBVIOUS
<1>2. SubSeq(text, 1, n) \in Seq(Bytes) /\ Len(SubSeq(text, 1, n)) = n
  BY <1>1, SubSeqProperties
<1>. QED
  BY <1>2, SubSeqFull

LEMMA BeginsWithNothing ==
    ASSUME original \in Seq(Bytes), NEW text, text = <<>>
    PROVE  Begins(text) <=> file = original
<1>1. Len(text) = 0 /\ text \o original = original
  BY ConcatEmptySeq
<1>2. SubSeq(original, 0 + 1, Len(original)) = original
  BY SubSeqFull
<1>. QED
  BY <1>1, <1>2 DEF Begins

(* A text is written over the beginning, or behind one that was.           *)
LEMMA BeginsFirst ==
    ASSUME original \in Seq(Bytes), UNCHANGED original, file = original,
           NEW text \in Seq(Bytes), file' = Overwrite(0, text)
    PROVE  Begins(text)'
<1>1. Overwrite(0, text) = text \o SubSeq(original, Len(text) + 1, Len(original))
  BY WrittenFirst
<1>. QED
  BY <1>1 DEF Begins

LEMMA BeginsMore ==
    ASSUME original \in Seq(Bytes), UNCHANGED original, file \in Seq(Bytes),
           NEW a \in Seq(Bytes), NEW b \in Seq(Bytes), Begins(a), file' = Overwrite(Len(a), b)
    PROVE  Begins(a \o b)'
<1> DEFINE rest == SubSeq(original, Len(a) + 1, Len(original))
<1>0. Len(a) \in Nat /\ Len(b) \in Nat /\ Len(a) + 1 \in Nat \ {0} /\ Len(b) + 1 \in Nat \ {0}
      /\ Len(a \o b) = Len(a) + Len(b)
      /\ (Len(a) + 1) + (Len(b) + 1) - 1 = Len(a) + Len(b) + 1
  BY ConcatProperties, LenProperties
<1>1. rest \in Seq(Bytes) /\ file = a \o rest
  BY <1>0, RestOf DEF Begins
<1>2. \A r : r = rest => SubSeq(r, Len(b) + 1, Len(r))
                           = SubSeq(original, (Len(a) + 1) + (Len(b) + 1) - 1, Len(original))
  BY <1>0, RestOfRest, Zenon
<1>. HIDE DEF rest
<1>3. Overwrite(Len(a), b) = a \o b \o SubSeq(rest, Len(b) + 1, Len(rest))
  BY <1>1, WrittenOver, Zenon
<1>4. SubSeq(rest, Len(b) + 1, Len(rest)) = SubSeq(original, Len(a \o b) + 1, Len(original))
  BY <1>0, <1>2
<1>5. file' = a \o b \o SubSeq(original, Len(a \o b) + 1, Len(original))
  BY <1>3, <1>4, Zenon
<1>. QED
  BY <1>5 DEF Begins

(* A move of a process at a write of a text of two bytes.                  *)
LEMMA PutsPart ==
    ASSUME Base, NEW p \in Procs, Moves(p), NEW text \in Seq(Bytes), Len(text) = 2,
           Now(p).op = "write_file", Now(p).text = text, Now(p).append = FALSE, Now(p).again = FALSE
    PROVE  \/ CallFails(p) /\ UNCHANGED <<file, offset, torn>> /\ faults' # 0
           \/ \E n \in 1 .. 2 :
                 /\ file' = Overwrite(offset, SubSeq(text, 1, n)) /\ offset' = offset + n
                 /\ GoOn(p, <<>>)
                 /\ UNCHANGED <<life, ends>>
                 /\ n = 1 => torn' /\ faults' # 0
<1>0. ~Now(p).again
  OBVIOUS
<1>1. faults \in Nat
  BY ProcessesAssumption DEF Base, FaultsTyped
<1>2. CASE CallFails(p)
  BY <1>1, <1>2 DEF CallFails, io, disk
<1>3. CASE ShortWrite(p)
  <2>1. PICK n \in 1 .. (Len(Now(p).text) - 1) :
           /\ PutBytes(p, n)
           /\ GoOn(p, IF Now(p).again
                      THEN <<[Now(p) EXCEPT !.text = SubSeq(@, n + 1, Len(@))]>> ELSE <<>>)
    BY <1>3 DEF ShortWrite
  <2>2. n = 1 /\ GoOn(p, <<>>)
    <3>1. Len(Now(p).text) - 1 = 1
      OBVIOUS
    <3>2. \A k : Len(Now(p).text) - 1 = k => n \in 1 .. k
      OBVIOUS
    <3>3. n \in 1 .. 1
      BY <3>1, <3>2, Zenon
    <3>4. n = 1
      BY <3>3
    <3>. QED
      BY <1>0, <2>1, <3>4, Zenon
  <2>3. torn' /\ faults' # 0
    <3>1. torn' = (torn \/ ~Now(p).again) /\ faults' = faults + 1
      BY <1>3, Zenon DEF ShortWrite
    <3>2. torn'
      BY <1>0, <3>1, Zenon
    <3>. QED
      BY <1>1, <3>1, <3>2
  <2>4. /\ file' = Overwrite(offset, SubSeq(text, 1, 1)) /\ offset' = offset + 1
        /\ UNCHANGED <<life, ends>>
    BY <2>1, <2>2 DEF PutBytes
  <2>5. 1 \in 1 .. 2
    OBVIOUS
  <2>. QED
    BY <2>2, <2>3, <2>4, <2>5, Zenon
<1>4. CASE Step(p)
  <2>1. DoWriteFile(p)
    BY <1>4, StepOfCall
  <2>2. /\ file' = Overwrite(offset, SubSeq(text, 1, 2)) /\ offset' = offset + 2
        /\ UNCHANGED <<life, ends>> /\ GoOn(p, <<>>)
    BY <2>1 DEF DoWriteFile, PutBytes
  <2>. QED
    BY <2>2
<1>. QED
  BY <1>2, <1>3, <1>4 DEF Moves

LEMMA TwoTexts ==
    /\ Len(New) = 2 /\ Len(Old) = 2 /\ New \in Seq(Bytes) /\ Old \in Seq(Bytes)
<1>1. New \in Seq(Bytes) /\ Old \in Seq(Bytes)
  BY TextsTyped DEF New, Old
<1>2. Len(New) = 2 /\ Len(Old) = 2
  BY DEF Text, New, Old
<1>. QED
  BY <1>1, <1>2

(* Without newfd, oldfd is written alone, and the program fails.           *)
LEMMA WithoutNewfd ==
    ASSUME Base, UNCHANGED program, program = "2_6", Running(Parent)
    PROVE  /\ AtCall(2) /\ GoOn(Parent, OldAlone) => code'[Parent] = OldAlone \o Left(Main_2_6, 3)
           /\ code[Parent] = OldAlone \o Left(Main_2_6, 3) =>
                 /\ Now(Parent) = WriteFile(Old, <<>>)
                 /\ GoOn(Parent, <<>>) => Escaping'
<1> DEFINE rest == Left(Main_2_6, 3)
           write == WriteFile(Old, <<>>)
           S == ParentCalls \cup {write, Exit(-3)}
<1>1. Main_2_6 \in Seq(ParentCalls) /\ Len(Main_2_6) = 5 /\ Main(program) = Main_2_6
  BY Start_2_6 DEF Starts, Main_2_6, Main
<1>2. rest \in Seq(ParentCalls) /\ Tail(Left(Main_2_6, 2)) = rest
  <2>1. 2 \in 1 .. Len(Main_2_6) /\ 3 \in 1 .. Len(Main_2_6) /\ 2 + 1 = 3
    BY <1>1
  <2>2. Left(Main_2_6, 3) \in Seq(ParentCalls)
    BY <1>1, <2>1, LeftOf
  <2>3. Tail(Left(Main_2_6, 2)) = Left(Main_2_6, 2 + 1)
    BY <1>1, <2>1, LeftOf
  <2>. QED
    BY <2>1, <2>2, <2>3
<1>3. AtCall(2) /\ GoOn(Parent, OldAlone) => code'[Parent] = OldAlone \o rest
  BY <1>1, <1>2, ParentGoesOn DEF AtCall
<1>. HIDE DEF rest
<1>. HIDE DEF write
<1>4. /\ OldAlone \in Seq(S) /\ OldAlone # <<>> /\ OldAlone[1] = write
      /\ Tail(OldAlone) = <<Exit(-3)>>
  <2>1. OldAlone = <<write, Exit(-3)>>
    BY DEF OldAlone, write
  <2>. QED
    BY <2>1
<1>5. <<Exit(-3)>> \in Seq(S) /\ <<Exit(-3)>> # <<>> /\ <<Exit(-3)>>[1] = Exit(-3) /\ rest \in Seq(S)
  BY <1>2
<1>. HIDE DEF S
<1>6. Head(OldAlone \o rest) = write /\ Tail(OldAlone \o rest) = <<Exit(-3)>> \o rest
  BY <1>4, <1>5, HeadTailOfConcat
<1>7. Head(<<Exit(-3)>> \o rest) = Exit(-3)
  BY <1>5, HeadTailOfConcat
<1>8. ASSUME code[Parent] = OldAlone \o rest
      PROVE  Now(Parent) = write /\ (GoOn(Parent, <<>>) => Escaping')
  <2>1. GoOn(Parent, <<>>) => code'[Parent] = <<Exit(-3)>> \o rest
    BY <1>6, <1>8, ParentGoesOn
  <2>. QED
    BY <1>6, <1>7, <1>8, <2>1, BadStatuses DEF Now, Escaping
<1>. QED
  BY <1>3, <1>8 DEF rest, write

LEMMA DuplicatesStep ==
    ASSUME Base, [Next]_vars, program = "2_6", original \in Seq(Bytes), Duplicates
    PROVE  Duplicates'
<1> DEFINE alone == code[Parent] = OldAlone \o Left(Main_2_6, 3)
<1>1. /\ \A c \in Children : run[c] = "none"
      /\ Running(Parent) =>
            \/ Escaping
            \/ AtCall(1) /\ file = original
            \/ AtCall(2) /\ file = original /\ offset = 0
            \/ AtCall(3) /\ file = original /\ offset = 0
            \/ alone
            \/ AtCall(4) /\ NewWritten
            \/ AtCall(5) /\ BothWritten
      /\ Succeeded(Parent) => BothWritten
  BY Zenon DEF Duplicates, Alone
<1>2. UNCHANGED <<program, original>> /\ Parent \in Procs /\ faults \in Nat
      /\ file \in Seq(Bytes) /\ (faults' = 0 => faults = 0)
  BY FaultsGrow, ProcessesAssumption DEF Next, vars, Procs, Base, FileTyped, FaultsTyped
<1>3. Running(Parent) =>
          /\ AtCall(1) => Now(Parent) = OpenFile(FALSE, <<Exit(-2)>>)
          /\ AtCall(2) => Now(Parent) = Dup(OldAlone)
          /\ AtCall(3) => Now(Parent) = WriteFile(New, <<>>)
          /\ AtCall(4) => Now(Parent) = WriteFile(Old, <<>>)
          /\ AtCall(5) => Now(Parent) = Exit(0)
          /\ alone => Now(Parent) = WriteFile(Old, <<>>)
  BY <1>2, At_2_6, WithoutNewfd, Zenon DEF New, Old, OldAlone
<1>4. /\ OpenFile(FALSE, <<Exit(-2)>>).op = "open" /\ OpenFile(FALSE, <<Exit(-2)>>).truncate = FALSE
      /\ OpenFile(FALSE, <<Exit(-2)>>).fail = <<Exit(-2)>>
      /\ Dup(OldAlone).op = "dup" /\ Dup(OldAlone).fail = OldAlone
      /\ \A t : /\ WriteFile(t, <<>>).op = "write_file" /\ WriteFile(t, <<>>).text = t
                /\ WriteFile(t, <<>>).append = FALSE /\ WriteFile(t, <<>>).again = FALSE
                /\ WriteFile(t, <<>>).fail = <<>>
  BY DEF OpenFile, Dup, WriteFile
<1>. HIDE DEF alone
<1>5. Running(Parent) =>
          /\ AtCall(1) => Now(Parent).op = "open"
          /\ AtCall(2) => Now(Parent).op = "dup"
          /\ AtCall(3) \/ AtCall(4) \/ alone => Now(Parent).op = "write_file"
          /\ AtCall(5) => Now(Parent).op = "exit"
  BY <1>3 DEF OpenFile, Dup, WriteFile, Exit
<1>6. Running(Parent) => Now(Parent).op \notin {"fork", "suspend"}
  BY <1>1, <1>5 DEF Escaping
<1>7. /\ \A c \in Children : run'[c] = "none"
      /\ \/ Same
         \/ Running(Parent) /\ ~Running(Parent)' /\ ~Succeeded(Parent)'
         \/ /\ Running(Parent) /\ Now(Parent).op = "exit" /\ ~Escaping
            /\ ~Running(Parent)' /\ UNCHANGED <<faults, pipe, written, got, disk>>
         \/ /\ Moves(Parent) /\ Running(Parent)'
            /\ Now(Parent).op # "exit" /\ UNCHANGED run
  BY <1>1, <1>6, AloneStep DEF Overrun
<1>8. UNCHANGED <<file, offset, faults>> => (NewWritten' <=> NewWritten) /\ (BothWritten' <=> BothWritten)
  BY <1>2 DEF NewWritten, BothWritten, Follows, Begins
<1>9. SUFFICES
         /\ \A c \in Children : run'[c] = "none"
         /\ Running(Parent)' =>
               \/ Escaping'
               \/ AtCall(1)' /\ file' = original
               \/ AtCall(2)' /\ file' = original /\ offset' = 0
               \/ AtCall(3)' /\ file' = original /\ offset' = 0
               \/ alone'
               \/ AtCall(4)' /\ NewWritten'
               \/ AtCall(5)' /\ BothWritten'
         /\ Succeeded(Parent)' => BothWritten'
  BY <1>2 DEF Duplicates, Alone, alone
<1>10. CASE Same
  <2>1. alone' <=> alone
    BY <1>10, SameKeeps DEF alone
  <2>2. /\ (AtCall(1)' <=> AtCall(1)) /\ (AtCall(2)' <=> AtCall(2)) /\ (AtCall(3)' <=> AtCall(3))
        /\ (AtCall(4)' <=> AtCall(4)) /\ (AtCall(5)' <=> AtCall(5))
        /\ (Running(Parent)' <=> Running(Parent)) /\ (Succeeded(Parent)' <=> Succeeded(Parent))
        /\ Escaping' <=> Escaping
        /\ UNCHANGED <<file, offset, faults>>
    BY <1>10, SameKeeps
  <2>. QED
    BY <1>1, <1>7, <1>8, <2>1, <2>2
<1>11. CASE ~Running(Parent)' /\ ~Succeeded(Parent)'
  BY <1>7, <1>11
<1>12. CASE /\ Running(Parent) /\ Now(Parent).op = "exit" /\ ~Escaping
            /\ ~Running(Parent)' /\ UNCHANGED <<faults, pipe, written, got, disk>>
  <2>1. UNCHANGED <<file, offset, faults>>
    BY <1>12 DEF disk
  <2>. QED
    BY <1>1, <1>3, <1>4, <1>7, <1>8, <1>12, <2>1
<1>13. CASE Moves(Parent) /\ Running(Parent)' /\ Now(Parent).op # "exit" /\ UNCHANGED run
  <2>0. Running(Parent) /\ ~Escaping /\ ~Succeeded(Parent)'
    BY <1>13 DEF Moves, Escaping, Succeeded, Running
  <2>2. /\ AtCall(1) /\ GoOn(Parent, <<>>) => AtCall(2)'
        /\ AtCall(2) /\ GoOn(Parent, <<>>) => AtCall(3)'
        /\ AtCall(3) /\ GoOn(Parent, <<>>) => AtCall(4)'
        /\ AtCall(4) /\ GoOn(Parent, <<>>) => AtCall(5)'
    BY <1>2, <2>0, At_2_6, Zenon
  <2>3. /\ AtCall(2) /\ GoOn(Parent, OldAlone) => alone'
        /\ alone /\ GoOn(Parent, <<>>) => Escaping'
    BY <1>2, <2>0, WithoutNewfd, Zenon DEF alone
  <2>4. CASE AtCall(1) /\ file = original
    <3>1. Now(Parent).op = "open" /\ Now(Parent).truncate = FALSE /\ Now(Parent).fail = <<Exit(-2)>>
      BY <1>3, <1>4, <2>0, <2>4
    <3>2. CASE CallFails(Parent)
      BY <1>7, <2>0, <3>1, <3>2, ParentFails, BadStatuses
    <3>3. CASE Step(Parent)
      <4>1. DoOpenFile(Parent)
        BY <3>1, <3>3, StepOfCall
      <4>2. offset' = 0 /\ file' = original /\ GoOn(Parent, <<>>)
        BY <2>4, <3>1, <4>1 DEF DoOpenFile
      <4>. QED
        BY <1>7, <2>0, <2>2, <2>4, <4>2
    <3>. QED
      BY <1>13, <3>1, <3>2, <3>3, MoveOfCall
  <2>5. CASE AtCall(2) /\ file = original /\ offset = 0
    <3>1. Now(Parent).op = "dup" /\ Now(Parent).fail = OldAlone
      BY <1>3, <1>4, <2>0, <2>5
    <3>2. CASE CallFails(Parent)
      BY <1>7, <2>0, <2>3, <2>5, <3>1, <3>2 DEF CallFails
    <3>3. CASE Step(Parent)
      <4>1. DoDup(Parent)
        BY <3>1, <3>3, StepOfCall
      <4>2. offset' = 0 /\ file' = original /\ GoOn(Parent, <<>>)
        BY <2>5, <4>1 DEF DoDup, io, disk
      <4>. QED
        BY <1>7, <2>0, <2>2, <2>5, <4>2
    <3>. QED
      BY <1>13, <3>1, <3>2, <3>3, MoveOfCall
  <2>6. CASE AtCall(3) /\ file = original /\ offset = 0
    <3>1. /\ Now(Parent).op = "write_file" /\ Now(Parent).text = New /\ Now(Parent).append = FALSE
          /\ Now(Parent).again = FALSE /\ Now(Parent).fail = <<>>
      BY <1>3, <1>4, <2>0, <2>6
    <3>2. CASE CallFails(Parent) /\ UNCHANGED <<file, offset, torn>> /\ faults' # 0
      <4>1. GoOn(Parent, <<>>)
        BY <3>1, <3>2 DEF CallFails
      <4>2. Begins(SubSeq(New, 1, 0))
        <5>1. SubSeq(New, 1, 0) = <<>>
          BY TwoTexts, FirstPart
        <5>. QED
          BY <2>6, <5>1, BeginsWithNothing
      <4>3. Begins(SubSeq(New, 1, 0))' /\ offset' = 0
        BY <1>2, <2>6, <3>2, <4>2 DEF Begins
      <4>4. NewWritten'
        BY <3>2, <4>3 DEF NewWritten
      <4>. QED
        BY <1>7, <2>0, <2>2, <2>6, <4>1, <4>4
    <3>3. ASSUME NEW n \in 1 .. 2,
                 file' = Overwrite(offset, SubSeq(New, 1, n)), offset' = offset + n,
                 GoOn(Parent, <<>>), n = 1 => faults' # 0
          PROVE  NewWritten'
      <4>1. Begins(SubSeq(New, 1, n))'
        <5>1. SubSeq(New, 1, n) \in Seq(Bytes)
          BY TwoTexts, FirstPart
        <5>. QED
          BY <1>2, <2>6, <3>3, <5>1, BeginsFirst
      <4>2. offset' = n
        BY <2>6, <3>3
      <4>. QED
        BY <3>3, <4>1, <4>2 DEF NewWritten
    <3>4. \/ CallFails(Parent) /\ UNCHANGED <<file, offset, torn>> /\ faults' # 0
          \/ \E n \in 1 .. 2 :
                /\ file' = Overwrite(offset, SubSeq(New, 1, n)) /\ offset' = offset + n
                /\ GoOn(Parent, <<>>)
                /\ UNCHANGED <<life, ends>>
                /\ n = 1 => torn' /\ faults' # 0
      BY <1>2, <1>13, <3>1, TwoTexts, PutsPart
    <3>. QED
      BY <1>7, <2>0, <2>2, <2>6, <3>2, <3>3, <3>4
  <2>7. CASE AtCall(4) /\ NewWritten
    <3>1. /\ Now(Parent).op = "write_file" /\ Now(Parent).text = Old /\ Now(Parent).append = FALSE
          /\ Now(Parent).again = FALSE /\ Now(Parent).fail = <<>>
      BY <1>3, <1>4, <2>0, <2>7
    <3>0. PICK i \in 0 .. 2 : offset = i /\ Begins(SubSeq(New, 1, i)) /\ (faults = 0 => i = 2)
      BY <2>7 DEF NewWritten
    <3> DEFINE a == SubSeq(New, 1, i)
    <3>5. a \in Seq(Bytes) /\ Len(a) = i /\ (i = 2 => a = New) /\ Begins(a)
      BY <3>0, TwoTexts, FirstPart
    <3>. HIDE DEF a
    <3>6. ASSUME NEW j \in 0 .. 2, Begins(a \o SubSeq(Old, 1, j))', faults' = 0 => j = 2
          PROVE  BothWritten'
      <4>1. Follows(New, Old)'
        BY <3>6, TwoTexts DEF Follows, a
      <4>2. faults' = 0 => Begins(New \o Old)'
        BY <1>2, <3>0, <3>5, <3>6, TwoTexts, FirstPart
      <4>. QED
        BY <4>1, <4>2 DEF BothWritten
    <3>2. CASE CallFails(Parent) /\ UNCHANGED <<file, offset, torn>> /\ faults' # 0
      <4>1. GoOn(Parent, <<>>)
        BY <3>1, <3>2 DEF CallFails
      <4>2. a \o SubSeq(Old, 1, 0) = a
        <5>1. SubSeq(Old, 1, 0) = <<>>
          BY TwoTexts, FirstPart
        <5>. QED
          BY <3>5, <5>1, ConcatEmptySeq
      <4>3. Begins(a \o SubSeq(Old, 1, 0))'
        BY <1>2, <3>2, <3>5, <4>2 DEF Begins
      <4>4. BothWritten'
        BY <3>2, <3>6, <4>3
      <4>. QED
        BY <1>7, <2>0, <2>2, <2>7, <4>1, <4>4
    <3>3. ASSUME NEW n \in 1 .. 2,
                 file' = Overwrite(offset, SubSeq(Old, 1, n)), offset' = offset + n,
                 GoOn(Parent, <<>>), n = 1 => faults' # 0
          PROVE  BothWritten'
      <4>1. SubSeq(Old, 1, n) \in Seq(Bytes)
        BY TwoTexts, FirstPart
      <4>2. Begins(a \o SubSeq(Old, 1, n))'
        BY <1>2, <3>0, <3>3, <3>5, <4>1, BeginsMore
      <4>. QED
        BY <3>3, <3>6, <4>2
    <3>4. \/ CallFails(Parent) /\ UNCHANGED <<file, offset, torn>> /\ faults' # 0
          \/ \E n \in 1 .. 2 :
                /\ file' = Overwrite(offset, SubSeq(Old, 1, n)) /\ offset' = offset + n
                /\ GoOn(Parent, <<>>)
                /\ UNCHANGED <<life, ends>>
                /\ n = 1 => torn' /\ faults' # 0
      BY <1>2, <1>13, <3>1, TwoTexts, PutsPart
    <3>. QED
      BY <1>7, <2>0, <2>2, <2>7, <3>2, <3>3, <3>4
  <2>8. ~AtCall(5)
    BY <1>3, <1>13, <2>0, BadStatuses
  <2>9. CASE alone
    <3>1. /\ Now(Parent).op = "write_file" /\ Now(Parent).text = Old /\ Now(Parent).append = FALSE
          /\ Now(Parent).again = FALSE /\ Now(Parent).fail = <<>>
      BY <1>3, <1>4, <2>0, <2>9
    <3>2. GoOn(Parent, <<>>)
      <4>1. CallFails(Parent) => GoOn(Parent, <<>>)
        BY <3>1 DEF CallFails
      <4>. QED
        BY <1>2, <1>13, <3>1, <4>1, TwoTexts, PutsPart
    <3>. QED
      BY <1>7, <2>0, <2>3, <2>9, <3>2
  <2>. QED
    BY <1>1, <2>0, <2>4, <2>5, <2>6, <2>7, <2>8, <2>9
<1>. QED
  BY <1>7, <1>10, <1>11, <1>12, <1>13

LEMMA InitDuplicates ==
    ASSUME Init, program = "2_6", Base
    PROVE  Duplicates
<1>1. Parent \in Procs /\ \A c \in Children : run[c] = "none"
  BY ProcessesAssumption DEF Procs, Init, Booted
<1>2. code[Parent] = Main(program) /\ run[Parent] = "running" /\ file = original
  BY <1>1 DEF Init, Booted
<1>3. Left(Main(program), 1) = Main(program)
  <2>1. Main(program) = Main_2_6
    BY DEF Main
  <2>. QED
    BY <2>1, Start_2_6, SubSeqFull DEF Left, Starts
<1>. QED
  BY <1>1, <1>2, <1>3 DEF Duplicates, Alone, AtCall, Succeeded

-----------------------------------------------------------------------------
(* 2_4 writes and reads at the offsets that it seeks                       *)

LEMMA ReadAtLeast ==
    ASSUME NEW bytes \in Nat, NEW size \in Nat, bytes <= size
    PROVE  Min({bytes, Max({0, size - 0})}) = bytes
<1> DEFINE left == Max({0, size - 0})
<1>1. 0 \in Int /\ size - 0 \in Int
  OBVIOUS
<1>2. left \in {0, size - 0} /\ left >= 0 /\ left >= size - 0
  BY <1>1, MinMax
<1>. HIDE DEF left
<1>3. bytes \in Int /\ left \in Int /\ left = size
  BY <1>1, <1>2
<1>4. Min({bytes, left}) \in {bytes, left} /\ Min({bytes, left}) <= bytes /\ Min({bytes, left}) <= left
  BY <1>3, MinMax
<1>. QED
  BY <1>3, <1>4 DEF left

LEMMA DigitsCut ==
    /\ Digits \in Seq(Bytes) /\ Len(Digits) = 19
    /\ SubSeq(Digits, 1, 2) \in Seq(Bytes) /\ Len(SubSeq(Digits, 1, 2)) = 2
    /\ SubSeq(Digits, 3, Len(Digits)) \in Seq(Bytes) /\ Len(SubSeq(Digits, 3, Len(Digits))) = 17
    /\ Digits = SubSeq(Digits, 1, 2) \o SubSeq(Digits, 3, Len(Digits))
    /\ SubSeq(SubSeq(Digits, 3, Len(Digits)), 3, 17) = SubSeq(Digits, 5, 19)
    /\ SubSeq(Digits, 5, 19) \in Seq(Bytes) /\ Len(SubSeq(Digits, 5, 19)) = 15
<1> DEFINE D == Digits
<1>1. D \in Seq(Bytes) /\ Len(D) = 19
  <2>1. D \in Seq(Bytes)
    BY TextsTyped DEF Digits
  <2>2. Len(D) = 19
    BY DEF Digits, Text
  <2>. QED
    BY <2>1, <2>2
<1>. HIDE DEF D
<1>2. 3 \in Nat \ {0} /\ 5 \in Nat \ {0} /\ 3 <= Len(D) /\ 5 <= Len(D)
      /\ Len(D) - 3 + 1 = 17 /\ Len(D) - 5 + 1 = 15 /\ 3 + 3 - 1 = 5
  BY <1>1
<1>3. SubSeq(D, 3, Len(D)) \in Seq(Bytes) /\ Len(SubSeq(D, 3, Len(D))) = 17
  BY <1>1, <1>2, RestOf
<1>4. SubSeq(D, 5, Len(D)) \in Seq(Bytes) /\ Len(SubSeq(D, 5, Len(D))) = 15
  BY <1>1, <1>2, RestOf
<1>5. SubSeq(D, 1, 2) \in Seq(Bytes) /\ Len(SubSeq(D, 1, 2)) = 2
  <2>1. \A i \in 1 .. Len(D) : D[i] \in Bytes
    BY <1>1, ElementOfSeq, Zenon
  <2>2. \A i \in 1 .. 2 : i \in 1 .. Len(D)
    BY <1>1
  <2>3. \A i \in 1 .. 2 : D[i] \in Bytes
    BY <2>1, <2>2, Zenon
  <2>. QED
    BY <2>3, SubSeqProperties
<1>6. D = SubSeq(D, 1, 2) \o SubSeq(D, 3, Len(D))
  <2>1. 1 \in 1 .. Len(D) + 1 /\ 2 \in 1 - 1 .. Len(D) /\ Len(D) \in 2 .. Len(D) /\ 2 + 1 = 3
    BY <1>1
  <2>2. SubSeq(D, 1, 2) \o SubSeq(D, 2 + 1, Len(D)) = SubSeq(D, 1, Len(D))
    BY <1>1, <2>1, ConcatAdjacentSubSeq, Zenon
  <2>3. SubSeq(D, 1, Len(D)) = D
    BY <1>1, SubSeqFull
  <2>. QED
    BY <2>1, <2>2, <2>3
<1>7. SubSeq(SubSeq(D, 3, Len(D)), 3, 17) = SubSeq(D, 5, Len(D))
  <2>1. \A r : r = SubSeq(D, 3, Len(D)) =>
               SubSeq(r, 3, Len(r)) = SubSeq(D, 3 + 3 - 1, Len(D))
    BY <1>1, <1>2, RestOfRest, Zenon
  <2>. QED
    BY <1>2, <1>3, <2>1
<1>8. SubSeq(D, 5, Len(D)) = SubSeq(D, 5, 19)
  BY <1>1
<1>. QED
  BY <1>1, <1>3, <1>4, <1>5, <1>6, <1>7, <1>8 DEF D

LEMMA Joined ==
    ASSUME NEW S, NEW s \in Seq(S), NEW t \in Seq(S)
    PROVE  \A u : u = s \o t => u \in Seq(S) /\ Len(u) = Len(s) + Len(t)
BY ConcatProperties

LEMMA ZeroedTyped ==
    /\ Zeroed \in Seq(Bytes) /\ Len(Zeroed) = 19
    /\ Text("tabbed", 11) \in Seq(Bytes) /\ Len(Text("tabbed", 11)) = 11
    /\ Text("00", 2) \in Seq(Bytes) /\ Len(Text("00", 2)) = 2
    /\ Tabbed \in Seq(Bytes) /\ Len(Tabbed) = 30
    /\ SubSeq(Tabbed, 1, 19) = Zeroed
<1> DEFINE a == SubSeq(Digits, 1, 2)
           t == Text("00", 2)
           c == SubSeq(Digits, 5, 19)
           y == a \o t
           tab == Text("tabbed", 11)
<1>1. t \in Seq(Bytes) /\ tab \in Seq(Bytes)
  BY TextsTyped
<1>2. Len(t) = 2 /\ Len(tab) = 11
  BY DEF Text
<1>3. a \in Seq(Bytes) /\ Len(a) = 2 /\ c \in Seq(Bytes) /\ Len(c) = 15
  BY DigitsCut
<1>4. Zeroed = y \o c /\ Tabbed = Zeroed \o tab
  BY DEF Zeroed, Tabbed
<1>. HIDE DEF a, t, c, tab
<1>. HIDE DEF y
<1>5. y \in Seq(Bytes) /\ Len(y) = 4
  <2>1. y = a \o t
    BY DEF y
  <2>2. y \in Seq(Bytes) /\ Len(y) = Len(a) + Len(t)
    <3>1. y = a \o t => y \in Seq(Bytes) /\ Len(y) = Len(a) + Len(t)
      <4>1. \A u : u = a \o t => u \in Seq(Bytes) /\ Len(u) = Len(a) + Len(t)
        BY <1>1, <1>3, Joined
      <4>. QED
        BY <4>1, Zenon
    <3>. QED
      BY <2>1, <3>1, Zenon
  <2>. QED
    BY <1>2, <1>3, <2>2
<1>6. Zeroed \in Seq(Bytes) /\ Len(Zeroed) = 19
  <2>1. Zeroed \in Seq(Bytes) /\ Len(Zeroed) = Len(y) + Len(c)
    <3>1. y \in Seq(Bytes) /\ c \in Seq(Bytes)
      BY <1>3, <1>5
    <3>2. \A u : u = y \o c => u \in Seq(Bytes) /\ Len(u) = Len(y) + Len(c)
      BY <3>1, Joined
    <3>. QED
      BY <1>4, <3>2, Zenon
  <2>. QED
    BY <1>3, <1>5, <2>1
<1>7. Tabbed \in Seq(Bytes) /\ Len(Tabbed) = 30
  <2>0. Zeroed \in Seq(Bytes) /\ tab \in Seq(Bytes) /\ Tabbed = Zeroed \o tab
    BY <1>1, <1>4, <1>6, Zenon
  <2>2. \A u : u = Zeroed \o tab => u \in Seq(Bytes) /\ Len(u) = Len(Zeroed) + Len(tab)
    BY <2>0, Joined
  <2>1. Tabbed \in Seq(Bytes) /\ Len(Tabbed) = Len(Zeroed) + Len(tab)
    BY <2>0, <2>2
  <2>. QED
    BY <1>2, <1>6, <2>1
<1>8. SubSeq(Tabbed, 1, 19) = Zeroed
  <2>1. 1 \in 1 .. Len(Zeroed) /\ 19 \in 1 .. Len(Zeroed)
    BY <1>6
  <2>2. SubSeq(Zeroed \o tab, 1, 19) = SubSeq(Zeroed, 1, 19)
    BY <1>1, <1>6, <2>1, SubSeqOfConcat1, Zenon
  <2>3. SubSeq(Zeroed, 1, Len(Zeroed)) = Zeroed
    BY <1>6, SubSeqFull
  <2>. QED
    BY <1>4, <1>6, <2>2, <2>3
<1>. QED
  BY <1>1, <1>2, <1>6, <1>7, <1>8 DEF t, tab

LEMMA Sought ==
    ASSUME file \in Seq(Bytes)
    PROVE  /\ file = <<>> => Overwrite(0, Digits) = Digits
           /\ file = Digits => Overwrite(2, Text("00", 2)) = Zeroed
           /\ file = Zeroed => Overwrite(19, Text("tabbed", 11)) = Tabbed
<1>1. ASSUME file = <<>>
      PROVE  Overwrite(0, Digits) = Digits
  <2>1. Overwrite(Len(file), Digits) = file \o Digits
    BY DigitsCut, AtTheEnd
  <2>2. Len(file) = 0 /\ file \o Digits = Digits
    BY <1>1, DigitsCut, ConcatEmptySeq
  <2>. QED
    BY <2>1, <2>2
<1>2. ASSUME file = Digits
      PROVE  Overwrite(2, Text("00", 2)) = Zeroed
  <2> DEFINE a == SubSeq(Digits, 1, 2)
             b == SubSeq(Digits, 3, Len(Digits))
             c == SubSeq(Digits, 5, 19)
             t == Text("00", 2)
  <2>1. /\ a \in Seq(Bytes) /\ b \in Seq(Bytes) /\ t \in Seq(Bytes)
        /\ Len(a) = 2 /\ Len(b) = 17 /\ Len(t) = 2
        /\ SubSeq(b, 3, 17) = c
    BY DigitsCut, ZeroedTyped
  <2>2. file = a \o b
    BY <1>2, DigitsCut
  <2>3. Zeroed = a \o t \o c
    BY DEF Zeroed
  <2>. HIDE DEF a, b, c, t
  <2>4. Overwrite(Len(a), t) = a \o t \o SubSeq(b, Len(t) + 1, Len(b))
    BY <2>1, <2>2, WrittenOver, Zenon
  <2>5. Len(t) + 1 = 3
    BY <2>1
  <2>6. Overwrite(2, t) = Zeroed
    BY <2>1, <2>3, <2>4, <2>5
  <2>. QED
    BY <2>6 DEF t
<1>3. ASSUME file = Zeroed
      PROVE  Overwrite(19, Text("tabbed", 11)) = Tabbed
  <2>1. Overwrite(Len(file), Text("tabbed", 11)) = file \o Text("tabbed", 11)
    BY ZeroedTyped, AtTheEnd
  <2>. QED
    BY <1>3, <2>1, ZeroedTyped DEF Tabbed
<1>. QED
  BY <1>1, <1>2, <1>3

LEMMA SeekingStep ==
    ASSUME Base, [Next]_vars, program = "2_4", Seeking, faults' = 0
    PROVE  Seeking'
<1> DEFINE D == Digits
           Z == Zeroed
           T == Tabbed
           zeros == Text("00", 2)
           tab == Text("tabbed", 11)
           nine == SubSeq(Zeroed, 11, 19)
           all == nine \o Zeroed
<1>1. /\ \A c \in Children : run[c] = "none"
      /\ Running(Parent) =>
            \/ Escaping
            \/ AtCall(1) /\ buffer = <<>>
            \/ AtCall(2) /\ file = <<>> /\ offset = 0 /\ buffer = <<>>
            \/ AtCall(3) /\ file = <<>> /\ offset = 0 /\ buffer = <<>>
            \/ AtCall(4) /\ file = D /\ buffer = <<>>
            \/ AtCall(5) /\ file = D /\ buffer = <<>>
            \/ AtCall(6) /\ file = D /\ offset = 2 /\ buffer = <<>>
            \/ AtCall(7) /\ file = Z /\ offset = 4 /\ buffer = <<>>
            \/ AtCall(8) /\ file = Z /\ offset = 10 /\ buffer = <<>>
            \/ AtCall(9) /\ file = Z /\ buffer = nine
            \/ AtCall(10) /\ file = Z /\ offset = 19 /\ buffer = nine
            \/ AtCall(11) /\ file = T /\ buffer = nine
            \/ AtCall(12) /\ file = T /\ buffer = nine
            \/ AtCall(13) /\ file = T /\ offset = 0 /\ buffer = nine
            \/ AtCall(14) /\ file = T /\ buffer = all
      /\ Succeeded(Parent) => file = T /\ buffer = all
  <2>1. faults = 0
    BY FaultsGrow
  <2>. QED
    BY <2>1, Zenon DEF Seeking, Alone
<1>2. UNCHANGED <<program, original>>
  BY DEF Next, vars
<1>3. Running(Parent) =>
          /\ AtCall(1) => Now(Parent) = OpenFile(TRUE, <<Exit(-2)>>)
          /\ AtCall(2) => Now(Parent) = LSeek(0, "SET")
          /\ AtCall(3) => Now(Parent) = WriteFile(Digits, <<>>)
          /\ AtCall(4) => Now(Parent) = LSeek(0, "CUR")
          /\ AtCall(5) => Now(Parent) = LSeek(2, "SET")
          /\ AtCall(6) => Now(Parent) = WriteFile(Text("00", 2), <<>>)
          /\ AtCall(7) => Now(Parent) = LSeek(6, "CUR")
          /\ AtCall(8) => Now(Parent) = ReadFile(10, 100, FALSE, <<>>)
          /\ AtCall(9) => Now(Parent) = LSeek(0, "END")
          /\ AtCall(10) => Now(Parent) = WriteFile(Text("tabbed", 11), <<>>)
          /\ AtCall(11) => Now(Parent) = LSeek(0, "CUR")
          /\ AtCall(12) => Now(Parent) = LSeek(0, "SET")
          /\ AtCall(13) => Now(Parent) = ReadFile(19, 100, FALSE, <<>>)
          /\ AtCall(14) => Now(Parent) = Exit(0)
  BY <1>2, At_2_4, Zenon
<1>4. Running(Parent) =>
          /\ AtCall(1) => Now(Parent).op = "open"
          /\ AtCall(2) => Now(Parent).op = "lseek" /\ Now(Parent).by = 0 /\ Now(Parent).from = "SET"
          /\ AtCall(4) => Now(Parent).op = "lseek" /\ Now(Parent).by = 0 /\ Now(Parent).from = "CUR"
          /\ AtCall(5) => Now(Parent).op = "lseek" /\ Now(Parent).by = 2 /\ Now(Parent).from = "SET"
          /\ AtCall(7) => Now(Parent).op = "lseek" /\ Now(Parent).by = 6 /\ Now(Parent).from = "CUR"
          /\ AtCall(9) => Now(Parent).op = "lseek" /\ Now(Parent).by = 0 /\ Now(Parent).from = "END"
          /\ AtCall(11) => Now(Parent).op = "lseek" /\ Now(Parent).by = 0 /\ Now(Parent).from = "CUR"
          /\ AtCall(12) => Now(Parent).op = "lseek" /\ Now(Parent).by = 0 /\ Now(Parent).from = "SET"
  BY <1>3 DEF OpenFile, LSeek
<1>5. Running(Parent) =>
          /\ AtCall(3) => Now(Parent).op = "write_file" /\ Now(Parent).text = D
          /\ AtCall(6) => Now(Parent).op = "write_file" /\ Now(Parent).text = zeros
          /\ AtCall(10) => Now(Parent).op = "write_file" /\ Now(Parent).text = tab
          /\ AtCall(8) => /\ Now(Parent).op = "read_file" /\ Now(Parent).bytes = 10
                          /\ Now(Parent).room = 100
          /\ AtCall(13) => /\ Now(Parent).op = "read_file" /\ Now(Parent).bytes = 19
                           /\ Now(Parent).room = 100
  BY <1>3 DEF WriteFile, ReadFile
<1>6. Running(Parent) =>
          /\ AtCall(1) => Now(Parent).truncate
          /\ AtCall(3) => ~Now(Parent).append
          /\ AtCall(6) => ~Now(Parent).append
          /\ AtCall(10) => ~Now(Parent).append
          /\ AtCall(8) => ~Now(Parent).again
          /\ AtCall(13) => ~Now(Parent).again
  <2>1. \A t : ~WriteFile(t, <<>>).append
    BY DEF WriteFile
  <2>2. \A n : ~ReadFile(n, 100, FALSE, <<>>).again
    BY DEF ReadFile
  <2>3. OpenFile(TRUE, <<Exit(-2)>>).truncate
    BY DEF OpenFile
  <2>. QED
    BY <1>3, <2>1, <2>2, <2>3
<1>7. Running(Parent) => Now(Parent).op \notin {"fork", "suspend"}
  BY <1>1, <1>3, <1>4, <1>5 DEF Escaping, Exit
<1>8. /\ \A c \in Children : run'[c] = "none"
      /\ \/ Same
         \/ Running(Parent) /\ ~Running(Parent)' /\ ~Succeeded(Parent)'
         \/ /\ Running(Parent) /\ Now(Parent).op = "exit" /\ ~Escaping
            /\ ~Running(Parent)' /\ UNCHANGED <<faults, pipe, written, got, disk>>
         \/ /\ Moves(Parent) /\ Running(Parent)'
            /\ Now(Parent).op # "exit" /\ UNCHANGED run
  BY <1>1, <1>7, AloneStep DEF Overrun
<1>9. /\ Len(D) = 19 /\ SubSeq(D, 1, 19) = D /\ Len(zeros) = 2 /\ SubSeq(zeros, 1, 2) = zeros
      /\ Len(tab) = 11 /\ SubSeq(tab, 1, 11) = tab
      /\ Len(Z) = 19 /\ SubSeq(Z, 11, 19) = nine /\ Len(T) = 30 /\ SubSeq(T, 1, 19) = Z
      /\ nine \in Seq(Bytes) /\ Len(nine) = 9 /\ <<>> \o nine = nine /\ nine \o Z = all
  <2>1. /\ D \in Seq(Bytes) /\ zeros \in Seq(Bytes) /\ tab \in Seq(Bytes) /\ Z \in Seq(Bytes)
        /\ Len(D) = 19 /\ Len(zeros) = 2 /\ Len(tab) = 11 /\ Len(Z) = 19 /\ Len(T) = 30
        /\ SubSeq(T, 1, 19) = Z
    BY DigitsCut, ZeroedTyped
  <2>2. SubSeq(Z, 11, 19) = nine /\ nine \o Z = all
    BY Zenon
  <2>. HIDE DEF D, Z, T, zeros, tab, all
  <2>3. SubSeq(D, 1, 19) = D /\ SubSeq(zeros, 1, 2) = zeros /\ SubSeq(tab, 1, 11) = tab
    BY <2>1, SubSeqFull
  <2>4. nine \in Seq(Bytes) /\ Len(nine) = 9
    <3>1. 11 \in Nat \ {0} /\ Len(Zeroed) = 19 /\ Zeroed \in Seq(Bytes)
      BY ZeroedTyped
    <3>2. /\ SubSeq(Zeroed, 11, Len(Zeroed)) \in Seq(Bytes)
          /\ Len(SubSeq(Zeroed, 11, Len(Zeroed)))
               = IF 11 <= Len(Zeroed) THEN Len(Zeroed) - 11 + 1 ELSE 0
      BY <3>1, RestOf, Zenon
    <3>3. nine = SubSeq(Zeroed, 11, Len(Zeroed))
      BY <3>1, Zenon
    <3>. HIDE DEF nine
    <3>. QED
      BY <3>1, <3>2, <3>3
  <2>. HIDE DEF nine
  <2>5. <<>> \o nine = nine
    BY <2>4, ConcatEmptySeq
  <2>. QED
    BY <2>1, <2>2, <2>3, <2>4, <2>5
<1>10. /\ file = <<>> => Overwrite(0, D) = D
       /\ file = D => Overwrite(2, zeros) = Z
       /\ file = Z => Overwrite(19, tab) = T
  BY Sought DEF Base, FileTyped
<1>. HIDE DEF D, Z, T, zeros, tab, nine, all
<1>11. SUFFICES
          /\ \A c \in Children : run'[c] = "none"
          /\ Running(Parent)' =>
                \/ Escaping'
                \/ AtCall(1)' /\ buffer' = <<>>
                \/ AtCall(2)' /\ file' = <<>> /\ offset' = 0 /\ buffer' = <<>>
                \/ AtCall(3)' /\ file' = <<>> /\ offset' = 0 /\ buffer' = <<>>
                \/ AtCall(4)' /\ file' = D /\ buffer' = <<>>
                \/ AtCall(5)' /\ file' = D /\ buffer' = <<>>
                \/ AtCall(6)' /\ file' = D /\ offset' = 2 /\ buffer' = <<>>
                \/ AtCall(7)' /\ file' = Z /\ offset' = 4 /\ buffer' = <<>>
                \/ AtCall(8)' /\ file' = Z /\ offset' = 10 /\ buffer' = <<>>
                \/ AtCall(9)' /\ file' = Z /\ buffer' = nine
                \/ AtCall(10)' /\ file' = Z /\ offset' = 19 /\ buffer' = nine
                \/ AtCall(11)' /\ file' = T /\ buffer' = nine
                \/ AtCall(12)' /\ file' = T /\ buffer' = nine
                \/ AtCall(13)' /\ file' = T /\ offset' = 0 /\ buffer' = nine
                \/ AtCall(14)' /\ file' = T /\ buffer' = all
          /\ Succeeded(Parent)' => file' = T /\ buffer' = all
  BY Zenon DEF Seeking, Alone, D, Z, T, nine, all
<1>12. CASE Same
  BY <1>1, <1>8, <1>12, SameKeeps
<1>13. CASE ~Running(Parent)' /\ ~Succeeded(Parent)'
  BY <1>8, <1>13
<1>14. CASE /\ Running(Parent) /\ Now(Parent).op = "exit" /\ ~Escaping
            /\ ~Running(Parent)' /\ UNCHANGED <<faults, pipe, written, got, disk>>
  <2>1. file' = file /\ buffer' = buffer
    BY <1>14 DEF disk
  <2>2. file = T /\ buffer = all
    BY <1>1, <1>4, <1>5, <1>14
  <2>. QED
    BY <1>8, <1>14, <2>1, <2>2
<1>15. CASE Moves(Parent) /\ Running(Parent)' /\ Now(Parent).op # "exit" /\ UNCHANGED run
  <2>0. Running(Parent) /\ ~Escaping /\ ~Succeeded(Parent)'
    BY <1>15 DEF Moves, Escaping, Succeeded, Running
  <2>1. Step(Parent)
    <3>1. ~CallFails(Parent) /\ ~ShortWrite(Parent)
      <4>1. faults \in Nat
        BY ProcessesAssumption DEF Base, FaultsTyped
      <4>. QED
        BY <4>1 DEF CallFails, ShortWrite
    <3>. QED
      BY <1>15, <3>1, MoveOfCall
  <2>2. SUFFICES
           \/ AtCall(2)' /\ file' = <<>> /\ offset' = 0 /\ buffer' = <<>>
           \/ AtCall(3)' /\ file' = <<>> /\ offset' = 0 /\ buffer' = <<>>
           \/ AtCall(4)' /\ file' = D /\ buffer' = <<>>
           \/ AtCall(5)' /\ file' = D /\ buffer' = <<>>
           \/ AtCall(6)' /\ file' = D /\ offset' = 2 /\ buffer' = <<>>
           \/ AtCall(7)' /\ file' = Z /\ offset' = 4 /\ buffer' = <<>>
           \/ AtCall(8)' /\ file' = Z /\ offset' = 10 /\ buffer' = <<>>
           \/ AtCall(9)' /\ file' = Z /\ buffer' = nine
           \/ AtCall(10)' /\ file' = Z /\ offset' = 19 /\ buffer' = nine
           \/ AtCall(11)' /\ file' = T /\ buffer' = nine
           \/ AtCall(12)' /\ file' = T /\ buffer' = nine
           \/ AtCall(13)' /\ file' = T /\ offset' = 0 /\ buffer' = nine
           \/ AtCall(14)' /\ file' = T /\ buffer' = all
    BY <1>8, <2>0, Zenon
  <2>3. GoOn(Parent, <<>>) =>
            /\ AtCall(1) => AtCall(2)'
            /\ AtCall(2) => AtCall(3)'
            /\ AtCall(3) => AtCall(4)'
            /\ AtCall(4) => AtCall(5)'
            /\ AtCall(5) => AtCall(6)'
            /\ AtCall(6) => AtCall(7)'
            /\ AtCall(7) => AtCall(8)'
            /\ AtCall(8) => AtCall(9)'
            /\ AtCall(9) => AtCall(10)'
            /\ AtCall(10) => AtCall(11)'
            /\ AtCall(11) => AtCall(12)'
            /\ AtCall(12) => AtCall(13)'
            /\ AtCall(13) => AtCall(14)'
    BY <1>2, <2>0, At_2_4, Zenon
  <2>4. CASE AtCall(1) /\ buffer = <<>>
    <3>1. DoOpenFile(Parent)
      BY <1>4, <1>5, <2>0, <2>1, <2>4, StepOfCall
    <3>2. file' = <<>> /\ offset' = 0 /\ buffer' = <<>> /\ GoOn(Parent, <<>>)
      BY <1>6, <2>0, <2>4, <3>1 DEF DoOpenFile
    <3>. QED
      BY <2>3, <2>4, <3>2
  <2>5. CASE AtCall(2) /\ file = <<>> /\ offset = 0 /\ buffer = <<>>
    <3>1. DoLSeek(Parent)
      BY <1>4, <1>5, <2>0, <2>1, <2>5, StepOfCall
    <3>2. file' = <<>> /\ buffer' = <<>> /\ GoOn(Parent, <<>>)
      BY <2>5, <3>1 DEF DoLSeek
    <3>3. offset' = 0 + 0
      BY <1>4, <2>0, <2>5, <3>1 DEF DoLSeek
    <3>4. offset' = 0
      BY <1>9, <3>3
    <3>. QED
      BY <2>3, <2>5, <3>2, <3>4
  <2>6. CASE AtCall(3) /\ file = <<>> /\ offset = 0 /\ buffer = <<>>
    <3>1. DoWriteFile(Parent)
      BY <1>4, <1>5, <2>0, <2>1, <2>6, StepOfCall
    <3>2. file' = Overwrite(0, SubSeq(D, 1, 19)) /\ offset' = 0 + 19 /\ GoOn(Parent, <<>>)
      BY <1>5, <1>6, <1>9, <2>0, <2>6, <3>1 DEF DoWriteFile, PutBytes
    <3>3. buffer' = <<>>
      BY <2>6, <3>1 DEF DoWriteFile, PutBytes
    <3>4. file' = D
      BY <1>9, <1>10, <2>6, <3>2, Zenon
    <3>. QED
      BY <2>3, <2>6, <3>2, <3>3, <3>4
  <2>7. CASE AtCall(4) /\ file = D /\ buffer = <<>>
    <3>1. DoLSeek(Parent)
      BY <1>4, <1>5, <2>0, <2>1, <2>7, StepOfCall
    <3>2. file' = D /\ buffer' = <<>> /\ GoOn(Parent, <<>>)
      BY <2>7, <3>1 DEF DoLSeek
    <3>. QED
      BY <2>3, <2>7, <3>2
  <2>8. CASE AtCall(5) /\ file = D /\ buffer = <<>>
    <3>1. DoLSeek(Parent)
      BY <1>4, <1>5, <2>0, <2>1, <2>8, StepOfCall
    <3>2. file' = D /\ buffer' = <<>> /\ GoOn(Parent, <<>>)
      BY <2>8, <3>1 DEF DoLSeek
    <3>3. offset' = 2 + 0
      BY <1>4, <2>0, <2>8, <3>1 DEF DoLSeek
    <3>4. offset' = 2
      BY <1>9, <3>3
    <3>. QED
      BY <2>3, <2>8, <3>2, <3>4
  <2>9. CASE AtCall(6) /\ file = D /\ offset = 2 /\ buffer = <<>>
    <3>1. DoWriteFile(Parent)
      BY <1>4, <1>5, <2>0, <2>1, <2>9, StepOfCall
    <3>2. file' = Overwrite(2, SubSeq(zeros, 1, 2)) /\ offset' = 2 + 2 /\ GoOn(Parent, <<>>)
      BY <1>5, <1>6, <1>9, <2>0, <2>9, <3>1 DEF DoWriteFile, PutBytes
    <3>3. buffer' = <<>>
      BY <2>9, <3>1 DEF DoWriteFile, PutBytes
    <3>4. file' = Z
      BY <1>9, <1>10, <2>9, <3>2, Zenon
    <3>5. offset' = 4
      BY <3>2
    <3>. QED
      BY <2>3, <2>9, <3>2, <3>3, <3>4, <3>5
  <2>10. CASE AtCall(7) /\ file = Z /\ offset = 4 /\ buffer = <<>>
    <3>1. DoLSeek(Parent)
      BY <1>4, <1>5, <2>0, <2>1, <2>10, StepOfCall
    <3>2. file' = Z /\ buffer' = <<>> /\ GoOn(Parent, <<>>)
      BY <2>10, <3>1 DEF DoLSeek
    <3>3. offset' = 6 + 4
      BY <1>4, <2>0, <2>10, <3>1 DEF DoLSeek
    <3>4. offset' = 10
      BY <1>9, <3>3
    <3>. QED
      BY <2>3, <2>10, <3>2, <3>4
  <2>11. CASE AtCall(8) /\ file = Z /\ offset = 10 /\ buffer = <<>>
    <3>1. DoReadFile(Parent)
      BY <1>4, <1>5, <2>0, <2>1, <2>11, StepOfCall
    <3>2. Min({10, Max({0, 19 - 10})}) = 9
      <4>1. \A bytes, size, at \in Nat :
               LET n == Min({bytes, Max({0, size - at})})
               IN  (at <= size /\ size - at <= bytes) => n = size - at
        BY ReadSize
      <4>2. 10 \in Nat /\ 19 \in Nat /\ 10 <= 19 /\ 19 - 10 <= 10 /\ 19 - 10 = 9
        OBVIOUS
      <4>. QED
        BY <4>1, <4>2, Zenon
    <3>3. /\ Now(Parent).bytes = 10 /\ Len(file) = 19 /\ offset = 10 /\ file = Z /\ buffer = <<>>
          /\ ~Now(Parent).again
      BY <1>5, <1>6, <1>9, <2>0, <2>11
    <3>4. /\ buffer' = <<>> \o SubSeq(Z, 10 + 1, 10 + 9)
          /\ file' = Z /\ GoOn(Parent, <<>>)
      <4>1. buffer' = buffer \o SubSeq(file, offset + 1, offset + 9)
        <5>1. Parent \in Procs /\ buffer \in Seq(Bytes) /\ file \in Seq(Bytes) /\ offset \in Nat
          BY DEF Procs, Base, FileTyped
        <5>2. Now(Parent).bytes \in Nat /\ Now(Parent).room \in Nat /\ Len(buffer) <= Now(Parent).room
          <6>1. Now(Parent).room = 100
            BY <1>5, <2>0, <2>11, Zenon
          <6>2. Len(buffer) \in {0, 9}
            BY <1>9, <3>3
          <6>. QED
            BY <3>3, <6>1, <6>2
        <5>3. LET n == Min({Now(Parent).bytes, Max({0, Len(file) - offset})})
              IN buffer' = buffer \o SubSeq(file, offset + 1, offset + n)
          BY <3>1, <5>1, <5>2, ReadAppends
        <5>. QED
          BY <3>2, <3>3, <5>3
      <4>2. file' = file /\ GoOn(Parent, <<>>)
        BY <3>1, <3>3 DEF DoReadFile
      <4>. QED
        BY <3>3, <4>1, <4>2, Zenon
    <3>5. 10 + 1 = 11 /\ 10 + 9 = 19
      OBVIOUS
    <3>6. buffer' = nine
      BY <1>9, <3>4, <3>5, Zenon
    <3>. QED
      BY <2>3, <2>11, <3>4, <3>6
  <2>12. CASE AtCall(9) /\ file = Z /\ buffer = nine
    <3>1. DoLSeek(Parent)
      BY <1>4, <1>5, <2>0, <2>1, <2>12, StepOfCall
    <3>2. file' = Z /\ buffer' = nine /\ GoOn(Parent, <<>>)
      BY <2>12, <3>1 DEF DoLSeek
    <3>3. offset' = 0 + Len(Z)
      BY <1>4, <2>0, <2>12, <3>1 DEF DoLSeek
    <3>4. offset' = 19
      BY <1>9, <3>3
    <3>. QED
      BY <2>3, <2>12, <3>2, <3>4
  <2>13. CASE AtCall(10) /\ file = Z /\ offset = 19 /\ buffer = nine
    <3>1. DoWriteFile(Parent)
      BY <1>4, <1>5, <2>0, <2>1, <2>13, StepOfCall
    <3>2. file' = Overwrite(19, SubSeq(tab, 1, 11)) /\ offset' = 19 + 11 /\ GoOn(Parent, <<>>)
      BY <1>5, <1>6, <1>9, <2>0, <2>13, <3>1 DEF DoWriteFile, PutBytes
    <3>3. buffer' = nine
      BY <2>13, <3>1 DEF DoWriteFile, PutBytes
    <3>4. file' = T
      BY <1>9, <1>10, <2>13, <3>2, Zenon
    <3>. QED
      BY <2>3, <2>13, <3>2, <3>3, <3>4
  <2>14. CASE AtCall(11) /\ file = T /\ buffer = nine
    <3>1. DoLSeek(Parent)
      BY <1>4, <1>5, <2>0, <2>1, <2>14, StepOfCall
    <3>2. file' = T /\ buffer' = nine /\ GoOn(Parent, <<>>)
      BY <2>14, <3>1 DEF DoLSeek
    <3>. QED
      BY <2>3, <2>14, <3>2
  <2>15. CASE AtCall(12) /\ file = T /\ buffer = nine
    <3>1. DoLSeek(Parent)
      BY <1>4, <1>5, <2>0, <2>1, <2>15, StepOfCall
    <3>2. file' = T /\ buffer' = nine /\ GoOn(Parent, <<>>)
      BY <2>15, <3>1 DEF DoLSeek
    <3>3. offset' = 0 + 0
      BY <1>4, <2>0, <2>15, <3>1 DEF DoLSeek
    <3>4. offset' = 0
      BY <1>9, <3>3
    <3>. QED
      BY <2>3, <2>15, <3>2, <3>4
  <2>16. CASE AtCall(13) /\ file = T /\ offset = 0 /\ buffer = nine
    <3>1. DoReadFile(Parent)
      BY <1>4, <1>5, <2>0, <2>1, <2>16, StepOfCall
    <3>2. Min({19, Max({0, 30 - 0})}) = 19
      <4>1. 19 \in Nat /\ 30 \in Nat /\ 19 <= 30
        OBVIOUS
      <4>. QED
        BY <4>1, ReadAtLeast, Zenon
    <3>3. /\ Now(Parent).bytes = 19 /\ Len(file) = 30 /\ offset = 0 /\ file = T /\ buffer = nine
          /\ ~Now(Parent).again
      BY <1>5, <1>6, <1>9, <2>0, <2>16
    <3>4. /\ buffer' = nine \o SubSeq(T, 0 + 1, 0 + 19)
          /\ file' = T /\ GoOn(Parent, <<>>)
      <4>1. buffer' = buffer \o SubSeq(file, offset + 1, offset + 19)
        <5>1. Parent \in Procs /\ buffer \in Seq(Bytes) /\ file \in Seq(Bytes) /\ offset \in Nat
          BY DEF Procs, Base, FileTyped
        <5>2. Now(Parent).bytes \in Nat /\ Now(Parent).room \in Nat /\ Len(buffer) <= Now(Parent).room
          <6>1. Now(Parent).room = 100
            BY <1>5, <2>0, <2>16, Zenon
          <6>2. Len(buffer) = 9
            BY <1>9, <3>3, Zenon
          <6>. QED
            BY <3>3, <6>1, <6>2
        <5>3. LET n == Min({Now(Parent).bytes, Max({0, Len(file) - offset})})
              IN buffer' = buffer \o SubSeq(file, offset + 1, offset + n)
          BY <3>1, <5>1, <5>2, ReadAppends
        <5>. QED
          BY <3>2, <3>3, <5>3
      <4>2. file' = file /\ GoOn(Parent, <<>>)
        BY <3>1, <3>3 DEF DoReadFile
      <4>. QED
        BY <3>3, <4>1, <4>2, Zenon
    <3>5. 0 + 1 = 1 /\ 0 + 19 = 19
      OBVIOUS
    <3>6. buffer' = all
      BY <1>9, <3>4, <3>5, Zenon
    <3>. QED
      BY <2>3, <2>16, <3>4, <3>6
  <2>17. ~AtCall(14)
    BY <1>3, <1>15, <2>0, BadStatuses
  <2>. QED
    BY <1>1, <2>0, <2>4, <2>5, <2>6, <2>7, <2>8, <2>9, <2>10, <2>11, <2>12, <2>13, <2>14, <2>15, <2>16, <2>17
<1>. QED
  BY <1>8, <1>12, <1>13, <1>14, <1>15

LEMMA InitSeeking ==
    ASSUME Init, program = "2_4", Base
    PROVE  Seeking
<1>1. Parent \in Procs /\ \A c \in Children : run[c] = "none"
  BY ProcessesAssumption DEF Procs, Init, Booted
<1>2. code[Parent] = Main(program) /\ run[Parent] = "running" /\ buffer = <<>>
  BY <1>1 DEF Init, Booted
<1>3. Left(Main(program), 1) = Main(program)
  <2>1. Main(program) = Main_2_4
    BY DEF Main
  <2>. QED
    BY <2>1, Start_2_4, SubSeqFull DEF Left, Starts
<1>. QED
  BY <1>1, <1>2, <1>3 DEF Seeking, Alone, AtCall, Succeeded

-----------------------------------------------------------------------------
(* The parent and one child                                                *)

(* Who is over has been there.                                             *)
LEMMA EndsBorn ==
    ASSUME Base, NEW p \in Procs, Running(p), NEW st, NEW by, End(p, st, by)
    PROVE  run'[p] # "none"
BY DEF End

LEMMA OverBorn ==
    ASSUME Base, NEW p \in Procs, Dies(p) \/ DoExit(p)
    PROVE  run'[p] # "none"
BY EndsBorn DEF Dies, DoExit, EndBySignal, Calls

LEMMA MoveIs ==
    ASSUME NEW p, Moves(p)
    PROVE  /\ Running(p) /\ (Step(p) \/ CallFails(p) \/ ShortWrite(p))
           /\ Now(p).op # "write_file" => Step(p) \/ CallFails(p)
           /\ CallFails(p) => "fail" \in DOMAIN Now(p)
BY DEF Moves, ShortWrite, CallFails, Calls

(* The child is at call k of s.                                            *)
LEMMA ChildAt ==
    ASSUME Base, Running(C1), NEW S, NEW s \in Seq(S), NEW k \in 1 .. Len(s),
           code[C1] = Left(s, k)
    PROVE  /\ Now(C1) = s[k]
           /\ GoOn(C1, <<>>) => code'[C1] = Left(s, k + 1)
           /\ GoOn(C1, <<Now(C1)>>) => code'[C1] = code[C1]
<1>1. C1 \in Procs
  BY ChildrenAssumption DEF Procs
<1>2. Head(Left(s, k)) = s[k] /\ Tail(Left(s, k)) = Left(s, k + 1)
  BY LeftOf
<1>. QED
  BY <1>1, <1>2, GoesOn DEF Now

LEMMA Family ==
    /\ Children = {C1, C2} /\ C1 # C2 /\ Parent \notin Children
    /\ Parent \in Procs /\ C1 \in Procs /\ C2 \in Procs
    /\ \A p \in Procs : p = Parent \/ p = C1 \/ p = C2
    /\ Parent # C1 /\ Parent # C2
BY ProcessesAssumption, ChildrenAssumption DEF Procs

(* A child that goes on leaves the parent where he is.                     *)
LEMMA ChildMoves ==
    ASSUME Base, UNCHANGED <<program, original>>, Moves(C1),
           Now(C1).op \notin {"fork", "exit", "wait", "poll", "poll_while", "write", "exec"}
    PROVE  /\ UNCHANGED run /\ code'[Parent] = code[Parent]
           /\ (Succeeded(C1)' <=> Succeeded(C1)) /\ (Running(C1)' <=> Running(C1))
           /\ (Running(Parent)' <=> Running(Parent))
           /\ (Escaping' <=> Escaping) /\ \A k : AtCall(k)' <=> AtCall(k)
<1>1. Step(C1) \/ CallFails(C1) \/ ShortWrite(C1)
  BY DEF Moves
<1>2. UNCHANGED <<run, status, killed>>
  <2>1. CallFails(C1) \/ ShortWrite(C1) => UNCHANGED life
    BY DEF CallFails, ShortWrite, PutBytes
  <2>2. Step(C1) => UNCHANGED life
    BY StepOfCall DEF DoBlock, DoHandle, DoIgnore, DoKill, DoTest, DoSuspend, DoIfCaught, DoAlarm,
       DoCount, DoPipe, DoClose, DoRead, DoOpenFile, DoDup, DoWriteFile, PutBytes, DoReadFile,
       DoLSeek, DoSearch
  <2>. QED
    BY <1>1, <2>1, <2>2 DEF life
<1>3. code'[Parent] = code[Parent]
  <2>1. C1 \in Procs \ {Parent}
    BY Family
  <2>2. Aside
    BY <1>1, <2>1, OthersStep
  <2>. QED
    BY <2>2 DEF Aside
<1>4. Now(Parent)' = Now(Parent)
  BY <1>3 DEF Now
<1>. QED
  BY <1>2, <1>3, <1>4 DEF Succeeded, Running, Escaping, AtCall, Main

(* A parent that goes on leaves the child where it is.                     *)
LEMMA ParentKeeps ==
    ASSUME Base, Running(Parent), UNCHANGED <<run, status, killed>>, NEW u, GoOn(Parent, u)
    PROVE  /\ code'[C1] = code[C1]
           /\ Now(C1)' = Now(C1)
           /\ Succeeded(C1)' <=> Succeeded(C1)
           /\ Running(C1)' <=> Running(C1)
           /\ Running(Parent)'
<1>1. code'[C1] = code[C1]
  BY GoesOn, Family
<1>2. Now(C1)' = Now(C1)
  BY <1>1 DEF Now
<1>3. Succeeded(C1)' <=> Succeeded(C1)
  BY DEF Succeeded
<1>4. /\ Running(C1)' <=> Running(C1)
      /\ Running(Parent)'
  BY DEF Running
<1>. QED
  BY <1>1, <1>2, <1>3, <1>4

(* A parent that reaps a child leaves it as it ended.                      *)
LEMMA ParentReaps ==
    ASSUME Base, UNCHANGED <<program, original>>, DoWait(Parent), run[C2] = "none"
    PROVE  /\ \/ GoOn(Parent, Now(Parent).none) /\ UNCHANGED run
              \/ GoOn(Parent, <<>>) /\ run[C1] = "zombie"
           /\ run'[C2] = "none" /\ (run'[C1] = "none" <=> run[C1] = "none")
           /\ code'[C1] = code[C1] /\ Now(C1)' = Now(C1)
           /\ (Succeeded(C1)' <=> Succeeded(C1)) /\ (Running(C1)' <=> Running(C1))
           /\ Running(Parent) /\ Running(Parent)'
           /\ UNCHANGED <<ends, pipe, written, got, disk, faults>>
<1>0. run \in [Procs -> {"none", "running", "zombie", "reaped"}]
  BY DEF Base, LivesTyped
<1>1. Running(Parent) /\ UNCHANGED <<ends, pipe, written, got, disk, faults, status, killed>>
  BY DEF DoWait, Reap, Calls, life, io
<1>2. CASE GoOn(Parent, Now(Parent).none) /\ UNCHANGED life
  <2>1. UNCHANGED <<run, status, killed>>
    BY <1>2 DEF life
  <2>4. code'[C1] = code[C1]
    BY <1>1, <1>2, GoesOn, Family
  <2>5. Now(C1)' = Now(C1)
    BY <2>4 DEF Now
  <2>2. /\ code'[C1] = code[C1] /\ Now(C1)' = Now(C1) /\ Running(Parent)'
        /\ (Succeeded(C1)' <=> Succeeded(C1)) /\ (Running(C1)' <=> Running(C1))
    BY <1>1, <2>1, <2>4, <2>5 DEF Succeeded, Running
  <2>3. run'[C2] = "none" /\ (run'[C1] = "none" <=> run[C1] = "none")
    BY <2>1
  <2>. QED
    BY <1>1, <1>2, <2>1, <2>2, <2>3
<1>3. ASSUME NEW c \in Zombies(Parent), Reap(c, Now(Parent).says), GoOn(Parent, <<>>)
      PROVE  /\ GoOn(Parent, <<>>) /\ run[C1] = "zombie"
             /\ run'[C2] = "none" /\ (run'[C1] = "none" <=> run[C1] = "none")
             /\ code'[C1] = code[C1] /\ Now(C1)' = Now(C1)
             /\ (Succeeded(C1)' <=> Succeeded(C1)) /\ (Running(C1)' <=> Running(C1))
             /\ Running(Parent)'
  <2>1. c = C1 /\ run[C1] = "zombie"
    BY <1>3, Family DEF Zombies
  <2>2. run' = [run EXCEPT ![C1] = "reaped"]
    BY <1>3, <2>1 DEF Reap
  <2>3. /\ run'[C1] = "reaped" /\ run'[C2] = "none" /\ run'[Parent] = run[Parent]
    BY <1>0, <2>2, Family
  <2>4. code'[C1] = code[C1]
    BY <1>1, <1>3, GoesOn, Family
  <2>5. Now(C1)' = Now(C1)
    BY <2>4 DEF Now
  <2>. QED
    BY <1>1, <1>3, <2>1, <2>3, <2>4, <2>5 DEF Succeeded, Running
<1>4. \/ GoOn(Parent, Now(Parent).none) /\ UNCHANGED life
      \/ \E c \in Zombies(Parent) : Reap(c, Now(Parent).says) /\ GoOn(Parent, <<>>)
  BY DEF DoWait
<1>. QED
  BY <1>1, <1>2, <1>3, <1>4, Zenon DEF life

-----------------------------------------------------------------------------
(* 7_9: parent and child write through one offset                          *)

LEMMA SharedTexts ==
    ASSUME file \in Seq(Bytes), NEW n \in 1 .. 2, NEW i \in 1 .. 2
    PROVE  /\ Text("Parent", 2) \in Seq(Bytes) /\ Len(Text("Parent", 2)) = 2
           /\ Text("Child", 2) \in Seq(Bytes) /\ Len(Text("Child", 2)) = 2
           /\ SubSeq(Text("Parent", 2), 1, n) = Text("Parent", n)
           /\ SubSeq(Text("Child", 2), 1, n) = Text("Child", n)
           /\ file = <<>> => Overwrite(0, Text("Parent", n)) = Text("Parent", n)
           /\ file = Text("Parent", i) =>
                 Overwrite(i, Text("Child", n)) = Text("Parent", i) \o Text("Child", n)
<1>1. \A name \in Texts, k \in 1 .. 2 : Text(name, k) \in Seq(Bytes) /\ Len(Text(name, k)) = k
  <2>1. ASSUME NEW name \in Texts, NEW k \in 1 .. 2
        PROVE  Text(name, k) \in Seq(Bytes) /\ Len(Text(name, k)) = k
    <3>1. \A m \in 1 .. k : <<name, m>> \in Bytes
      BY DEF Bytes
    <3>. QED
      BY <3>1 DEF Text
  <2>. QED
    BY <2>1
<1>2. \A name \in Texts : SubSeq(Text(name, 2), 1, n) = Text(name, n)
  <2>1. ASSUME NEW name \in Texts
        PROVE  SubSeq(Text(name, 2), 1, n) = Text(name, n)
    <3> DEFINE s == Text(name, 2)
               t == Text(name, n)
    <3>0. 2 \in 1 .. 2 /\ n \in 1 .. 2
      OBVIOUS
    <3>1. s \in Seq(Bytes) /\ Len(s) = 2 /\ t \in Seq(Bytes) /\ Len(t) = n
      BY <1>1, <2>1, <3>0, Zenon
    <3>2. \A k \in 1 .. n : s[k] = t[k]
      BY DEF Text
    <3>. HIDE DEF s, t
    <3>3. SubSeq(s, 1, n) \in Seq(Bytes) /\ Len(SubSeq(s, 1, n)) = n
      BY <3>1
    <3>4. \A k \in 1 .. n : SubSeq(s, 1, n)[k] = s[k]
      BY <3>1
    <3>5. SubSeq(s, 1, n) = t
      BY <3>1, <3>2, <3>3, <3>4, SeqEqual
    <3>. QED
      BY <3>5 DEF s, t
  <2>. QED
    BY <2>1
<1>3. "Parent" \in Texts /\ "Child" \in Texts
  BY DEF Texts
<1> DEFINE p(k) == Text("Parent", k)
           c(k) == Text("Child", k)
<1>4. p(n) \in Seq(Bytes) /\ c(n) \in Seq(Bytes) /\ p(i) \in Seq(Bytes) /\ Len(p(i)) = i
  BY <1>1, <1>3
<1>. HIDE DEF p, c
<1>5. ASSUME file = <<>>
      PROVE  Overwrite(0, p(n)) = p(n)
  <2>1. Overwrite(Len(file), p(n)) = file \o p(n)
    BY <1>4, AtTheEnd
  <2>2. Len(file) = 0 /\ file \o p(n) = p(n)
    BY <1>4, <1>5, ConcatEmptySeq
  <2>. QED
    BY <2>1, <2>2
<1>6. ASSUME file = p(i)
      PROVE  Overwrite(i, c(n)) = p(i) \o c(n)
  <2>1. Overwrite(Len(file), c(n)) = file \o c(n)
    BY <1>4, AtTheEnd
  <2>. QED
    BY <1>4, <1>6, <2>1
<1>. QED
  BY <1>1, <1>2, <1>3, <1>5, <1>6 DEF p, c

LEMMA ChildAt_7_9 ==
    ASSUME Base, Running(C1)
    PROVE  /\ code[C1] = Child_7_9 => Now(C1) = WriteFile(Text("Child", 2), <<Exit(-4)>>)
           /\ (code[C1] = Child_7_9 /\ GoOn(C1, <<>>)) => code'[C1] = Left(Child_7_9, 2)
           /\ code[C1] = Left(Child_7_9, 2) => Now(C1) = Exit(0)
<1> DEFINE c1 == WriteFile(Text("Child", 2), <<Exit(-4)>>)
           c2 == Exit(0)
           s == <<c1, c2>>
<1>1. Child_7_9 = s
  BY DEF Child_7_9
<1>. HIDE DEF c1, c2
<1>2. s \in Seq({c1, c2}) /\ Len(s) = 2 /\ s[1] = c1 /\ s[2] = c2
  OBVIOUS
<1>3. 1 \in 1 .. Len(s) /\ 2 \in 1 .. Len(s) /\ 1 + 1 = 2
  BY <1>2
<1>. HIDE DEF s
<1>4. Left(s, 1) = s
  BY <1>2, <1>3, LeftOf
<1>5. code[C1] = s => Now(C1) = c1
  BY <1>2, <1>3, <1>4, ChildAt
<1>6. (code[C1] = s /\ GoOn(C1, <<>>)) => code'[C1] = Left(s, 2)
  BY <1>2, <1>3, <1>4, ChildAt
<1>7. code[C1] = Left(s, 2) => Now(C1) = c2
  BY <1>2, <1>3, ChildAt
<1>. QED
  BY <1>1, <1>5, <1>6, <1>7 DEF c1, c2

LEMMA ParentInheritsStays ==
    ASSUME ParentInherits, UNCHANGED program, code'[Parent] = code[Parent],
           Running(Parent)' <=> Running(Parent), run[C1] # "none", run'[C1] # "none"
    PROVE  ParentInherits'
<1>1. Now(Parent)' = Now(Parent)
  BY DEF Now
<1>2. (Escaping' <=> Escaping) /\ (AtCall(4)' <=> AtCall(4)) /\ (AtCall(5)' <=> AtCall(5))
  BY <1>1 DEF Escaping, AtCall, Main
<1>3. run[C1] # "none" /\ ~(run[C1] = "none")'
  OBVIOUS
<1>. QED
  BY <1>2, <1>3, Zenon DEF ParentInherits

LEMMA StaysWritten ==
    ASSUME UNCHANGED <<file, offset>>, ~torn' => ~torn
    PROVE  (ParentWrote => ParentWrote') /\ (BothWrote => BothWrote')
<1>1. ASSUME ParentWrote
      PROVE  ParentWrote'
  <2>1. PICK i \in 1 .. 2 : file = Text("Parent", i) /\ offset = i /\ (~torn => i = 2)
    BY <1>1 DEF ParentWrote
  <2>2. file' = Text("Parent", i) /\ offset' = i /\ (~torn' => i = 2)
    BY <2>1
  <2>. QED
    BY <2>2 DEF ParentWrote, Text
<1>2. ASSUME BothWrote
      PROVE  BothWrote'
  <2>1. PICK i, j \in 1 .. 2 :
            file = Text("Parent", i) \o Text("Child", j) /\ (~torn => i = 2 /\ j = 2)
    BY <1>2 DEF BothWrote
  <2>2. file' = Text("Parent", i) \o Text("Child", j) /\ (~torn' => i = 2 /\ j = 2)
    BY <2>1
  <2>. QED
    BY <2>2 DEF BothWrote, Text
<1>. QED
  BY <1>1, <1>2

LEMMA ChildInheritsStays ==
    ASSUME ChildInherits, UNCHANGED <<file, offset>>, ~torn' => ~torn, code'[C1] = code[C1],
           Running(C1)' <=> Running(C1), Succeeded(C1)' <=> Succeeded(C1)
    PROVE  ChildInherits'
<1>1. Now(C1)' = Now(C1)
  BY DEF Now
<1>2. (ParentWrote => ParentWrote') /\ (BothWrote => BothWrote')
  BY StaysWritten
<1>3. /\ (run[C1] = "running")' <=> run[C1] = "running"
      /\ (code[C1] = Child_7_9)' <=> code[C1] = Child_7_9
      /\ (code[C1] = Left(Child_7_9, 2))' <=> code[C1] = Left(Child_7_9, 2)
      /\ (Now(C1).op = "exit")' <=> Now(C1).op = "exit"
      /\ Bad(Now(C1).status)' <=> Bad(Now(C1).status)
  BY <1>1 DEF Running, Child_7_9, Left, WriteFile, Exit, Text, Bad
<1>. QED
  BY <1>2, <1>3, Zenon DEF ChildInherits

LEMMA ChildIsNotThere ==
    ASSUME run'[C1] = "none"
    PROVE  ChildInherits' /\ ChildDrains' /\ ChildTakes'
BY DEF ChildInherits, ChildDrains, ChildTakes, Succeeded

(* Where the parent is, and what he calls.                                 *)
LEMMA InheritsAt ==
    ASSUME Base, UNCHANGED <<program, original>>, program = "7_9", ParentInherits, ChildInherits
    PROVE  /\ Running(Parent) =>
                 /\ AtCall(1) => Now(Parent).op = "open" /\ Now(Parent).fail = <<Exit(-2)>>
                 /\ AtCall(2) => /\ Now(Parent).op = "write_file" /\ Now(Parent).text = Text("Parent", 2)
                                 /\ Now(Parent).fail = <<Exit(-4)>>
                 /\ AtCall(3) => /\ Now(Parent).op = "fork" /\ Now(Parent).child = C1
                                 /\ Now(Parent).program = Child_7_9
                                 /\ Now(Parent).fail = <<Exit(-1)>>
                 /\ AtCall(4) => /\ Now(Parent).op = "wait" /\ Now(Parent).none = <<Exit(-1)>>
                                 /\ "fail" \notin DOMAIN Now(Parent)
                 /\ AtCall(5) => Now(Parent).op = "exit"
           /\ Running(Parent) =>
                 /\ AtCall(1) => Now(Parent).truncate
                 /\ AtCall(2) => Now(Parent).append = FALSE
                 /\ AtCall(2) => Now(Parent).again = FALSE
           /\ Running(Parent) => Now(Parent).op # "suspend"
           /\ Running(C1) =>
                 /\ code[C1] = Child_7_9 =>
                       /\ Now(C1).op = "write_file" /\ Now(C1).text = Text("Child", 2)
                       /\ Now(C1).fail = <<Exit(-4)>>
                 /\ code[C1] = Left(Child_7_9, 2) => Now(C1).op = "exit"
           /\ Running(C1) =>
                 /\ code[C1] = Child_7_9 => Now(C1).append = FALSE
                 /\ code[C1] = Child_7_9 => Now(C1).again = FALSE
           /\ Running(C1) => Now(C1).op # "suspend"
<1>1. Running(Parent) =>
          /\ AtCall(1) => Now(Parent) = OpenFile(TRUE, <<Exit(-2)>>)
          /\ AtCall(2) => Now(Parent) = WriteFile(Text("Parent", 2), <<Exit(-4)>>)
          /\ AtCall(3) => Now(Parent) = Fork(C1, Child_7_9, FailsMinus1)
          /\ AtCall(4) => Now(Parent) = Wait({C1}, "unsaid", FailsMinus1)
          /\ AtCall(5) => Now(Parent) = Exit(0)
  BY At_7_9, Zenon
<1>2. Running(C1) =>
          /\ code[C1] = Child_7_9 => Now(C1) = WriteFile(Text("Child", 2), <<Exit(-4)>>)
          /\ code[C1] = Left(Child_7_9, 2) => Now(C1) = Exit(0)
  BY ChildAt_7_9, Zenon
<1>3. /\ \A t, f : WriteFile(t, f).append = FALSE
      /\ \A t, f : WriteFile(t, f).again = FALSE
      /\ \A f : OpenFile(TRUE, f).truncate
  <2>1. \A t, f : WriteFile(t, f).append = FALSE
    BY DEF WriteFile
  <2>2. \A t, f : WriteFile(t, f).again = FALSE
    BY DEF WriteFile
  <2>3. \A f : OpenFile(TRUE, f).truncate
    BY DEF OpenFile
  <2>. QED
    BY <2>1, <2>2, <2>3, Zenon
<1>4. /\ \A t, f : WriteFile(t, f).op = "write_file" /\ WriteFile(t, f).text = t /\ WriteFile(t, f).fail = f
      /\ OpenFile(TRUE, <<Exit(-2)>>).op = "open" /\ OpenFile(TRUE, <<Exit(-2)>>).fail = <<Exit(-2)>>
      /\ \A c, g, f : /\ Fork(c, g, f).op = "fork" /\ Fork(c, g, f).child = c
                      /\ Fork(c, g, f).program = g /\ Fork(c, g, f).fail = f
      /\ \A w, f : /\ Wait(w, "unsaid", f).op = "wait" /\ Wait(w, "unsaid", f).none = f
                   /\ "fail" \notin DOMAIN Wait(w, "unsaid", f)
      /\ Exit(0).op = "exit" /\ FailsMinus1 = <<Exit(-1)>>
  BY DEF WriteFile, OpenFile, Fork, Wait, Exit, FailsMinus1
<1>5. Running(Parent) =>
          /\ AtCall(1) => Now(Parent).op = "open" /\ Now(Parent).fail = <<Exit(-2)>>
          /\ AtCall(2) => /\ Now(Parent).op = "write_file" /\ Now(Parent).text = Text("Parent", 2)
                          /\ Now(Parent).fail = <<Exit(-4)>>
          /\ AtCall(3) => /\ Now(Parent).op = "fork" /\ Now(Parent).child = C1
                          /\ Now(Parent).program = Child_7_9
                          /\ Now(Parent).fail = <<Exit(-1)>>
          /\ AtCall(4) => /\ Now(Parent).op = "wait" /\ Now(Parent).none = <<Exit(-1)>>
                          /\ "fail" \notin DOMAIN Now(Parent)
          /\ AtCall(5) => Now(Parent).op = "exit"
  <2>1. Running(Parent) => (AtCall(1) => Now(Parent).op = "open" /\ Now(Parent).fail = <<Exit(-2)>>)
    BY <1>1 DEF OpenFile
  <2>2. Running(Parent) => (AtCall(2) => /\ Now(Parent).op = "write_file" /\ Now(Parent).text = Text("Parent", 2)
                                         /\ Now(Parent).fail = <<Exit(-4)>>)
    BY <1>1, <1>4
  <2>3. Running(Parent) => (AtCall(3) => /\ Now(Parent).op = "fork" /\ Now(Parent).child = C1
                                         /\ Now(Parent).program = Child_7_9
                                         /\ Now(Parent).fail = <<Exit(-1)>>)
    BY <1>1, <1>4
  <2>4. Running(Parent) => (AtCall(4) => /\ Now(Parent).op = "wait" /\ Now(Parent).none = <<Exit(-1)>>
                                         /\ "fail" \notin DOMAIN Now(Parent))
    BY <1>1, <1>4
  <2>5. Running(Parent) => (AtCall(5) => Now(Parent).op = "exit")
    BY <1>1, <1>4
  <2>. QED
    BY <2>1, <2>2, <2>3, <2>4, <2>5, Zenon
<1>6. Running(Parent) =>
          /\ AtCall(1) => Now(Parent).truncate
          /\ AtCall(2) => Now(Parent).append = FALSE
          /\ AtCall(2) => Now(Parent).again = FALSE
  BY <1>1, <1>3
<1>7. Running(C1) =>
          /\ code[C1] = Child_7_9 =>
                /\ Now(C1).op = "write_file" /\ Now(C1).text = Text("Child", 2)
                /\ Now(C1).fail = <<Exit(-4)>>
          /\ code[C1] = Left(Child_7_9, 2) => Now(C1).op = "exit"
  BY <1>2, <1>4
<1>8. Running(C1) =>
          /\ code[C1] = Child_7_9 => Now(C1).append = FALSE
          /\ code[C1] = Child_7_9 => Now(C1).again = FALSE
  BY <1>2, <1>3
<1>9. Running(Parent) => Now(Parent).op # "suspend"
  <2>1. Running(Parent) => Escaping \/ AtCall(1) \/ AtCall(2) \/ AtCall(3) \/ AtCall(4) \/ AtCall(5)
    BY Zenon DEF ParentInherits
  <2>. QED
    BY <1>5, <2>1 DEF Escaping
<1>10. Running(C1) => Now(C1).op # "suspend"
  <2>1. Running(C1) =>
            code[C1] = Child_7_9 \/ code[C1] = Left(Child_7_9, 2) \/ Now(C1).op = "exit"
    BY Zenon DEF ChildInherits, Running
  <2>. QED
    BY <1>7, <2>1
<1>. QED
  BY <1>5, <1>6, <1>7, <1>8, <1>9, <1>10, Zenon

(* The parent is at call k and forks.                                      *)
LEMMA TailAt ==
    ASSUME Base, UNCHANGED program, Running(Parent), NEW k \in 1 .. Len(Main(program)), AtCall(k),
           code'[Parent] = Tail(code[Parent])
    PROVE  AtCall(k + 1)'
<1>1. Main(program) \in Seq(CallsOf(program, Parent))
  BY MainTyped DEF Base, LivesTyped
<1>2. Tail(Left(Main(program), k)) = Left(Main(program), k + 1)
  BY <1>1, LeftOf
<1>3. Main(program)' = Main(program)
  BY DEF Main
<1>. QED
  BY <1>2, <1>3 DEF AtCall

LEMMA LengthOf_7_9 ==
    ASSUME program = "7_9"
    PROVE  3 \in 1 .. Len(Main(program)) /\ 3 + 1 = 4
<1> DEFINE c1 == OpenFile(TRUE, <<Exit(-2)>>)
           c2 == WriteFile(Text("Parent", 2), <<Exit(-4)>>)
           c3 == Fork(C1, Child_7_9, FailsMinus1)
           c4 == Wait({C1}, "unsaid", FailsMinus1)
           c5 == Exit(0)
<1>1. Main(program) = <<c1, c2, c3, c4, c5>>
  BY DEF Main, Main_7_9
<1>. HIDE DEF c1, c2, c3, c4, c5
<1>2. Len(Main(program)) = 5
  BY <1>1
<1>. QED
  BY <1>2

LEMMA InheritsParent ==
    ASSUME Base, UNCHANGED <<program, original>>, program = "7_9", run[C2] = "none",
           ParentInherits, ChildInherits, ~torn' => ~torn, Moves(Parent)
    PROVE  run'[C2] = "none" /\ ParentInherits' /\ ChildInherits'
<1>1. Running(Parent) /\ (Step(Parent) \/ CallFails(Parent) \/ ShortWrite(Parent))
      /\ run \in [Procs -> {"none", "running", "zombie", "reaped"}] /\ file \in Seq(Bytes)
  BY MoveIs DEF Base, LivesTyped, FileTyped
<1>2. CASE DoExit(Parent)
  <2>1. ~Running(Parent)' /\ UNCHANGED <<code, disk>>
    BY <1>2, ExitEnds, Family
  <2>2. /\ Running(C1)' <=> Running(C1)
        /\ Succeeded(C1)' <=> Succeeded(C1)
        /\ run'[C2] = "none"
    BY <1>2, ExitEnds, Family
  <2>3. ChildInherits'
    BY <2>1, <2>2, ChildInheritsStays DEF disk
  <2>. QED
    BY <2>1, <2>2, <2>3 DEF ParentInherits
<1>3. CASE Escaping \/ AtCall(5)
  <2>1. Now(Parent).op = "exit"
    BY <1>1, <1>3, InheritsAt DEF Escaping
  <2>2. CASE Step(Parent)
    BY <1>2, <2>1, <2>2, StepOfCall
  <2>3. ~CallFails(Parent) /\ ~ShortWrite(Parent)
    <3>1. "fail" \notin DOMAIN Now(Parent)
      BY <1>1, <2>1, NowTyped, Family DEF Fields
    <3>. QED
      BY <2>1, <3>1, MoveIs DEF ShortWrite, Calls
  <2>. QED
    BY <1>1, <2>2, <2>3
<1>4. ASSUME NEW n \in Int, Bad(n), CallFails(Parent), Now(Parent).fail = <<Exit(n)>>
      PROVE  run'[C2] = "none" /\ ParentInherits' /\ ChildInherits'
  <2>1. Escaping'
    BY <1>4, ParentFails
  <2>2. /\ UNCHANGED <<run, status, killed, file, offset, torn>> /\ \A q \in Procs \ {Parent} : code'[q] = code[q]
    BY <1>4, FailsToExit, Family DEF life, io, disk
  <2>3. ChildInherits'
    <3>1. code'[C1] = code[C1]
      BY <2>2, Family
    <3>2. (Running(C1)' <=> Running(C1)) /\ (Succeeded(C1)' <=> Succeeded(C1))
      BY <2>2 DEF Running, Succeeded
    <3>. QED
      BY <2>2, <3>1, <3>2, ChildInheritsStays
  <2>. QED
    BY <2>1, <2>2, <2>3 DEF ParentInherits
<1>5. CASE run[C1] = "none" /\ AtCall(1)
  <2>1. Now(Parent).op = "open" /\ Now(Parent).fail = <<Exit(-2)>>
    BY <1>1, <1>5, InheritsAt
  <2>2. CASE CallFails(Parent)
    BY <1>4, <2>1, <2>2, BadStatuses
  <2>3. CASE Step(Parent)
    <3>1. DoOpenFile(Parent)
      BY <2>1, <2>3, StepOfCall
    <3>2. Now(Parent).truncate
      BY <1>1, <1>5, InheritsAt
    <3>3. file' = <<>> /\ offset' = 0 /\ GoOn(Parent, <<>>) /\ UNCHANGED run
      BY <3>1, <3>2 DEF DoOpenFile, life
    <3>4. AtCall(2)'
      BY <1>1, <1>5, <3>3, At_7_9, Zenon
    <3>5. ParentInherits'
      BY <1>5, <3>3, <3>4 DEF ParentInherits
    <3>. QED
      BY <1>5, <3>3, <3>5, ChildIsNotThere
  <2>. QED
    BY <2>1, <2>2, <2>3, MoveIs
<1>6. CASE run[C1] = "none" /\ AtCall(2) /\ file = <<>> /\ offset = 0
  <2>1. /\ Now(Parent).op = "write_file" /\ Now(Parent).text = Text("Parent", 2)
        /\ Now(Parent).fail = <<Exit(-4)>>
        /\ Now(Parent).append = FALSE /\ Now(Parent).again = FALSE
    BY <1>1, <1>6, InheritsAt, Zenon
  <2>2. CASE CallFails(Parent)
    BY <1>4, <2>1, <2>2, BadStatuses
  <2>3. ASSUME NEW n \in 1 .. 2,
               file' = Overwrite(offset, SubSeq(Text("Parent", 2), 1, n)), offset' = offset + n,
               GoOn(Parent, <<>>), UNCHANGED <<life, ends>>, n = 1 => torn'
        PROVE  run'[C2] = "none" /\ ParentInherits' /\ ChildInherits'
    <3>1. /\ SubSeq(Text("Parent", 2), 1, n) = Text("Parent", n)
          /\ Overwrite(0, Text("Parent", n)) = Text("Parent", n)
      BY <1>1, <1>6, SharedTexts
    <3>2. file' = Text("Parent", n) /\ offset' = n /\ run' = run
      <4>1. file' = Text("Parent", n)
        BY <1>6, <2>3, <3>1, Zenon
      <4>2. offset' = n /\ run' = run
        BY <1>6, <2>3 DEF life
      <4>. QED
        BY <4>1, <4>2
    <3>3. ~torn' => n = 2
      BY <2>3
    <3>4. ParentWrote'
      BY <3>2, <3>3 DEF ParentWrote, Text
    <3>5. AtCall(3)'
      BY <1>1, <1>6, <2>3, At_7_9, Zenon
    <3>6. ParentInherits'
      BY <1>6, <3>2, <3>4, <3>5 DEF ParentInherits
    <3>. QED
      BY <1>6, <3>2, <3>6, ChildIsNotThere
  <2>4. Text("Parent", 2) \in Seq(Bytes) /\ Len(Text("Parent", 2)) = 2
    BY <1>1, SharedTexts
  <2>5. \/ CallFails(Parent)
        \/ \E n \in 1 .. 2 :
              /\ file' = Overwrite(offset, SubSeq(Text("Parent", 2), 1, n)) /\ offset' = offset + n
              /\ GoOn(Parent, <<>>) /\ UNCHANGED <<life, ends>> /\ (n = 1 => torn')
    BY <2>1, <2>4, PutsPart, Family, Zenon
  <2>. QED
    BY <2>2, <2>3, <2>5
<1>7. CASE run[C1] = "none" /\ AtCall(3) /\ ParentWrote
  <2>1. /\ Now(Parent).op = "fork" /\ Now(Parent).child = C1
        /\ Now(Parent).program = Child_7_9 /\ Now(Parent).fail = <<Exit(-1)>>
    BY <1>1, <1>7, InheritsAt
  <2>2. CASE CallFails(Parent)
    BY <1>4, <2>1, <2>2, BadStatuses
  <2>3. CASE Step(Parent)
    <3>1. DoFork(Parent)
      BY <2>1, <2>3, StepOfCall
    <3>2. /\ run' = [run EXCEPT ![C1] = "running"]
          /\ code' = [code EXCEPT ![Parent] = Tail(@), ![C1] = Child_7_9]
          /\ UNCHANGED <<file, offset>>
      BY <2>1, <3>1 DEF DoFork, disk
    <3>3. run'[C1] = "running" /\ run'[C2] = "none"
      BY <1>1, <3>2, Family
    <3>4. code'[Parent] = Tail(code[Parent]) /\ code'[C1] = Child_7_9
      BY <3>2, Family DEF Base, Coded
    <3>5. AtCall(4)'
      <4>1. AtCall(3 + 1)'
        BY <1>1, <1>7, <3>4, LengthOf_7_9, TailAt, Zenon
      <4>. QED
        BY <4>1, LengthOf_7_9
    <3>6. ParentInherits'
      BY <3>3, <3>5 DEF ParentInherits
    <3>7. ChildInherits'
      <4>1. ~Succeeded(C1)'
        BY <3>3 DEF Succeeded
      <4>2. ParentWrote'
        BY <1>7, <3>2, StaysWritten
      <4>3. (code[C1] = Child_7_9)'
        BY <3>4 DEF Child_7_9, WriteFile, Exit, Text
      <4>. QED
        BY <4>1, <4>2, <4>3, Zenon DEF ChildInherits
    <3>. QED
      BY <3>3, <3>6, <3>7
  <2>. QED
    BY <2>1, <2>2, <2>3, MoveIs
<1>8. CASE run[C1] # "none" /\ AtCall(4)
  <2>1. /\ Now(Parent).op = "wait" /\ Now(Parent).none = <<Exit(-1)>>
        /\ "fail" \notin DOMAIN Now(Parent)
    BY <1>1, <1>8, InheritsAt
  <2>2. DoWait(Parent)
    BY <2>1, MoveIs, StepOfCall
  <2>3. /\ \/ GoOn(Parent, Now(Parent).none) /\ UNCHANGED run
           \/ GoOn(Parent, <<>>) /\ run[C1] = "zombie"
        /\ run'[C2] = "none" /\ (run'[C1] = "none" <=> run[C1] = "none")
        /\ code'[C1] = code[C1] /\ Now(C1)' = Now(C1)
        /\ (Succeeded(C1)' <=> Succeeded(C1)) /\ (Running(C1)' <=> Running(C1))
        /\ Running(Parent) /\ Running(Parent)'
        /\ UNCHANGED <<ends, pipe, written, got, disk, faults>>
    BY <2>2, ParentReaps
  <2>4. ChildInherits'
    <3>1. UNCHANGED <<file, offset>>
      BY <2>3 DEF disk
    <3>. QED
      BY <2>3, <3>1, ChildInheritsStays
  <2>5. Escaping' \/ AtCall(5)'
    <3>1. CASE GoOn(Parent, <<Exit(-1)>>)
      <4>1. Now(Parent)' = Exit(-1)
        BY <1>1, <3>1, GoesOn, Family
      <4>. QED
        BY <4>1, BadStatuses DEF Escaping
    <3>2. CASE GoOn(Parent, <<>>)
      BY <1>1, <1>8, <3>2, At_7_9, Zenon
    <3>. QED
      BY <2>1, <2>3, <3>1, <3>2
  <2>. QED
    BY <1>8, <2>3, <2>4, <2>5 DEF ParentInherits
<1>. QED
  BY <1>1, <1>3, <1>5, <1>6, <1>7, <1>8, Zenon DEF ParentInherits

LEMMA InheritsChild ==
    ASSUME Base, UNCHANGED <<program, original>>, program = "7_9", run[C2] = "none",
           ParentInherits, ChildInherits, ~torn' => ~torn, Moves(C1)
    PROVE  run'[C2] = "none" /\ ParentInherits' /\ ChildInherits'
<1>1. /\ Running(C1) /\ (Step(C1) \/ CallFails(C1) \/ ShortWrite(C1)) /\ run[C1] # "none"
      /\ file \in Seq(Bytes)
  BY MoveIs DEF Base, FileTyped, Running
<1>2. CASE Now(C1).op = "exit" /\ (Bad(Now(C1).status) \/ BothWrote)
  <2>1. DoExit(C1)
    <3>1. "fail" \notin DOMAIN Now(C1)
      BY <1>1, <1>2, NowTyped, Family DEF Fields
    <3>. QED
      BY <1>2, <3>1, MoveIs, StepOfCall
  <2>2. /\ ~Running(C1)' /\ UNCHANGED <<code, disk>>
        /\ Bad(Now(C1).status) => ~Succeeded(C1)'
    BY <2>1, ExitEnds, Family
  <2>3. /\ Running(Parent)' <=> Running(Parent)
        /\ run'[C2] = "none"
    BY <2>1, ExitEnds, Family
  <2>4. ChildInherits'
    <3>1. BothWrote => BothWrote'
      BY <2>2, StaysWritten DEF disk
    <3>. QED
      BY <1>2, <2>2, <3>1 DEF ChildInherits, Running
  <2>5. run'[C1] # "none"
    BY <2>1, OverBorn, Family
  <2>6. ParentInherits'
    BY <1>1, <2>2, <2>3, <2>5, ParentInheritsStays
  <2>. QED
    BY <2>3, <2>4, <2>6
<1>3. CASE code[C1] = Child_7_9 /\ ParentWrote
  <2>1. /\ Now(C1).op = "write_file" /\ Now(C1).text = Text("Child", 2)
        /\ Now(C1).fail = <<Exit(-4)>> /\ Now(C1).append = FALSE /\ Now(C1).again = FALSE
    BY <1>1, <1>3, InheritsAt, Zenon
  <2>2. /\ UNCHANGED run /\ code'[Parent] = code[Parent]
        /\ (Running(C1)' <=> Running(C1))
        /\ (Running(Parent)' <=> Running(Parent))
    BY <2>1, ChildMoves
  <2>3. run'[C2] = "none" /\ ParentInherits'
    BY <1>1, <2>2, ParentInheritsStays
  <2>4. ~Succeeded(C1)' /\ Running(C1)'
    BY <1>1, <2>2 DEF Succeeded, Running
  <2>5. CASE CallFails(C1)
    <3>1. Now(C1)' = Exit(-4)
      BY <2>1, <2>5, FailsToExit, Family
    <3>. QED
      BY <2>3, <2>4, <3>1, BadStatuses DEF ChildInherits
  <2>6. ASSUME NEW n \in 1 .. 2,
               file' = Overwrite(offset, SubSeq(Text("Child", 2), 1, n)),
               GoOn(C1, <<>>), n = 1 => torn'
        PROVE  ChildInherits'
    <3>1. PICK i \in 1 .. 2 : file = Text("Parent", i) /\ offset = i /\ (~torn => i = 2)
      BY <1>3 DEF ParentWrote
    <3>2. /\ SubSeq(Text("Child", 2), 1, n) = Text("Child", n)
          /\ Overwrite(i, Text("Child", n)) = Text("Parent", i) \o Text("Child", n)
      BY <1>1, <3>1, SharedTexts
    <3>3. file' = Text("Parent", i) \o Text("Child", n)
      BY <2>6, <3>1, <3>2
    <3>4. ~torn' => i = 2 /\ n = 2
      BY <2>6, <3>1
    <3>5. BothWrote'
      BY <3>3, <3>4 DEF BothWrote, Text
    <3>6. code'[C1] = Left(Child_7_9, 2)
      BY <1>1, <1>3, <2>6, ChildAt_7_9, Zenon
    <3>. QED
      BY <2>4, <3>5, <3>6 DEF ChildInherits, Child_7_9, Left, WriteFile, Exit, Text
  <2>7. Text("Child", 2) \in Seq(Bytes) /\ Len(Text("Child", 2)) = 2
    BY <1>1, SharedTexts
  <2>8. \/ CallFails(C1)
        \/ \E n \in 1 .. 2 :
              /\ file' = Overwrite(offset, SubSeq(Text("Child", 2), 1, n))
              /\ GoOn(C1, <<>>) /\ (n = 1 => torn')
    BY <2>1, <2>7, PutsPart, Family, Zenon
  <2>. QED
    BY <2>3, <2>5, <2>6, <2>8
<1>4. code[C1] = Left(Child_7_9, 2) => Now(C1).op = "exit"
  BY <1>1, InheritsAt
<1>. QED
  BY <1>1, <1>2, <1>3, <1>4, Zenon DEF ChildInherits, Running

LEMMA InheritsDeath ==
    ASSUME Base, UNCHANGED <<program, original>>, run[C2] = "none",
           ParentInherits, ChildInherits, ~torn' => ~torn, NEW p \in Procs, Dies(p)
    PROVE  run'[C2] = "none" /\ ParentInherits' /\ ChildInherits'
<1>1. p # C2 /\ Running(p)
  BY DEF Dies, Running
<1>2. UNCHANGED <<code, disk>> /\ run'[C2] = "none"
  BY <1>1, DeathFails, Family
<1>3. CASE p = Parent
  <2>1. ~Running(Parent)' /\ (Running(C1)' <=> Running(C1)) /\ (Succeeded(C1)' <=> Succeeded(C1))
    BY <1>3, DeathFails, Family
  <2>2. ChildInherits'
    BY <1>2, <2>1, ChildInheritsStays DEF disk
  <2>. QED
    BY <1>2, <2>1, <2>2 DEF ParentInherits
<1>4. CASE p = C1
  <2>1. ~Running(C1)' /\ ~Succeeded(C1)' /\ (Running(Parent)' <=> Running(Parent))
    BY <1>4, DeathFails, Family
  <2>2. ChildInherits'
    BY <2>1 DEF ChildInherits, Running
  <2>3. run[C1] # "none" /\ run'[C1] # "none"
    BY <1>1, <1>4, OverBorn DEF Running
  <2>4. ParentInherits'
    BY <1>2, <2>1, <2>3, ParentInheritsStays
  <2>. QED
    BY <1>2, <2>2, <2>4
<1>. QED
  BY <1>1, <1>3, <1>4, Family

LEMMA InheritsStep ==
    ASSUME Base, [Next]_vars, program = "7_9", Inherits
    PROVE  Inherits'
<1>1. run[C2] = "none" /\ ParentInherits /\ ChildInherits /\ (~torn' => ~torn)
  BY FaultsGrow DEF Inherits
<1>2. UNCHANGED <<program, original>>
  BY DEF Next, vars
<1>3. \A p \in Procs : Running(p) => Now(p).op # "suspend"
  BY <1>1, <1>2, InheritsAt, Family DEF Running
<1>4. Same \/ \E p \in Procs : Moves(p) \/ Dies(p)
  BY <1>3, NextSteps DEF Overrun
<1>5. CASE Same
  <2>1. /\ UNCHANGED <<program, run, file, offset, torn>>
        /\ code'[Parent] = code[Parent] /\ code'[C1] = code[C1]
        /\ (Running(Parent)' <=> Running(Parent)) /\ (Running(C1)' <=> Running(C1))
        /\ (Succeeded(C1)' <=> Succeeded(C1))
        /\ (Escaping' <=> Escaping) /\ \A k : AtCall(k)' <=> AtCall(k)
    BY <1>5, SameKeeps, Family
  <2>2. ChildInherits'
    BY <1>1, <2>1, ChildInheritsStays
  <2>3. ParentInherits'
    <3>1. /\ (run[C1] = "none")' <=> run[C1] = "none"
          /\ (file = <<>>)' <=> file = <<>>
          /\ (offset = 0)' <=> offset = 0
          /\ ParentWrote => ParentWrote'
      BY <2>1, StaysWritten
    <3>. QED
      BY <1>1, <2>1, <3>1, Zenon DEF ParentInherits
  <2>. QED
    BY <1>1, <2>1, <2>2, <2>3 DEF Inherits
<1>6. ASSUME NEW p \in Procs, Moves(p)
      PROVE  Inherits'
  <2>1. p # C2
    BY <1>1, <1>6 DEF Moves, Running
  <2>. QED
    BY <1>1, <1>2, <1>6, <2>1, InheritsParent, InheritsChild, Family DEF Inherits
<1>7. ASSUME NEW p \in Procs, Dies(p)
      PROVE  Inherits'
  BY <1>1, <1>2, <1>7, InheritsDeath DEF Inherits
<1>. QED
  BY <1>4, <1>5, <1>6, <1>7

LEMMA InitInherits ==
    ASSUME Init, program = "7_9", Base
    PROVE  Inherits
<1>1. /\ run[C1] = "none" /\ run[C2] = "none" /\ code[Parent] = Main(program)
  BY Family DEF Init, Booted
<1>2. Left(Main(program), 1) = Main(program)
  <2>1. Main(program) = Main_7_9
    BY DEF Main
  <2>. QED
    BY <2>1, Start_7_9, SubSeqFull DEF Left, Starts
<1>3. AtCall(1)
  BY <1>1, <1>2 DEF AtCall
<1>. QED
  BY <1>1, <1>3 DEF Inherits, ParentInherits, ChildInherits, Succeeded

-----------------------------------------------------------------------------
(* 11_2: the child empties the pipe that the parent fills                  *)

LEMMA ChildAt_11_2 ==
    ASSUME Base, Running(C1)
    PROVE  /\ code[C1] = Child_11_2 => Now(C1) = CloseEnd("write")
           /\ code[C1] = Left(Child_11_2, 2) => Now(C1) = ReadPipe(8, TRUE)
           /\ code[C1] = Left(Child_11_2, 3) => Now(C1) = CloseEnd("read")
           /\ code[C1] = Left(Child_11_2, 4) => Now(C1) = Exit(0)
           /\ (code[C1] = Child_11_2 /\ GoOn(C1, <<>>)) => code'[C1] = Left(Child_11_2, 2)
           /\ (code[C1] = Left(Child_11_2, 2) /\ GoOn(C1, <<>>)) => code'[C1] = Left(Child_11_2, 3)
           /\ (code[C1] = Left(Child_11_2, 2) /\ GoOn(C1, <<Now(C1)>>)) =>
                  code'[C1] = Left(Child_11_2, 2)
           /\ (code[C1] = Left(Child_11_2, 3) /\ GoOn(C1, <<>>)) => code'[C1] = Left(Child_11_2, 4)
<1> DEFINE c1 == CloseEnd("write")
           c2 == ReadPipe(8, TRUE)
           c3 == CloseEnd("read")
           c4 == Exit(0)
           s == <<c1, c2, c3, c4>>
<1>1. Child_11_2 = s
  BY DEF Child_11_2
<1>. HIDE DEF c1, c2, c3, c4
<1>2. s \in Seq({c1, c2, c3, c4}) /\ Len(s) = 4 /\ s[1] = c1 /\ s[2] = c2 /\ s[3] = c3 /\ s[4] = c4
  OBVIOUS
<1>3. /\ 1 \in 1 .. Len(s) /\ 2 \in 1 .. Len(s) /\ 3 \in 1 .. Len(s) /\ 4 \in 1 .. Len(s)
      /\ 1 + 1 = 2 /\ 2 + 1 = 3 /\ 3 + 1 = 4
  BY <1>2
<1>. HIDE DEF s
<1>4. Left(s, 1) = s
  BY <1>2, <1>3, LeftOf
<1>5. /\ code[C1] = s => Now(C1) = c1
      /\ (code[C1] = s /\ GoOn(C1, <<>>)) => code'[C1] = Left(s, 2)
  BY <1>2, <1>3, <1>4, ChildAt
<1>6. /\ code[C1] = Left(s, 2) => Now(C1) = c2
      /\ (code[C1] = Left(s, 2) /\ GoOn(C1, <<>>)) => code'[C1] = Left(s, 3)
      /\ (code[C1] = Left(s, 2) /\ GoOn(C1, <<Now(C1)>>)) => code'[C1] = Left(s, 2)
  BY <1>2, <1>3, ChildAt
<1>7. /\ code[C1] = Left(s, 3) => Now(C1) = c3
      /\ (code[C1] = Left(s, 3) /\ GoOn(C1, <<>>)) => code'[C1] = Left(s, 4)
  BY <1>2, <1>3, ChildAt
<1>8. code[C1] = Left(s, 4) => Now(C1) = c4
  BY <1>2, <1>3, ChildAt
<1>. QED
  BY <1>1, <1>5, <1>6, <1>7, <1>8, Zenon DEF c1, c2, c3, c4

LEMMA LengthOf_11_2 ==
    ASSUME program = "11_2"
    PROVE  2 \in 1 .. Len(Main(program)) /\ 2 + 1 = 3
<1> DEFINE c1 == OpenPipe
           c2 == Fork(C1, Child_11_2, Fails)
           c3 == CloseEnd("read")
           c4 == WritePipe(15, Fails)
           c5 == CloseEnd("write")
           c6 == Wait(Children, "unsaid", Fails)
           c7 == Exit(0)
<1>1. Main(program) = <<c1, c2, c3, c4, c5, c6, c7>>
  BY DEF Main, Main_11_2
<1>. HIDE DEF c1, c2, c3, c4, c5, c6, c7
<1>2. Len(Main(program)) = 7
  BY <1>1
<1>. QED
  BY <1>2

(* An empty pipe that nobody can write to stays so.                        *)
LEMMA StaysDrained ==
    ASSUME Drained, pipe' = pipe, \A q \in Procs : ends'[q] \subseteq ends[q]
    PROVE  Drained'
BY DEF Drained, OpenAt

LEMMA FewerEnds ==
    ASSUME Base, NEW p \in Procs
    PROVE  /\ ends' = [ends EXCEPT ![p] = {}] =>
                 \A q \in Procs : ends'[q] \subseteq ends[q] /\ (q # p => ends'[q] = ends[q])
           /\ \A e : ends' = [ends EXCEPT ![p] = @ \ {e}] =>
                 /\ \A q \in Procs : ends'[q] \subseteq ends[q] /\ (q # p => ends'[q] = ends[q])
                 /\ ends'[p] = ends[p] \ {e}
<1>1. ends \in [Procs -> SUBSET {"read", "write"}]
  BY DEF Base, PipeTyped
<1>. QED
  BY <1>1

LEMMA ParentDrainsStays ==
    ASSUME ParentDrains, UNCHANGED program, code'[Parent] = code[Parent],
           ends'[Parent] = ends[Parent],
           Running(Parent)' <=> Running(Parent), run[C1] # "none", run'[C1] # "none"
    PROVE  ParentDrains'
<1>1. Now(Parent)' = Now(Parent)
  BY DEF Now
<1>2. (Escaping' <=> Escaping) /\ \A k : AtCall(k)' <=> AtCall(k)
  BY <1>1 DEF Escaping, AtCall, Main
<1>3. /\ run[C1] # "none" /\ ~(run[C1] = "none")'
      /\ ("write" \in ends[Parent])' <=> "write" \in ends[Parent]
  OBVIOUS
<1>. QED
  BY <1>2, <1>3, Zenon DEF ParentDrains

LEMMA ChildDrainsStays ==
    ASSUME ChildDrains, Drained => Drained', code'[C1] = code[C1],
           Running(C1)' <=> Running(C1), Succeeded(C1)' <=> Succeeded(C1)
    PROVE  ChildDrains'
<1>1. /\ Now(C1)' = Now(C1)
      /\ (run[C1] = "running")' <=> run[C1] = "running"
  BY DEF Now, Running
<1>2. /\ (code[C1] = Child_11_2)' <=> code[C1] = Child_11_2
      /\ \A k : (code[C1] = Left(Child_11_2, k))' <=> code[C1] = Left(Child_11_2, k)
      /\ (Now(C1).op = "exit")' <=> Now(C1).op = "exit"
      /\ Bad(Now(C1).status)' <=> Bad(Now(C1).status)
  BY <1>1 DEF Child_11_2, Left, CloseEnd, ReadPipe, Exit, Bad
<1>. QED
  BY <1>1, <1>2, Zenon DEF ChildDrains

(* Where parent and child are, and what they call.                         *)
LEMMA DrainsAt ==
    ASSUME Base, UNCHANGED <<program, original>>, program = "11_2", ParentDrains, ChildDrains
    PROVE  /\ Running(Parent) =>
                 /\ AtCall(1) => Now(Parent).op = "pipe" /\ Now(Parent).fail = <<Exit(1)>>
                 /\ AtCall(2) => /\ Now(Parent).op = "fork" /\ Now(Parent).child = C1
                                 /\ Now(Parent).program = Child_11_2
                                 /\ Now(Parent).fail = <<Exit(1)>>
                 /\ AtCall(3) => /\ Now(Parent).op = "close" /\ Now(Parent).end = "read"
                                 /\ "fail" \notin DOMAIN Now(Parent)
                 /\ AtCall(4) => Now(Parent).op = "write" /\ Now(Parent).fail = <<Exit(1)>>
                 /\ AtCall(5) => /\ Now(Parent).op = "close" /\ Now(Parent).end = "write"
                                 /\ "fail" \notin DOMAIN Now(Parent)
                 /\ AtCall(6) => /\ Now(Parent).op = "wait" /\ Now(Parent).none = <<Exit(1)>>
                                 /\ "fail" \notin DOMAIN Now(Parent)
                 /\ AtCall(7) => Now(Parent).op = "exit"
           /\ Running(C1) =>
                 /\ code[C1] = Child_11_2 => /\ Now(C1).op = "close" /\ Now(C1).end = "write"
                                             /\ "fail" \notin DOMAIN Now(C1)
                 /\ code[C1] = Left(Child_11_2, 2) =>
                       /\ Now(C1).op = "read" /\ Now(C1).fail = <<Exit(1)>> /\ Now(C1).bytes = 8
                 /\ code[C1] = Left(Child_11_2, 3) =>
                       /\ Now(C1).op = "close" /\ Now(C1).end = "read"
                       /\ "fail" \notin DOMAIN Now(C1)
                 /\ code[C1] = Left(Child_11_2, 4) => Now(C1).op = "exit"
           /\ (Running(C1) /\ code[C1] = Left(Child_11_2, 2)) => Now(C1).again
           /\ Running(Parent) => Now(Parent).op # "suspend"
           /\ Running(C1) => Now(C1).op # "suspend"
<1>1. Running(Parent) =>
          /\ AtCall(1) => Now(Parent) = OpenPipe
          /\ AtCall(2) => Now(Parent) = Fork(C1, Child_11_2, Fails)
          /\ AtCall(3) => Now(Parent) = CloseEnd("read")
          /\ AtCall(4) => Now(Parent) = WritePipe(15, Fails)
          /\ AtCall(5) => Now(Parent) = CloseEnd("write")
          /\ AtCall(6) => Now(Parent) = Wait(Children, "unsaid", Fails)
          /\ AtCall(7) => Now(Parent) = Exit(0)
  BY At_11_2, Zenon
<1>2. Running(C1) =>
          /\ code[C1] = Child_11_2 => Now(C1) = CloseEnd("write")
          /\ code[C1] = Left(Child_11_2, 2) => Now(C1) = ReadPipe(8, TRUE)
          /\ code[C1] = Left(Child_11_2, 3) => Now(C1) = CloseEnd("read")
          /\ code[C1] = Left(Child_11_2, 4) => Now(C1) = Exit(0)
  BY ChildAt_11_2, Zenon
<1>3. /\ OpenPipe.op = "pipe" /\ OpenPipe.fail = <<Exit(1)>>
      /\ \A c, g, f : /\ Fork(c, g, f).op = "fork" /\ Fork(c, g, f).child = c
                      /\ Fork(c, g, f).program = g /\ Fork(c, g, f).fail = f
      /\ \A e : /\ CloseEnd(e).op = "close" /\ CloseEnd(e).end = e
                /\ "fail" \notin DOMAIN CloseEnd(e)
      /\ \A n, f : WritePipe(n, f).op = "write" /\ WritePipe(n, f).fail = f
      /\ \A w, f : /\ Wait(w, "unsaid", f).op = "wait" /\ Wait(w, "unsaid", f).none = f
                   /\ "fail" \notin DOMAIN Wait(w, "unsaid", f)
      /\ Exit(0).op = "exit" /\ Fails = <<Exit(1)>>
  BY DEF OpenPipe, Fork, CloseEnd, WritePipe, Wait, Exit, Fails
<1>4. \A n : /\ ReadPipe(n, TRUE).op = "read" /\ ReadPipe(n, TRUE).bytes = n
            /\ ReadPipe(n, TRUE).fail = <<Exit(1)>>
  BY DEF ReadPipe
<1>10. \A n : ReadPipe(n, TRUE).again
  BY DEF ReadPipe
<1>5. Running(Parent) =>
          /\ AtCall(1) => Now(Parent).op = "pipe" /\ Now(Parent).fail = <<Exit(1)>>
          /\ AtCall(2) => /\ Now(Parent).op = "fork" /\ Now(Parent).child = C1
                          /\ Now(Parent).program = Child_11_2
                          /\ Now(Parent).fail = <<Exit(1)>>
          /\ AtCall(3) => /\ Now(Parent).op = "close" /\ Now(Parent).end = "read"
                          /\ "fail" \notin DOMAIN Now(Parent)
          /\ AtCall(4) => Now(Parent).op = "write" /\ Now(Parent).fail = <<Exit(1)>>
          /\ AtCall(5) => /\ Now(Parent).op = "close" /\ Now(Parent).end = "write"
                          /\ "fail" \notin DOMAIN Now(Parent)
          /\ AtCall(6) => /\ Now(Parent).op = "wait" /\ Now(Parent).none = <<Exit(1)>>
                          /\ "fail" \notin DOMAIN Now(Parent)
          /\ AtCall(7) => Now(Parent).op = "exit"
  BY <1>1, <1>3
<1>6. Running(C1) =>
          /\ code[C1] = Child_11_2 => /\ Now(C1).op = "close" /\ Now(C1).end = "write"
                                      /\ "fail" \notin DOMAIN Now(C1)
          /\ code[C1] = Left(Child_11_2, 2) =>
                /\ Now(C1).op = "read" /\ Now(C1).fail = <<Exit(1)>> /\ Now(C1).bytes = 8
          /\ code[C1] = Left(Child_11_2, 3) =>
                /\ Now(C1).op = "close" /\ Now(C1).end = "read"
                /\ "fail" \notin DOMAIN Now(C1)
          /\ code[C1] = Left(Child_11_2, 4) => Now(C1).op = "exit"
  <2> DEFINE r == ReadPipe(8, TRUE)
  <2>1. r.op = "read" /\ r.bytes = 8 /\ r.fail = <<Exit(1)>>
    BY <1>4, Zenon
  <2>2. (Running(C1) /\ code[C1] = Left(Child_11_2, 2)) => Now(C1) = r
    BY <1>2, Zenon
  <2>3. Running(C1) =>
            /\ code[C1] = Child_11_2 => Now(C1) = CloseEnd("write")
            /\ code[C1] = Left(Child_11_2, 3) => Now(C1) = CloseEnd("read")
            /\ code[C1] = Left(Child_11_2, 4) => Now(C1) = Exit(0)
    BY <1>2, Zenon
  <2>. HIDE DEF r
  <2>. QED
    BY <1>3, <2>1, <2>2, <2>3
<1>7. (Running(C1) /\ code[C1] = Left(Child_11_2, 2)) => Now(C1).again
  BY <1>2, <1>10, Zenon
<1>8. Running(Parent) => Now(Parent).op # "suspend"
  <2>1. Running(Parent) => \/ Escaping \/ AtCall(1) \/ AtCall(2) \/ AtCall(3) \/ AtCall(4)
                           \/ AtCall(5) \/ AtCall(6) \/ AtCall(7)
    BY Zenon DEF ParentDrains
  <2>. QED
    BY <1>5, <2>1 DEF Escaping
<1>9. Running(C1) => Now(C1).op # "suspend"
  <2>1. Running(C1) => \/ code[C1] = Child_11_2 \/ code[C1] = Left(Child_11_2, 2)
                       \/ code[C1] = Left(Child_11_2, 3) \/ code[C1] = Left(Child_11_2, 4)
                       \/ Now(C1).op = "exit"
    BY Zenon DEF ChildDrains, Running
  <2>. QED
    BY <1>6, <2>1
<1>. QED
  BY <1>5, <1>6, <1>7, <1>8, <1>9, Zenon

LEMMA DrainsDeath ==
    ASSUME Base, UNCHANGED <<program, original>>, run[C2] = "none",
           ParentDrains, ChildDrains, NEW p \in Procs, Dies(p)
    PROVE  run'[C2] = "none" /\ ParentDrains' /\ ChildDrains'
<1>1. p # C2 /\ Running(p)
  BY DEF Dies, Running
<1>2. UNCHANGED <<code, pipe>> /\ run'[C2] = "none" /\ ends' = [ends EXCEPT ![p] = {}]
  BY <1>1, DeathFails, Family
<1>3. /\ \A q \in Procs : ends'[q] \subseteq ends[q] /\ (q # p => ends'[q] = ends[q])
      /\ Drained => Drained'
  BY <1>2, FewerEnds, StaysDrained
<1>4. CASE p = Parent
  <2>1. ~Running(Parent)' /\ (Running(C1)' <=> Running(C1)) /\ (Succeeded(C1)' <=> Succeeded(C1))
    BY <1>4, DeathFails, Family
  <2>2. ChildDrains'
    BY <1>2, <1>3, <2>1, ChildDrainsStays
  <2>. QED
    BY <1>2, <2>1, <2>2 DEF ParentDrains
<1>5. CASE p = C1
  <2>1. ~Running(C1)' /\ ~Succeeded(C1)' /\ (Running(Parent)' <=> Running(Parent))
    BY <1>5, DeathFails, Family
  <2>2. ChildDrains'
    BY <2>1 DEF ChildDrains, Running
  <2>3. run[C1] # "none" /\ run'[C1] # "none"
    BY <1>1, <1>5, OverBorn DEF Running
  <2>4. ParentDrains'
    BY <1>2, <1>3, <1>5, <2>1, <2>3, ParentDrainsStays, Family
  <2>. QED
    BY <1>2, <2>2, <2>4
<1>. QED
  BY <1>1, <1>4, <1>5, Family

LEMMA DrainsChild ==
    ASSUME Base, UNCHANGED <<program, original>>, program = "11_2", run[C2] = "none",
           ParentDrains, ChildDrains, Moves(C1)
    PROVE  run'[C2] = "none" /\ ParentDrains' /\ ChildDrains'
<1>1. Running(C1) /\ (Step(C1) \/ CallFails(C1) \/ ShortWrite(C1)) /\ run[C1] # "none"
  BY MoveIs DEF Running
<1>2. CASE Now(C1).op = "exit" /\ (Bad(Now(C1).status) \/ Drained)
  <2>1. DoExit(C1)
    <3>1. "fail" \notin DOMAIN Now(C1)
      BY <1>1, <1>2, NowTyped, Family DEF Fields
    <3>. QED
      BY <1>2, <3>1, MoveIs, StepOfCall
  <2>2. /\ ~Running(C1)' /\ UNCHANGED <<code, pipe>> /\ ends' = [ends EXCEPT ![C1] = {}]
        /\ Bad(Now(C1).status) => ~Succeeded(C1)'
    BY <2>1, ExitEnds, Family
  <2>3. (Running(Parent)' <=> Running(Parent)) /\ run'[C2] = "none"
    BY <2>1, ExitEnds, Family
  <2>4. ends'[Parent] = ends[Parent] /\ (Drained => Drained')
    BY <2>2, FewerEnds, StaysDrained, Family
  <2>5. ChildDrains'
    BY <1>2, <2>2, <2>4 DEF ChildDrains, Running
  <2>6. run'[C1] # "none"
    BY <2>1, OverBorn, Family
  <2>7. ParentDrains'
    BY <1>1, <2>2, <2>3, <2>4, <2>6, ParentDrainsStays
  <2>. QED
    BY <2>3, <2>5, <2>7
<1>3. ASSUME Now(C1).op \in {"close", "read"}
      PROVE  /\ run'[C2] = "none" /\ ~Succeeded(C1)' /\ Running(C1)'
             /\ ends'[Parent] = ends[Parent] => ParentDrains'
  <2>1. /\ UNCHANGED run /\ code'[Parent] = code[Parent]
        /\ (Running(C1)' <=> Running(C1))
        /\ (Running(Parent)' <=> Running(Parent))
    BY <1>3, ChildMoves
  <2>2. run'[C1] # "none" /\ run'[C2] = "none"
    BY <1>1, <2>1
  <2>3. ends'[Parent] = ends[Parent] => ParentDrains'
    BY <1>1, <2>1, <2>2, ParentDrainsStays
  <2>. QED
    BY <1>1, <2>1, <2>2, <2>3 DEF Running, Succeeded
<1>4. ASSUME Now(C1).op = "close", "fail" \notin DOMAIN Now(C1)
      PROVE  /\ GoOn(C1, <<>>) /\ pipe' = pipe /\ ends'[Parent] = ends[Parent]
             /\ \A q \in Procs : ends'[q] \subseteq ends[q]
  <2>1. DoClose(C1)
    BY <1>4, MoveIs, StepOfCall
  <2>2. GoOn(C1, <<>>) /\ pipe' = pipe /\ ends' = [ends EXCEPT ![C1] = @ \ {Now(C1).end}]
    BY <2>1 DEF DoClose
  <2>. QED
    BY <2>2, FewerEnds, Family
<1>5. CASE code[C1] = Child_11_2
  <2>1. Now(C1).op = "close" /\ "fail" \notin DOMAIN Now(C1)
    BY <1>1, <1>5, DrainsAt
  <2>2. code'[C1] = Left(Child_11_2, 2)
    BY <1>1, <1>4, <1>5, <2>1, ChildAt_11_2, Zenon
  <2>3. ChildDrains'
    BY <1>3, <2>1, <2>2 DEF ChildDrains, Child_11_2, Left, CloseEnd, ReadPipe, Exit
  <2>. QED
    BY <1>3, <1>4, <2>1, <2>3
<1>6. CASE code[C1] = Left(Child_11_2, 2)
  <2>1. Now(C1).op = "read" /\ Now(C1).fail = <<Exit(1)>> /\ Now(C1).bytes = 8
    BY <1>1, <1>6, DrainsAt
  <2>2. Now(C1).again
    BY <1>1, <1>6, DrainsAt, Zenon
  <2>3. CASE CallFails(C1)
    <3>1. Now(C1)' = Exit(1) /\ UNCHANGED ends
      BY <2>1, <2>3, FailsToExit, Family DEF io
    <3>2. ChildDrains'
      BY <1>3, <2>1, <3>1, BadStatuses DEF ChildDrains
    <3>. QED
      BY <1>3, <2>1, <3>1, <3>2
  <2>4. CASE Step(C1)
    <3>1. DoRead(C1)
      BY <2>1, <2>4, StepOfCall
    <3> DEFINE n == Min({8, pipe})
    <3>2. /\ pipe' = pipe - n /\ UNCHANGED ends
          /\ n > 0 \/ ~OpenAt("write")
      BY <2>1, <3>1 DEF DoRead
    <3>3. /\ n > 0 => GoOn(C1, <<Now(C1)>>)
          /\ ~(n > 0) => GoOn(C1, <<>>)
      <4>1. GoOn(C1, IF n > 0 /\ Now(C1).again THEN <<Now(C1)>> ELSE <<>>)
        BY <2>1, <3>1 DEF DoRead
      <4>. QED
        BY <2>2, <4>1
    <3>4. pipe \in Nat /\ n \in {8, pipe}
      <4>1. pipe \in Nat /\ pipe \in Int /\ 8 \in Int
        BY DEF Base, PipeTyped
      <4>2. \A a, b \in Int : Min({a, b}) \in {a, b}
        BY MinMax
      <4>. QED
        BY <4>1, <4>2, Zenon
    <3>. HIDE DEF n
    <3>5. CASE n > 0
      <4>1. code'[C1] = Left(Child_11_2, 2)
        BY <1>1, <1>6, <3>3, <3>5, ChildAt_11_2, Zenon
      <4>2. ChildDrains'
        BY <1>3, <2>1, <4>1 DEF ChildDrains, Child_11_2, Left, CloseEnd, ReadPipe, Exit
      <4>. QED
        BY <1>3, <2>1, <3>2, <4>2
    <3>6. CASE ~(n > 0)
      <4>1. code'[C1] = Left(Child_11_2, 3)
        BY <1>1, <1>6, <3>3, <3>6, ChildAt_11_2, Zenon
      <4>2. Drained'
        BY <3>2, <3>4, <3>6 DEF Drained, OpenAt
      <4>3. ChildDrains'
        BY <1>3, <2>1, <4>1, <4>2 DEF ChildDrains, Child_11_2, Left, CloseEnd, ReadPipe, Exit
      <4>. QED
        BY <1>3, <2>1, <3>2, <4>3
    <3>. QED
      BY <3>5, <3>6
  <2>. QED
    BY <2>1, <2>3, <2>4, MoveIs
<1>7. CASE code[C1] = Left(Child_11_2, 3) /\ Drained
  <2>1. Now(C1).op = "close" /\ "fail" \notin DOMAIN Now(C1)
    BY <1>1, <1>7, DrainsAt
  <2>2. code'[C1] = Left(Child_11_2, 4)
    BY <1>1, <1>4, <1>7, <2>1, ChildAt_11_2, Zenon
  <2>3. Drained'
    BY <1>4, <1>7, <2>1, StaysDrained
  <2>4. ChildDrains'
    BY <1>3, <2>1, <2>2, <2>3 DEF ChildDrains, Child_11_2, Left, CloseEnd, ReadPipe, Exit
  <2>. QED
    BY <1>3, <1>4, <2>1, <2>4
<1>8. code[C1] = Left(Child_11_2, 4) => Now(C1).op = "exit"
  BY <1>1, DrainsAt
<1>. QED
  BY <1>1, <1>2, <1>5, <1>6, <1>7, <1>8, Zenon DEF ChildDrains, Running

LEMMA DrainsParent ==
    ASSUME Base, UNCHANGED <<program, original>>, program = "11_2", run[C2] = "none",
           ParentDrains, ChildDrains, Moves(Parent)
    PROVE  run'[C2] = "none" /\ ParentDrains' /\ ChildDrains'
<1>1. Running(Parent) /\ (Step(Parent) \/ CallFails(Parent) \/ ShortWrite(Parent))
      /\ run \in [Procs -> {"none", "running", "zombie", "reaped"}]
      /\ ends \in [Procs -> SUBSET {"read", "write"}]
  BY MoveIs DEF Base, LivesTyped, PipeTyped
<1>2. CASE DoExit(Parent)
  <2>1. ~Running(Parent)' /\ UNCHANGED <<code, pipe>> /\ ends' = [ends EXCEPT ![Parent] = {}]
    BY <1>2, ExitEnds, Family
  <2>2. /\ Running(C1)' <=> Running(C1)
        /\ Succeeded(C1)' <=> Succeeded(C1)
        /\ run'[C2] = "none"
    BY <1>2, ExitEnds, Family
  <2>3. Drained => Drained'
    BY <2>1, FewerEnds, StaysDrained, Family
  <2>4. ChildDrains'
    BY <2>1, <2>2, <2>3, ChildDrainsStays
  <2>. QED
    BY <2>1, <2>2, <2>4 DEF ParentDrains
<1>3. CASE Escaping \/ AtCall(7)
  <2>1. Now(Parent).op = "exit"
    BY <1>1, <1>3, DrainsAt DEF Escaping
  <2>2. "fail" \notin DOMAIN Now(Parent)
    BY <1>1, <2>1, NowTyped, Family DEF Fields
  <2>. QED
    BY <1>2, <2>1, <2>2, MoveIs, StepOfCall
<1>4. ASSUME CallFails(Parent), Now(Parent).fail = <<Exit(1)>>
      PROVE  run'[C2] = "none" /\ ParentDrains' /\ ChildDrains'
  <2>1. Escaping'
    BY <1>4, ParentFails, BadStatuses
  <2>2. UNCHANGED <<run, status, killed, ends, pipe>> /\ \A q \in Procs \ {Parent} : code'[q] = code[q]
    BY <1>4, FailsToExit, Family DEF life, io
  <2>3. ChildDrains'
    <3>1. code'[C1] = code[C1] /\ (Running(C1)' <=> Running(C1)) /\ (Succeeded(C1)' <=> Succeeded(C1))
      BY <2>2, Family DEF Running, Succeeded
    <3>2. Drained => Drained'
      BY <2>2 DEF Drained, OpenAt
    <3>. QED
      BY <3>1, <3>2, ChildDrainsStays
  <2>. QED
    BY <2>1, <2>2, <2>3 DEF ParentDrains
<1>5. ASSUME UNCHANGED <<run, status, killed>>, NEW u, GoOn(Parent, u), Drained => Drained'
      PROVE  run'[C2] = "none" /\ Running(Parent)' /\ ChildDrains'
             /\ (run'[C1] = "none" <=> run[C1] = "none")
  <2>1. /\ code'[C1] = code[C1] /\ (Succeeded(C1)' <=> Succeeded(C1))
        /\ (Running(C1)' <=> Running(C1)) /\ Running(Parent)'
    BY <1>1, <1>5, ParentKeeps
  <2>. QED
    BY <1>5, <2>1, ChildDrainsStays
<1>6. ASSUME Now(Parent).op = "close", "fail" \notin DOMAIN Now(Parent)
      PROVE  /\ GoOn(Parent, <<>>) /\ ends'[Parent] = ends[Parent] \ {Now(Parent).end}
             /\ run'[C2] = "none" /\ ChildDrains' /\ (run'[C1] = "none" <=> run[C1] = "none")
  <2>1. DoClose(Parent)
    BY <1>6, MoveIs, StepOfCall
  <2>2. /\ GoOn(Parent, <<>>) /\ UNCHANGED <<pipe, run, status, killed>>
        /\ ends' = [ends EXCEPT ![Parent] = @ \ {Now(Parent).end}]
    BY <2>1 DEF DoClose, life
  <2>3. /\ ends'[Parent] = ends[Parent] \ {Now(Parent).end}
        /\ Drained => Drained'
    BY <2>2, FewerEnds, StaysDrained, Family
  <2>. QED
    BY <1>5, <2>2, <2>3
<1>7. CASE run[C1] = "none" /\ AtCall(1)
  <2>1. Now(Parent).op = "pipe" /\ Now(Parent).fail = <<Exit(1)>>
    BY <1>1, <1>7, DrainsAt
  <2>2. CASE Step(Parent)
    <3>1. DoPipe(Parent)
      BY <2>1, <2>2, StepOfCall
    <3>2. /\ GoOn(Parent, <<>>) /\ UNCHANGED run
          /\ ends' = [ends EXCEPT ![Parent] = {"read", "write"}]
      BY <3>1 DEF DoPipe, life
    <3>3. "write" \in ends'[Parent]
      BY <1>1, <3>2, Family
    <3>4. AtCall(2)'
      BY <1>1, <1>7, <3>2, At_11_2, Zenon
    <3>5. ParentDrains'
      BY <1>7, <3>2, <3>3, <3>4 DEF ParentDrains
    <3>. QED
      BY <1>7, <3>2, <3>5, ChildIsNotThere
  <2>. QED
    BY <1>4, <2>1, <2>2, MoveIs
<1>8. CASE run[C1] = "none" /\ AtCall(2) /\ "write" \in ends[Parent]
  <2>1. /\ Now(Parent).op = "fork" /\ Now(Parent).child = C1
        /\ Now(Parent).program = Child_11_2 /\ Now(Parent).fail = <<Exit(1)>>
    BY <1>1, <1>8, DrainsAt
  <2>2. CASE Step(Parent)
    <3>1. DoFork(Parent)
      BY <2>1, <2>2, StepOfCall
    <3>2. /\ run' = [run EXCEPT ![C1] = "running"]
          /\ code' = [code EXCEPT ![Parent] = Tail(@), ![C1] = Child_11_2]
          /\ ends' = [ends EXCEPT ![C1] = ends[Parent]]
      BY <2>1, <3>1 DEF DoFork
    <3>3. run'[C1] = "running" /\ run'[C2] = "none" /\ ends'[Parent] = ends[Parent]
      BY <1>1, <1>8, <3>2, Family
    <3>4. code'[Parent] = Tail(code[Parent]) /\ code'[C1] = Child_11_2
      BY <3>2, Family DEF Base, Coded
    <3>5. AtCall(3)'
      <4>1. AtCall(2 + 1)'
        BY <1>1, <1>8, <3>4, LengthOf_11_2, TailAt, Zenon
      <4>. QED
        BY <4>1, LengthOf_11_2
    <3>6. ParentDrains'
      BY <1>8, <3>3, <3>5 DEF ParentDrains
    <3>7. ChildDrains'
      BY <3>3, <3>4 DEF ChildDrains, Succeeded, Child_11_2
    <3>. QED
      BY <3>3, <3>6, <3>7
  <2>. QED
    BY <1>4, <2>1, <2>2, MoveIs
<1>9. CASE run[C1] # "none" /\ AtCall(3) /\ "write" \in ends[Parent]
  <2>1. /\ Now(Parent).op = "close" /\ Now(Parent).end = "read"
        /\ "fail" \notin DOMAIN Now(Parent)
    BY <1>1, <1>9, DrainsAt
  <2>2. AtCall(4)'
    BY <1>1, <1>6, <1>9, <2>1, At_11_2, Zenon
  <2>3. "write" \in ends'[Parent]
    BY <1>6, <1>9, <2>1
  <2>4. ParentDrains'
    BY <1>6, <1>9, <2>1, <2>2, <2>3 DEF ParentDrains
  <2>. QED
    BY <1>6, <2>1, <2>4
<1>10. CASE run[C1] # "none" /\ AtCall(4) /\ "write" \in ends[Parent]
  <2>1. Now(Parent).op = "write" /\ Now(Parent).fail = <<Exit(1)>>
    BY <1>1, <1>10, DrainsAt
  <2>2. ~Drained
    BY <1>10, Family DEF Drained, OpenAt
  <2>3. CASE DoWrite(Parent)
    <3>1. GoOn(Parent, <<>>) /\ UNCHANGED <<run, status, killed>>
      BY <2>3 DEF DoWrite, life
    <3>2. AtCall(5)'
      BY <1>1, <1>10, <3>1, At_11_2, Zenon
    <3>3. run'[C2] = "none" /\ ChildDrains' /\ (run'[C1] = "none" <=> run[C1] = "none")
      BY <1>5, <2>2, <3>1
    <3>4. ParentDrains'
      BY <1>10, <3>2, <3>3 DEF ParentDrains
    <3>. QED
      BY <3>3, <3>4
  <2>4. CASE BrokenPipe(Parent)
    <3>1. CASE EndBySignal(Parent, "PIPE")
      <4>1. Dies(Parent)
        BY <1>1, <3>1 DEF Dies, Signals, Number
      <4>. QED
        BY <4>1, DrainsDeath, Family
    <3>2. CASE GoOn(Parent, <<Exit(1)>>) /\ UNCHANGED life
      <4>1. UNCHANGED <<run, status, killed>>
        BY <3>2 DEF life
      <4>2. Now(Parent)' = Exit(1)
        BY <1>1, <3>2, GoesOn, Family
      <4>3. run'[C2] = "none" /\ ChildDrains' /\ (run'[C1] = "none" <=> run[C1] = "none")
        BY <1>5, <2>2, <3>2, <4>1
      <4>4. ParentDrains'
        BY <1>10, <4>2, <4>3, BadStatuses DEF ParentDrains, Escaping
      <4>. QED
        BY <4>3, <4>4
    <3>. QED
      BY <2>1, <2>4, <3>1, <3>2 DEF BrokenPipe
  <2>. QED
    BY <1>4, <2>1, <2>3, <2>4, MoveIs, StepOfCall
<1>11. CASE run[C1] # "none" /\ AtCall(5)
  <2>1. Now(Parent).op = "close" /\ "fail" \notin DOMAIN Now(Parent)
    BY <1>1, <1>11, DrainsAt
  <2>2. AtCall(6)'
    BY <1>1, <1>6, <1>11, <2>1, At_11_2, Zenon
  <2>3. ParentDrains'
    BY <1>6, <1>11, <2>1, <2>2 DEF ParentDrains
  <2>. QED
    BY <1>6, <2>1, <2>3
<1>12. CASE run[C1] # "none" /\ AtCall(6)
  <2>1. /\ Now(Parent).op = "wait" /\ Now(Parent).none = <<Exit(1)>>
        /\ "fail" \notin DOMAIN Now(Parent)
    BY <1>1, <1>12, DrainsAt
  <2>2. DoWait(Parent)
    BY <2>1, MoveIs, StepOfCall
  <2>3. /\ \/ GoOn(Parent, Now(Parent).none) /\ UNCHANGED run
           \/ GoOn(Parent, <<>>) /\ run[C1] = "zombie"
        /\ run'[C2] = "none" /\ (run'[C1] = "none" <=> run[C1] = "none")
        /\ code'[C1] = code[C1]
        /\ (Succeeded(C1)' <=> Succeeded(C1)) /\ (Running(C1)' <=> Running(C1))
        /\ UNCHANGED <<ends, pipe>>
    BY <2>2, ParentReaps
  <2>4. ChildDrains'
    <3>1. Drained => Drained'
      BY <2>3 DEF Drained, OpenAt
    <3>. QED
      BY <2>3, <3>1, ChildDrainsStays
  <2>5. Escaping' \/ AtCall(7)'
    <3>1. CASE GoOn(Parent, <<Exit(1)>>)
      <4>1. Now(Parent)' = Exit(1)
        BY <1>1, <3>1, GoesOn, Family
      <4>. QED
        BY <4>1, BadStatuses DEF Escaping
    <3>2. CASE GoOn(Parent, <<>>)
      BY <1>1, <1>12, <3>2, At_11_2, Zenon
    <3>. QED
      BY <2>1, <2>3, <3>1, <3>2
  <2>. QED
    BY <1>12, <2>3, <2>4, <2>5 DEF ParentDrains
<1>. QED
  BY <1>1, <1>3, <1>7, <1>8, <1>9, <1>10, <1>11, <1>12, Zenon DEF ParentDrains

LEMMA DrainsStep ==
    ASSUME Base, [Next]_vars, program = "11_2", Drains
    PROVE  Drains'
<1>1. run[C2] = "none" /\ ParentDrains /\ ChildDrains
  BY DEF Drains
<1>2. UNCHANGED <<program, original>>
  BY DEF Next, vars
<1>3. \A p \in Procs : Running(p) => Now(p).op # "suspend"
  BY <1>1, <1>2, DrainsAt, Family DEF Running
<1>4. Same \/ \E p \in Procs : Moves(p) \/ Dies(p)
  BY <1>3, NextSteps DEF Overrun
<1>5. CASE Same
  <2>1. /\ UNCHANGED <<program, run, pipe, ends>>
        /\ code'[Parent] = code[Parent] /\ code'[C1] = code[C1]
        /\ (Running(Parent)' <=> Running(Parent)) /\ (Running(C1)' <=> Running(C1))
        /\ (Succeeded(C1)' <=> Succeeded(C1))
        /\ (Escaping' <=> Escaping) /\ \A k : AtCall(k)' <=> AtCall(k)
    BY <1>5, SameKeeps, Family
  <2>2. ChildDrains'
    <3>1. Drained => Drained'
      BY <2>1 DEF Drained, OpenAt
    <3>. QED
      BY <1>1, <2>1, <3>1, ChildDrainsStays
  <2>3. ParentDrains'
    <3>1. /\ (run[C1] = "none")' <=> run[C1] = "none"
          /\ ("write" \in ends[Parent])' <=> "write" \in ends[Parent]
      BY <2>1
    <3>. QED
      BY <1>1, <2>1, <3>1, Zenon DEF ParentDrains
  <2>. QED
    BY <1>1, <2>1, <2>2, <2>3 DEF Drains
<1>6. ASSUME NEW p \in Procs, Moves(p)
      PROVE  Drains'
  <2>1. p # C2
    BY <1>1, <1>6 DEF Moves, Running
  <2>. QED
    BY <1>1, <1>2, <1>6, <2>1, DrainsParent, DrainsChild, Family DEF Drains
<1>7. ASSUME NEW p \in Procs, Dies(p)
      PROVE  Drains'
  BY <1>1, <1>2, <1>7, DrainsDeath DEF Drains
<1>. QED
  BY <1>4, <1>5, <1>6, <1>7

LEMMA InitDrains ==
    ASSUME Init, program = "11_2", Base
    PROVE  Drains
<1>1. /\ run[C1] = "none" /\ run[C2] = "none" /\ code[Parent] = Main(program)
  BY Family DEF Init, Booted
<1>2. Left(Main(program), 1) = Main(program)
  <2>1. Main(program) = Main_11_2
    BY DEF Main
  <2>. QED
    BY <2>1, Start_11_2, SubSeqFull DEF Left, Starts
<1>3. AtCall(1)
  BY <1>1, <1>2 DEF AtCall
<1>. QED
  BY <1>1, <1>3 DEF Drains, ParentDrains, ChildDrains, Succeeded

-----------------------------------------------------------------------------
(* 11_3: the child takes a part of what the parent writes                  *)

LEMMA ChildAt_11_3 ==
    ASSUME Base, Running(C1)
    PROVE  /\ code[C1] = Child_11_3 => Now(C1) = CloseEnd("write")
           /\ code[C1] = Left(Child_11_3, 2) => Now(C1) = ReadPipe(4, FALSE)
           /\ code[C1] = Left(Child_11_3, 3) => Now(C1) = CloseEnd("read")
           /\ code[C1] = Left(Child_11_3, 4) => Now(C1) = Exit(0)
           /\ (code[C1] = Child_11_3 /\ GoOn(C1, <<>>)) => code'[C1] = Left(Child_11_3, 2)
           /\ (code[C1] = Left(Child_11_3, 2) /\ GoOn(C1, <<>>)) => code'[C1] = Left(Child_11_3, 3)
           /\ (code[C1] = Left(Child_11_3, 3) /\ GoOn(C1, <<>>)) => code'[C1] = Left(Child_11_3, 4)
<1> DEFINE c1 == CloseEnd("write")
           c2 == ReadPipe(4, FALSE)
           c3 == CloseEnd("read")
           c4 == Exit(0)
           s == <<c1, c2, c3, c4>>
<1>1. Child_11_3 = s
  BY DEF Child_11_3
<1>. HIDE DEF c1, c2, c3, c4
<1>2. s \in Seq({c1, c2, c3, c4}) /\ Len(s) = 4 /\ s[1] = c1 /\ s[2] = c2 /\ s[3] = c3 /\ s[4] = c4
  OBVIOUS
<1>3. /\ 1 \in 1 .. Len(s) /\ 2 \in 1 .. Len(s) /\ 3 \in 1 .. Len(s) /\ 4 \in 1 .. Len(s)
      /\ 1 + 1 = 2 /\ 2 + 1 = 3 /\ 3 + 1 = 4
  BY <1>2
<1>. HIDE DEF s
<1>4. Left(s, 1) = s
  BY <1>2, <1>3, LeftOf
<1>5. /\ code[C1] = s => Now(C1) = c1
      /\ (code[C1] = s /\ GoOn(C1, <<>>)) => code'[C1] = Left(s, 2)
  BY <1>2, <1>3, <1>4, ChildAt
<1>6. /\ code[C1] = Left(s, 2) => Now(C1) = c2
      /\ (code[C1] = Left(s, 2) /\ GoOn(C1, <<>>)) => code'[C1] = Left(s, 3)
  BY <1>2, <1>3, ChildAt
<1>7. /\ code[C1] = Left(s, 3) => Now(C1) = c3
      /\ (code[C1] = Left(s, 3) /\ GoOn(C1, <<>>)) => code'[C1] = Left(s, 4)
  BY <1>2, <1>3, ChildAt
<1>8. code[C1] = Left(s, 4) => Now(C1) = c4
  BY <1>2, <1>3, ChildAt
<1>. QED
  BY <1>1, <1>5, <1>6, <1>7, <1>8, Zenon DEF c1, c2, c3, c4

LEMMA LengthOf_11_3 ==
    ASSUME program = "11_3"
    PROVE  3 \in 1 .. Len(Main(program)) /\ 3 + 1 = 4
<1> DEFINE c1 == Ignore("PIPE")
           c2 == OpenPipe
           c3 == Fork(C1, Child_11_3, Fails)
           c4 == CloseEnd("read")
           c5 == WritePipe(4, <<>>)
           c6 == WritePipe(4, <<>>)
           c7 == CloseEnd("write")
           c8 == Wait(Children, "unsaid", Fails)
           c9 == Exit(0)
<1>1. Main(program) = <<c1, c2, c3, c4, c5, c6, c7, c8, c9>>
  BY DEF Main, Main_11_3
<1>. HIDE DEF c1, c2, c3, c4, c5, c6, c7, c8, c9
<1>2. Len(Main(program)) = 9
  BY <1>1
<1>. QED
  BY <1>2

(* What the child has taken it keeps, and where nothing will come nothing  *)
(* comes.                                                                  *)
LEMMA StaysTaken ==
    ASSUME Taken, got' = got, written' = written, \A q \in Procs : ends'[q] \subseteq ends[q]
    PROVE  Taken'
BY DEF Taken, OpenAt

LEMMA ParentSendsStays ==
    ASSUME ParentSends, UNCHANGED <<program, written>>, code'[Parent] = code[Parent],
           ends'[Parent] = ends[Parent], ignored'[Parent] = ignored[Parent],
           Running(Parent)' <=> Running(Parent), run[C1] # "none", run'[C1] # "none"
    PROVE  ParentSends'
<1>1. Now(Parent)' = Now(Parent)
  BY DEF Now
<1>2. (Escaping' <=> Escaping) /\ \A k : AtCall(k)' <=> AtCall(k)
  BY <1>1 DEF Escaping, AtCall, Main
<1>3. /\ run[C1] # "none" /\ ~(run[C1] = "none")'
      /\ ("write" \in ends[Parent])' <=> "write" \in ends[Parent]
      /\ ("PIPE" \in ignored[Parent])' <=> "PIPE" \in ignored[Parent]
      /\ (written = 0)' <=> written = 0
      /\ (written \in {0, 4})' <=> written \in {0, 4}
  OBVIOUS
<1>. QED
  BY <1>2, <1>3, Zenon DEF ParentSends

LEMMA ChildTakesStays ==
    ASSUME ChildTakes, got' = got, Taken => Taken', code'[C1] = code[C1],
           Running(C1)' <=> Running(C1), Succeeded(C1)' <=> Succeeded(C1)
    PROVE  ChildTakes'
<1>1. /\ Now(C1)' = Now(C1)
      /\ (run[C1] = "running")' <=> run[C1] = "running"
  BY DEF Now, Running
<1>2. /\ (code[C1] = Child_11_3)' <=> code[C1] = Child_11_3
      /\ \A k : (code[C1] = Left(Child_11_3, k))' <=> code[C1] = Left(Child_11_3, k)
      /\ (Now(C1).op = "exit")' <=> Now(C1).op = "exit"
      /\ Bad(Now(C1).status)' <=> Bad(Now(C1).status)
      /\ (got = 0)' <=> got = 0
  BY <1>1 DEF Child_11_3, Left, CloseEnd, ReadPipe, Exit, Bad
<1>. QED
  BY <1>1, <1>2, Zenon DEF ChildTakes

(* Where parent and child are, and what they call.                         *)
LEMMA SendsAt ==
    ASSUME Base, UNCHANGED <<program, original>>, program = "11_3", ParentSends, ChildTakes
    PROVE  /\ Running(Parent) =>
                 /\ AtCall(1) => /\ Now(Parent).op = "ignore" /\ Now(Parent).signal = "PIPE"
                                 /\ "fail" \notin DOMAIN Now(Parent)
                 /\ AtCall(2) => Now(Parent).op = "pipe" /\ Now(Parent).fail = <<Exit(1)>>
                 /\ AtCall(3) => /\ Now(Parent).op = "fork" /\ Now(Parent).child = C1
                                 /\ Now(Parent).program = Child_11_3
                                 /\ Now(Parent).fail = <<Exit(1)>>
                 /\ AtCall(4) => /\ Now(Parent).op = "close" /\ Now(Parent).end = "read"
                                 /\ "fail" \notin DOMAIN Now(Parent)
                 /\ AtCall(5) \/ AtCall(6) =>
                       /\ Now(Parent).op = "write" /\ Now(Parent).fail = <<>>
                       /\ Now(Parent).bytes = 4
                 /\ AtCall(7) => /\ Now(Parent).op = "close" /\ Now(Parent).end = "write"
                                 /\ "fail" \notin DOMAIN Now(Parent)
                 /\ AtCall(8) => /\ Now(Parent).op = "wait" /\ Now(Parent).none = <<Exit(1)>>
                                 /\ "fail" \notin DOMAIN Now(Parent)
                 /\ AtCall(9) => Now(Parent).op = "exit"
           /\ Running(C1) =>
                 /\ code[C1] = Child_11_3 => /\ Now(C1).op = "close" /\ Now(C1).end = "write"
                                             /\ "fail" \notin DOMAIN Now(C1)
                 /\ code[C1] = Left(Child_11_3, 2) =>
                       /\ Now(C1).op = "read" /\ Now(C1).fail = <<Exit(1)>> /\ Now(C1).bytes = 4
                 /\ code[C1] = Left(Child_11_3, 3) =>
                       /\ Now(C1).op = "close" /\ Now(C1).end = "read"
                       /\ "fail" \notin DOMAIN Now(C1)
                 /\ code[C1] = Left(Child_11_3, 4) => Now(C1).op = "exit"
           /\ (Running(C1) /\ code[C1] = Left(Child_11_3, 2)) => Now(C1).again = FALSE
           /\ Running(Parent) =>
                 Now(Parent).op \in {"ignore", "pipe", "fork", "close", "write", "wait", "exit"}
           /\ (Running(Parent) /\ Now(Parent).op = "write") => "PIPE" \in ignored[Parent]
           /\ (Running(Parent) /\ Now(Parent).op = "fork") => Now(Parent).child = C1
           /\ Running(C1) => Now(C1).op \in {"close", "read", "exit"}
<1>1. Running(Parent) =>
          /\ AtCall(1) => Now(Parent) = Ignore("PIPE")
          /\ AtCall(2) => Now(Parent) = OpenPipe
          /\ AtCall(3) => Now(Parent) = Fork(C1, Child_11_3, Fails)
          /\ AtCall(4) => Now(Parent) = CloseEnd("read")
          /\ AtCall(5) \/ AtCall(6) => Now(Parent) = WritePipe(4, <<>>)
          /\ AtCall(7) => Now(Parent) = CloseEnd("write")
          /\ AtCall(8) => Now(Parent) = Wait(Children, "unsaid", Fails)
          /\ AtCall(9) => Now(Parent) = Exit(0)
  BY At_11_3, Zenon
<1>2. Running(C1) =>
          /\ code[C1] = Child_11_3 => Now(C1) = CloseEnd("write")
          /\ code[C1] = Left(Child_11_3, 2) => Now(C1) = ReadPipe(4, FALSE)
          /\ code[C1] = Left(Child_11_3, 3) => Now(C1) = CloseEnd("read")
          /\ code[C1] = Left(Child_11_3, 4) => Now(C1) = Exit(0)
  BY ChildAt_11_3, Zenon
<1>3. /\ OpenPipe.op = "pipe" /\ OpenPipe.fail = <<Exit(1)>>
      /\ \A c, g, f : /\ Fork(c, g, f).op = "fork" /\ Fork(c, g, f).child = c
                      /\ Fork(c, g, f).program = g /\ Fork(c, g, f).fail = f
      /\ \A e : /\ CloseEnd(e).op = "close" /\ CloseEnd(e).end = e
                /\ "fail" \notin DOMAIN CloseEnd(e)
      /\ \A x : /\ Ignore(x).op = "ignore" /\ Ignore(x).signal = x
                /\ "fail" \notin DOMAIN Ignore(x)
      /\ \A n, f : WritePipe(n, f).op = "write" /\ WritePipe(n, f).fail = f /\ WritePipe(n, f).bytes = n
      /\ \A w, f : /\ Wait(w, "unsaid", f).op = "wait" /\ Wait(w, "unsaid", f).none = f
                   /\ "fail" \notin DOMAIN Wait(w, "unsaid", f)
      /\ Exit(0).op = "exit" /\ Fails = <<Exit(1)>>
  BY DEF OpenPipe, Fork, CloseEnd, Ignore, WritePipe, Wait, Exit, Fails
<1>4. \A n : /\ ReadPipe(n, FALSE).op = "read" /\ ReadPipe(n, FALSE).bytes = n
            /\ ReadPipe(n, FALSE).fail = <<Exit(1)>> /\ ReadPipe(n, FALSE).again = FALSE
  BY DEF ReadPipe
<1>5. Running(Parent) =>
          /\ AtCall(1) => /\ Now(Parent).op = "ignore" /\ Now(Parent).signal = "PIPE"
                          /\ "fail" \notin DOMAIN Now(Parent)
          /\ AtCall(2) => Now(Parent).op = "pipe" /\ Now(Parent).fail = <<Exit(1)>>
          /\ AtCall(3) => /\ Now(Parent).op = "fork" /\ Now(Parent).child = C1
                          /\ Now(Parent).program = Child_11_3
                          /\ Now(Parent).fail = <<Exit(1)>>
          /\ AtCall(4) => /\ Now(Parent).op = "close" /\ Now(Parent).end = "read"
                          /\ "fail" \notin DOMAIN Now(Parent)
          /\ AtCall(5) \/ AtCall(6) =>
                /\ Now(Parent).op = "write" /\ Now(Parent).fail = <<>>
                /\ Now(Parent).bytes = 4
          /\ AtCall(7) => /\ Now(Parent).op = "close" /\ Now(Parent).end = "write"
                          /\ "fail" \notin DOMAIN Now(Parent)
          /\ AtCall(8) => /\ Now(Parent).op = "wait" /\ Now(Parent).none = <<Exit(1)>>
                          /\ "fail" \notin DOMAIN Now(Parent)
          /\ AtCall(9) => Now(Parent).op = "exit"
  BY <1>1, <1>3
<1>6. Running(C1) =>
          /\ code[C1] = Child_11_3 => /\ Now(C1).op = "close" /\ Now(C1).end = "write"
                                      /\ "fail" \notin DOMAIN Now(C1)
          /\ code[C1] = Left(Child_11_3, 2) =>
                /\ Now(C1).op = "read" /\ Now(C1).fail = <<Exit(1)>> /\ Now(C1).bytes = 4
          /\ code[C1] = Left(Child_11_3, 3) =>
                /\ Now(C1).op = "close" /\ Now(C1).end = "read"
                /\ "fail" \notin DOMAIN Now(C1)
          /\ code[C1] = Left(Child_11_3, 4) => Now(C1).op = "exit"
  <2> DEFINE r == ReadPipe(4, FALSE)
  <2>1. r.op = "read" /\ r.bytes = 4 /\ r.fail = <<Exit(1)>>
    BY <1>4, Zenon
  <2>2. (Running(C1) /\ code[C1] = Left(Child_11_3, 2)) => Now(C1) = r
    BY <1>2, Zenon
  <2>3. Running(C1) =>
            /\ code[C1] = Child_11_3 => Now(C1) = CloseEnd("write")
            /\ code[C1] = Left(Child_11_3, 3) => Now(C1) = CloseEnd("read")
            /\ code[C1] = Left(Child_11_3, 4) => Now(C1) = Exit(0)
    BY <1>2, Zenon
  <2>. HIDE DEF r
  <2>. QED
    BY <1>3, <2>1, <2>2, <2>3
<1>7. (Running(C1) /\ code[C1] = Left(Child_11_3, 2)) => Now(C1).again = FALSE
  BY <1>2, <1>4, Zenon
<1>8. Running(Parent) =>
          \/ Escaping \/ AtCall(1) \/ AtCall(2) \/ AtCall(3) \/ AtCall(4)
          \/ (AtCall(5) \/ AtCall(6)) /\ "PIPE" \in ignored[Parent]
          \/ AtCall(7) \/ AtCall(8) \/ AtCall(9)
  BY Zenon DEF ParentSends
<1>9. /\ Running(Parent) =>
            Now(Parent).op \in {"ignore", "pipe", "fork", "close", "write", "wait", "exit"}
      /\ (Running(Parent) /\ Now(Parent).op = "write") => "PIPE" \in ignored[Parent]
      /\ (Running(Parent) /\ Now(Parent).op = "fork") => Now(Parent).child = C1
  <2>1. Escaping => Now(Parent).op = "exit"
    BY DEF Escaping
  <2>. QED
    BY <1>5, <1>8, <2>1
<1>10. Running(C1) => Now(C1).op \in {"close", "read", "exit"}
  <2>1. Running(C1) => \/ code[C1] = Child_11_3 \/ code[C1] = Left(Child_11_3, 2)
                       \/ code[C1] = Left(Child_11_3, 3) \/ code[C1] = Left(Child_11_3, 4)
                       \/ Now(C1).op = "exit"
    BY Zenon DEF ChildTakes, Running
  <2>. QED
    BY <1>6, <2>1
<1>. QED
  BY <1>5, <1>6, <1>7, <1>9, <1>10, Zenon

LEMMA SendsDeath ==
    ASSUME Base, UNCHANGED <<program, original>>, run[C2] = "none", Sent,
           ParentSends, ChildTakes, NEW p \in Procs, Dies(p)
    PROVE  run'[C2] = "none" /\ Sent' /\ ParentSends' /\ ChildTakes'
<1>1. p # C2 /\ Running(p)
  BY DEF Dies, Running
<1>2. /\ UNCHANGED <<code, pipe, written, got>> /\ run'[C2] = "none"
      /\ ends' = [ends EXCEPT ![p] = {}]
  BY <1>1, DeathFails, Family
<1>3. /\ \A q \in Procs : ends'[q] \subseteq ends[q] /\ (q # p => ends'[q] = ends[q])
      /\ Taken => Taken'
  BY <1>2, FewerEnds, StaysTaken
<1>4. Sent'
  BY <1>2 DEF Sent
<1>5. UNCHANGED ignored
  BY DEF Dies, EndBySignal, End, dispositions
<1>6. CASE p = Parent
  <2>1. /\ ~Running(Parent)' /\ (Running(C1)' <=> Running(C1)) /\ (Succeeded(C1)' <=> Succeeded(C1))
        /\ run'[C1] = "none" <=> run[C1] = "none"
    BY <1>6, DeathFails, Family
  <2>2. ChildTakes'
    BY <1>2, <1>3, <2>1, ChildTakesStays
  <2>. QED
    BY <1>2, <1>4, <2>1, <2>2 DEF ParentSends
<1>7. CASE p = C1
  <2>1. ~Running(C1)' /\ ~Succeeded(C1)' /\ (Running(Parent)' <=> Running(Parent))
    BY <1>7, DeathFails, Family
  <2>2. ChildTakes'
    BY <2>1 DEF ChildTakes, Running
  <2>3. run[C1] # "none" /\ run'[C1] # "none"
    BY <1>1, <1>7, OverBorn DEF Running
  <2>4. ParentSends'
    BY <1>2, <1>3, <1>5, <1>7, <2>1, <2>3, ParentSendsStays, Family
  <2>. QED
    BY <1>2, <1>4, <2>2, <2>4
<1>. QED
  BY <1>1, <1>6, <1>7, Family

LEMMA SendsChild ==
    ASSUME Base, UNCHANGED <<program, original>>, program = "11_3", run[C2] = "none", Sent,
           ParentSends, ChildTakes, Moves(C1)
    PROVE  run'[C2] = "none" /\ Sent' /\ ParentSends' /\ ChildTakes'
<1>1. Running(C1) /\ (Step(C1) \/ CallFails(C1) \/ ShortWrite(C1)) /\ run[C1] # "none"
  BY MoveIs DEF Running
<1>2. CASE Now(C1).op = "exit" /\ (Bad(Now(C1).status) \/ Taken)
  <2>1. DoExit(C1)
    <3>1. "fail" \notin DOMAIN Now(C1)
      BY <1>1, <1>2, NowTyped, Family DEF Fields
    <3>. QED
      BY <1>2, <3>1, MoveIs, StepOfCall
  <2>2. /\ ~Running(C1)' /\ UNCHANGED <<code, pipe, written, got>>
        /\ ends' = [ends EXCEPT ![C1] = {}]
        /\ Bad(Now(C1).status) => ~Succeeded(C1)'
    BY <2>1, ExitEnds, Family
  <2>3. (Running(Parent)' <=> Running(Parent)) /\ run'[C2] = "none"
    BY <2>1, ExitEnds, Family
  <2>4. ends'[Parent] = ends[Parent] /\ (Taken => Taken')
    BY <2>2, FewerEnds, StaysTaken, Family
  <2>5. ChildTakes'
    BY <1>2, <2>2, <2>4 DEF ChildTakes, Running
  <2>6. run'[C1] # "none" /\ UNCHANGED ignored
    BY <2>1, OverBorn, Family DEF DoExit, End, dispositions
  <2>7. ParentSends'
    BY <1>1, <2>2, <2>3, <2>4, <2>6, ParentSendsStays
  <2>. QED
    BY <2>2, <2>3, <2>5, <2>7 DEF Sent
<1>3. ASSUME Now(C1).op \in {"close", "read"}
      PROVE  /\ run'[C2] = "none" /\ ~Succeeded(C1)' /\ Running(C1)'
             /\ (ends'[Parent] = ends[Parent] /\ UNCHANGED <<written, ignored>>) =>
                    Sent' /\ ParentSends'
  <2>1. /\ UNCHANGED run /\ code'[Parent] = code[Parent]
        /\ (Running(C1)' <=> Running(C1))
        /\ (Running(Parent)' <=> Running(Parent))
    BY <1>3, ChildMoves
  <2>2. run'[C1] # "none" /\ run'[C2] = "none"
    BY <1>1, <2>1
  <2>3. (ends'[Parent] = ends[Parent] /\ UNCHANGED <<written, ignored>>) => Sent' /\ ParentSends'
    BY <1>1, <2>1, <2>2, ParentSendsStays DEF Sent
  <2>. QED
    BY <1>1, <2>1, <2>2, <2>3 DEF Running, Succeeded
<1>4. ASSUME Now(C1).op = "close", "fail" \notin DOMAIN Now(C1)
      PROVE  /\ GoOn(C1, <<>>) /\ UNCHANGED <<written, got, ignored>>
             /\ ends'[Parent] = ends[Parent] /\ \A q \in Procs : ends'[q] \subseteq ends[q]
  <2>1. DoClose(C1)
    BY <1>4, MoveIs, StepOfCall
  <2>2. /\ GoOn(C1, <<>>) /\ UNCHANGED <<written, got, ignored>>
        /\ ends' = [ends EXCEPT ![C1] = @ \ {Now(C1).end}]
    BY <2>1 DEF DoClose, dispositions
  <2>. QED
    BY <2>2, FewerEnds, Family
<1>5. CASE code[C1] = Child_11_3 /\ got = 0
  <2>1. Now(C1).op = "close" /\ "fail" \notin DOMAIN Now(C1)
    BY <1>1, <1>5, SendsAt
  <2>2. code'[C1] = Left(Child_11_3, 2) /\ got' = 0
    BY <1>1, <1>4, <1>5, <2>1, ChildAt_11_3, Zenon
  <2>3. ChildTakes'
    BY <1>3, <2>1, <2>2 DEF ChildTakes, Child_11_3, Left, CloseEnd, ReadPipe, Exit
  <2>. QED
    BY <1>3, <1>4, <2>1, <2>3
<1>6. CASE code[C1] = Left(Child_11_3, 2) /\ got = 0
  <2>1. Now(C1).op = "read" /\ Now(C1).fail = <<Exit(1)>> /\ Now(C1).bytes = 4
    BY <1>1, <1>6, SendsAt
  <2>2. Now(C1).again = FALSE
    BY <1>1, <1>6, SendsAt, Zenon
  <2>3. CASE CallFails(C1)
    <3>1. Now(C1)' = Exit(1) /\ UNCHANGED <<ends, written, ignored>>
      BY <2>1, <2>3, FailsToExit, Family DEF io, CallFails, dispositions
    <3>2. ChildTakes'
      BY <1>3, <2>1, <3>1, BadStatuses DEF ChildTakes
    <3>. QED
      BY <1>3, <2>1, <3>1, <3>2
  <2>4. CASE Step(C1)
    <3>1. DoRead(C1)
      BY <2>1, <2>4, StepOfCall
    <3> DEFINE n == Min({4, pipe})
    <3>2. /\ got' = got + n /\ UNCHANGED <<ends, written, ignored>>
          /\ n > 0 \/ ~OpenAt("write")
      BY <2>1, <3>1 DEF DoRead, dispositions
    <3>3. GoOn(C1, <<>>)
      <4>1. GoOn(C1, IF n > 0 /\ Now(C1).again THEN <<Now(C1)>> ELSE <<>>)
        BY <2>1, <3>1 DEF DoRead
      <4>. QED
        BY <2>2, <4>1
    <3>4. pipe \in Nat /\ n \in {4, pipe} /\ n <= 4 /\ n <= pipe
      <4>1. pipe \in Nat /\ pipe \in Int /\ 4 \in Int
        BY DEF Base, PipeTyped
      <4>2. \A a, b \in Int : Min({a, b}) \in {a, b} /\ Min({a, b}) <= a /\ Min({a, b}) <= b
        BY MinMax
      <4>. QED
        BY <4>1, <4>2, Zenon
    <3>. HIDE DEF n
    <3>5. pipe = written /\ pipe \in {0, 4, 8}
      BY <1>6, <3>4 DEF Sent, Base, PipeTyped
    <3>6. Taken'
      <4>1. CASE n > 0
        BY <1>6, <3>2, <3>4, <3>5, <4>1 DEF Taken
      <4>2. CASE ~(n > 0)
        BY <3>2, <3>4, <3>5, <4>2 DEF Taken, OpenAt
      <4>. QED
        BY <4>1, <4>2
    <3>7. code'[C1] = Left(Child_11_3, 3)
      BY <1>1, <1>6, <3>3, ChildAt_11_3, Zenon
    <3>8. ChildTakes'
      BY <1>3, <2>1, <3>6, <3>7 DEF ChildTakes, Child_11_3, Left, CloseEnd, ReadPipe, Exit
    <3>. QED
      BY <1>3, <2>1, <3>2, <3>8
  <2>. QED
    BY <2>1, <2>3, <2>4, MoveIs
<1>7. CASE code[C1] = Left(Child_11_3, 3) /\ Taken
  <2>1. Now(C1).op = "close" /\ "fail" \notin DOMAIN Now(C1)
    BY <1>1, <1>7, SendsAt
  <2>2. code'[C1] = Left(Child_11_3, 4)
    BY <1>1, <1>4, <1>7, <2>1, ChildAt_11_3, Zenon
  <2>3. Taken'
    BY <1>4, <1>7, <2>1, StaysTaken
  <2>4. ChildTakes'
    BY <1>3, <2>1, <2>2, <2>3 DEF ChildTakes, Child_11_3, Left, CloseEnd, ReadPipe, Exit
  <2>. QED
    BY <1>3, <1>4, <2>1, <2>4
<1>8. code[C1] = Left(Child_11_3, 4) => Now(C1).op = "exit"
  BY <1>1, SendsAt
<1>. QED
  BY <1>1, <1>2, <1>5, <1>6, <1>7, <1>8, Zenon DEF ChildTakes, Running

LEMMA SendsParent ==
    ASSUME Base, UNCHANGED <<program, original>>, program = "11_3", run[C2] = "none", Sent,
           ParentSends, ChildTakes, Moves(Parent)
    PROVE  run'[C2] = "none" /\ Sent' /\ ParentSends' /\ ChildTakes'
<1>1. Running(Parent) /\ (Step(Parent) \/ CallFails(Parent) \/ ShortWrite(Parent))
      /\ run \in [Procs -> {"none", "running", "zombie", "reaped"}]
      /\ ends \in [Procs -> SUBSET {"read", "write"}]
      /\ ignored \in [Procs -> SUBSET Signals]
  BY MoveIs DEF Base, LivesTyped, PipeTyped, SignalsTyped
<1>2. CASE DoExit(Parent)
  <2>1. /\ ~Running(Parent)' /\ UNCHANGED <<code, pipe, written, got>>
        /\ ends' = [ends EXCEPT ![Parent] = {}]
    BY <1>2, ExitEnds, Family
  <2>2. /\ Running(C1)' <=> Running(C1)
        /\ Succeeded(C1)' <=> Succeeded(C1)
        /\ run'[C1] = "none" <=> run[C1] = "none"
        /\ run'[C2] = "none"
    BY <1>2, ExitEnds, Family
  <2>3. Taken => Taken'
    BY <2>1, FewerEnds, StaysTaken, Family
  <2>4. ChildTakes'
    BY <2>1, <2>2, <2>3, ChildTakesStays
  <2>. QED
    BY <2>1, <2>2, <2>4 DEF ParentSends, Sent
<1>3. CASE Escaping \/ AtCall(9)
  <2>1. Now(Parent).op = "exit"
    BY <1>1, <1>3, SendsAt DEF Escaping
  <2>2. "fail" \notin DOMAIN Now(Parent)
    BY <1>1, <2>1, NowTyped, Family DEF Fields
  <2>. QED
    BY <1>2, <2>1, <2>2, MoveIs, StepOfCall
<1>4. ASSUME UNCHANGED <<run, status, killed, got>>, NEW u, GoOn(Parent, u), Taken => Taken'
      PROVE  run'[C2] = "none" /\ Running(Parent)' /\ ChildTakes'
             /\ (run'[C1] = "none" <=> run[C1] = "none")
  <2>1. /\ code'[C1] = code[C1] /\ (Succeeded(C1)' <=> Succeeded(C1))
        /\ (Running(C1)' <=> Running(C1)) /\ Running(Parent)'
    BY <1>1, <1>4, ParentKeeps
  <2>. QED
    BY <1>4, <2>1, ChildTakesStays
<1>5. ASSUME CallFails(Parent)
      PROVE  /\ run'[C2] = "none" /\ Sent' /\ ChildTakes' /\ UNCHANGED <<written, got, ignored, ends>>
             /\ (run'[C1] = "none" <=> run[C1] = "none") /\ GoOn(Parent, Now(Parent).fail)
             /\ Now(Parent).fail = <<Exit(1)>> => ParentSends'
  <2>1. /\ UNCHANGED <<run, status, killed, written, got, ignored, ends, pipe>>
        /\ GoOn(Parent, Now(Parent).fail)
    BY <1>5 DEF CallFails, life, io, dispositions
  <2>2. Taken => Taken'
    BY <2>1 DEF Taken, OpenAt
  <2>3. Now(Parent).fail = <<Exit(1)>> => Escaping'
    BY <1>5, ParentFails, BadStatuses
  <2>4. run'[C2] = "none" /\ ChildTakes' /\ (run'[C1] = "none" <=> run[C1] = "none")
    BY <1>4, <2>1, <2>2
  <2>5. Sent'
    BY <2>1 DEF Sent
  <2>6. Now(Parent).fail = <<Exit(1)>> => ParentSends'
    BY <2>1, <2>3 DEF ParentSends
  <2>. QED
    BY <2>1, <2>4, <2>5, <2>6
<1>6. ASSUME Now(Parent).op = "close", "fail" \notin DOMAIN Now(Parent)
      PROVE  /\ GoOn(Parent, <<>>) /\ ends'[Parent] = ends[Parent] \ {Now(Parent).end}
             /\ run'[C2] = "none" /\ Sent' /\ ChildTakes' /\ UNCHANGED <<written, ignored>>
             /\ (run'[C1] = "none" <=> run[C1] = "none")
  <2>1. DoClose(Parent)
    BY <1>6, MoveIs, StepOfCall
  <2>2. /\ GoOn(Parent, <<>>) /\ UNCHANGED <<written, got, ignored, run, status, killed>>
        /\ ends' = [ends EXCEPT ![Parent] = @ \ {Now(Parent).end}]
    BY <2>1 DEF DoClose, life, dispositions
  <2>3. /\ ends'[Parent] = ends[Parent] \ {Now(Parent).end}
        /\ Taken => Taken'
    BY <2>2, FewerEnds, StaysTaken, Family
  <2>4. run'[C2] = "none" /\ ChildTakes' /\ (run'[C1] = "none" <=> run[C1] = "none")
    BY <1>4, <2>2, <2>3
  <2>. QED
    BY <2>2, <2>3, <2>4 DEF Sent
<1>7. CASE run[C1] = "none" /\ AtCall(1) /\ written = 0 /\ got = 0
  <2>1. Now(Parent).op = "ignore" /\ Now(Parent).signal = "PIPE" /\ "fail" \notin DOMAIN Now(Parent)
    BY <1>1, <1>7, SendsAt
  <2>2. DoIgnore(Parent)
    BY <2>1, MoveIs, StepOfCall
  <2>3. /\ GoOn(Parent, <<>>) /\ UNCHANGED <<run, written, got>>
        /\ ignored' = [ignored EXCEPT ![Parent] = @ \cup {"PIPE"}]
    BY <2>1, <2>2 DEF DoIgnore, life, io
  <2>4. "PIPE" \in ignored'[Parent]
    BY <1>1, <2>3, Family
  <2>5. AtCall(2)'
    BY <1>1, <1>7, <2>3, At_11_3, Zenon
  <2>6. ParentSends'
    BY <1>7, <2>3, <2>4, <2>5 DEF ParentSends
  <2>. QED
    BY <1>7, <2>3, <2>6, ChildIsNotThere DEF Sent
<1>8. CASE run[C1] = "none" /\ AtCall(2) /\ "PIPE" \in ignored[Parent] /\ written = 0 /\ got = 0
  <2>1. Now(Parent).op = "pipe" /\ Now(Parent).fail = <<Exit(1)>>
    BY <1>1, <1>8, SendsAt
  <2>2. CASE Step(Parent)
    <3>1. DoPipe(Parent)
      BY <2>1, <2>2, StepOfCall
    <3>2. /\ GoOn(Parent, <<>>) /\ UNCHANGED <<run, ignored, written, got>>
          /\ ends' = [ends EXCEPT ![Parent] = {"read", "write"}]
      BY <3>1 DEF DoPipe, life, dispositions
    <3>3. "write" \in ends'[Parent]
      BY <1>1, <3>2, Family
    <3>4. AtCall(3)'
      BY <1>1, <1>8, <3>2, At_11_3, Zenon
    <3>5. ParentSends'
      BY <1>8, <3>2, <3>3, <3>4 DEF ParentSends
    <3>. QED
      BY <1>8, <3>2, <3>5, ChildIsNotThere DEF Sent
  <2>. QED
    BY <1>5, <2>1, <2>2, MoveIs
<1>9. CASE /\ run[C1] = "none" /\ AtCall(3) /\ "PIPE" \in ignored[Parent]
           /\ "write" \in ends[Parent] /\ written = 0 /\ got = 0
  <2>1. /\ Now(Parent).op = "fork" /\ Now(Parent).child = C1
        /\ Now(Parent).program = Child_11_3 /\ Now(Parent).fail = <<Exit(1)>>
    BY <1>1, <1>9, SendsAt
  <2>2. CASE Step(Parent)
    <3>1. DoFork(Parent)
      BY <2>1, <2>2, StepOfCall
    <3>2. /\ run' = [run EXCEPT ![C1] = "running"]
          /\ code' = [code EXCEPT ![Parent] = Tail(@), ![C1] = Child_11_3]
          /\ ends' = [ends EXCEPT ![C1] = ends[Parent]]
          /\ ignored' = [ignored EXCEPT ![C1] = ignored[Parent]]
          /\ UNCHANGED <<written, got>>
      BY <2>1, <3>1 DEF DoFork
    <3>3. /\ run'[C1] = "running" /\ run'[C2] = "none"
          /\ ends'[Parent] = ends[Parent] /\ ignored'[Parent] = ignored[Parent]
      BY <1>1, <1>9, <3>2, Family
    <3>4. code'[Parent] = Tail(code[Parent]) /\ code'[C1] = Child_11_3
      BY <3>2, Family DEF Base, Coded
    <3>5. AtCall(4)'
      <4>1. AtCall(3 + 1)'
        BY <1>1, <1>9, <3>4, LengthOf_11_3, TailAt, Zenon
      <4>. QED
        BY <4>1, LengthOf_11_3
    <3>6. ParentSends'
      BY <1>9, <3>2, <3>3, <3>5 DEF ParentSends
    <3>7. ChildTakes'
      BY <1>9, <3>2, <3>3, <3>4 DEF ChildTakes, Succeeded, Child_11_3
    <3>. QED
      BY <1>9, <3>2, <3>3, <3>6, <3>7 DEF Sent
  <2>. QED
    BY <1>5, <2>1, <2>2, MoveIs
<1>10. CASE /\ run[C1] # "none" /\ AtCall(4) /\ "PIPE" \in ignored[Parent]
            /\ "write" \in ends[Parent] /\ written = 0
  <2>1. /\ Now(Parent).op = "close" /\ Now(Parent).end = "read"
        /\ "fail" \notin DOMAIN Now(Parent)
    BY <1>1, <1>10, SendsAt
  <2>2. AtCall(5)'
    BY <1>1, <1>6, <1>10, <2>1, At_11_3, Zenon
  <2>3. "write" \in ends'[Parent]
    BY <1>6, <1>10, <2>1
  <2>4. ParentSends'
    BY <1>6, <1>10, <2>1, <2>2, <2>3 DEF ParentSends
  <2>. QED
    BY <1>6, <2>1, <2>4
<1>11. ASSUME run[C1] # "none", "PIPE" \in ignored[Parent], "write" \in ends[Parent],
              Now(Parent).op = "write", Now(Parent).fail = <<>>, Now(Parent).bytes = 4
       PROVE  /\ GoOn(Parent, <<>>) /\ run'[C2] = "none" /\ run'[C1] # "none" /\ ChildTakes'
              /\ written' = written \/ written' = written + 4
              /\ "PIPE" \in ignored'[Parent] /\ "write" \in ends'[Parent]
  <2>1. Taken => got = 4
    BY <1>11, Family DEF Taken, OpenAt
  <2>2. CASE DoWrite(Parent)
    <3>1. /\ GoOn(Parent, <<>>) /\ UNCHANGED <<run, status, killed, got, ignored, ends>>
          /\ written' = written + 4
      BY <1>11, <2>2 DEF DoWrite, life, dispositions
    <3>2. Taken => Taken'
      BY <2>1, <3>1 DEF Taken
    <3>. QED
      BY <1>4, <1>11, <3>1, <3>2
  <2>3. CASE BrokenPipe(Parent)
    <3>1. /\ GoOn(Parent, <<>>) /\ UNCHANGED <<run, status, killed, got, written, ignored, ends>>
      BY <1>11, <2>3 DEF BrokenPipe, life, io, dispositions
    <3>2. Taken => Taken'
      BY <2>1, <3>1 DEF Taken
    <3>. QED
      BY <1>4, <1>11, <3>1, <3>2
  <2>4. CASE CallFails(Parent)
    BY <1>5, <1>11, <2>4
  <2>. QED
    BY <1>11, <2>2, <2>3, <2>4, MoveIs, StepOfCall
<1>12. CASE /\ run[C1] # "none" /\ AtCall(5) /\ "PIPE" \in ignored[Parent]
            /\ "write" \in ends[Parent] /\ written = 0
  <2>1. Now(Parent).op = "write" /\ Now(Parent).fail = <<>> /\ Now(Parent).bytes = 4
    BY <1>1, <1>12, SendsAt
  <2>2. AtCall(6)'
    BY <1>1, <1>11, <1>12, <2>1, At_11_3, Zenon
  <2>3. written' \in {0, 4}
    BY <1>11, <1>12, <2>1
  <2>4. ParentSends'
    BY <1>11, <1>12, <2>1, <2>2, <2>3 DEF ParentSends
  <2>. QED
    BY <1>11, <1>12, <2>1, <2>3, <2>4 DEF Sent
<1>13. CASE /\ run[C1] # "none" /\ AtCall(6) /\ "PIPE" \in ignored[Parent]
            /\ "write" \in ends[Parent] /\ written \in {0, 4}
  <2>1. Now(Parent).op = "write" /\ Now(Parent).fail = <<>> /\ Now(Parent).bytes = 4
    BY <1>1, <1>13, SendsAt
  <2>2. AtCall(7)'
    BY <1>1, <1>11, <1>13, <2>1, At_11_3, Zenon
  <2>3. written' \in {0, 4, 8}
    BY <1>11, <1>13, <2>1
  <2>4. ParentSends'
    BY <1>11, <1>13, <2>1, <2>2 DEF ParentSends
  <2>. QED
    BY <1>11, <1>13, <2>1, <2>3, <2>4 DEF Sent
<1>14. CASE run[C1] # "none" /\ AtCall(7)
  <2>1. Now(Parent).op = "close" /\ "fail" \notin DOMAIN Now(Parent)
    BY <1>1, <1>14, SendsAt
  <2>2. AtCall(8)'
    BY <1>1, <1>6, <1>14, <2>1, At_11_3, Zenon
  <2>3. ParentSends'
    BY <1>6, <1>14, <2>1, <2>2 DEF ParentSends
  <2>. QED
    BY <1>6, <2>1, <2>3
<1>15. CASE run[C1] # "none" /\ AtCall(8)
  <2>1. /\ Now(Parent).op = "wait" /\ Now(Parent).none = <<Exit(1)>>
        /\ "fail" \notin DOMAIN Now(Parent)
    BY <1>1, <1>15, SendsAt
  <2>2. DoWait(Parent)
    BY <2>1, MoveIs, StepOfCall
  <2>3. /\ \/ GoOn(Parent, Now(Parent).none) /\ UNCHANGED run
           \/ GoOn(Parent, <<>>) /\ run[C1] = "zombie"
        /\ run'[C2] = "none" /\ (run'[C1] = "none" <=> run[C1] = "none")
        /\ code'[C1] = code[C1]
        /\ (Succeeded(C1)' <=> Succeeded(C1)) /\ (Running(C1)' <=> Running(C1))
        /\ UNCHANGED <<ends, pipe, written, got>>
    BY <2>2, ParentReaps
  <2>4. ChildTakes'
    <3>1. Taken => Taken'
      BY <2>3 DEF Taken, OpenAt
    <3>. QED
      BY <2>3, <3>1, ChildTakesStays
  <2>5. Escaping' \/ AtCall(9)'
    <3>1. CASE GoOn(Parent, <<Exit(1)>>)
      <4>1. Now(Parent)' = Exit(1)
        BY <1>1, <3>1, GoesOn, Family
      <4>. QED
        BY <4>1, BadStatuses DEF Escaping
    <3>2. CASE GoOn(Parent, <<>>)
      BY <1>1, <1>15, <3>2, At_11_3, Zenon
    <3>. QED
      BY <2>1, <2>3, <3>1, <3>2
  <2>. QED
    BY <1>15, <2>3, <2>4, <2>5 DEF ParentSends, Sent
<1>. QED
  BY <1>1, <1>3, <1>7, <1>8, <1>9, <1>10, <1>12, <1>13, <1>14, <1>15, Zenon DEF ParentSends

(* No signal is on its way, so that p dies of SIGKILL only.                *)
LEMMA SendsSteps ==
    ASSUME Base, [Next]_vars, program = "11_3", Deaf
    PROVE  /\ UNCHANGED <<program, original>>
           /\ \/ UNCHANGED vars
              \/ \E p \in Procs : Moves(p) \/ (Running(p) /\ EndBySignal(p, "KILL"))
<1>0. UNCHANGED <<program, original>>
  BY DEF Next, vars
<1>1. CASE \E p \in Procs : Step(p) \/ CallFails(p) \/ ShortWrite(p)
  <2>1. PICK p \in Procs : Step(p) \/ CallFails(p) \/ ShortWrite(p)
    BY <1>1
  <2>2. Step(p) => Running(p)
    BY StepOfCall
  <2>3. CallFails(p) \/ ShortWrite(p) => Running(p)
    BY DEF CallFails, ShortWrite, Calls
  <2>. QED
    BY <1>0, <2>1, <2>2, <2>3 DEF Moves
<1>2. \A p \in Procs : ~Deliver(p) /\ ~Expire(p)
  BY DEF Deaf, Deliver, Expire
<1>3. \A p \in Procs : Killed(p) => Running(p) /\ EndBySignal(p, "KILL")
  BY DEF Killed
<1>. QED
  BY <1>0, <1>1, <1>2, <1>3 DEF Next, Overrun

(* No call of 11_3 makes a signal, and none ends the parent by SIGPIPE.    *)
LEMMA SendsQuietly ==
    ASSUME Base, Deaf, Parent \in killed => status[Parent] # Number.PIPE,
           NEW p \in Procs, Running(p), Moves(p) \/ EndBySignal(p, "KILL"),
           Now(p).op \in {"ignore", "pipe", "fork", "close", "write", "wait", "read", "exit"},
           p # Parent => Now(p).op # "write",
           (p = Parent /\ Now(p).op = "write") => "PIPE" \in ignored[Parent]
    PROVE  Deaf' /\ (Parent \in killed' => status'[Parent] # Number.PIPE)
<1>1. /\ pending \in [Procs -> SUBSET Signals] /\ timer \in [Procs -> BOOLEAN]
      /\ status \in [Procs -> Statuses] /\ (p \in killed => ~Running(p))
  BY DEF Base, SignalsTyped, TimersTyped, LivesTyped, Lives, IsOver, Running
<1>2. Number.PIPE = 13 /\ Number["KILL"] = 9
  BY DEF Number
<1>3. ASSUME NEW st, NEW by, End(p, st, by), by = {} \/ (by = {p} /\ st = 9)
      PROVE  Deaf' /\ (Parent \in killed' => status'[Parent] # Number.PIPE)
  <2>1. /\ pending' = [pending EXCEPT ![p] = {}] /\ timer' = [timer EXCEPT ![p] = FALSE]
        /\ status' = [status EXCEPT ![p] = st] /\ killed' = killed \cup by
    BY <1>3 DEF End
  <2>2. Deaf'
    <3>1. \A q \in Procs : pending'[q] = {}
      BY <1>1, <2>1 DEF Deaf
    <3>2. \A q \in Procs : ~timer'[q]
      BY <1>1, <2>1 DEF Deaf
    <3>. QED
      BY <3>1, <3>2 DEF Deaf
  <2>3. Parent \in killed' => status'[Parent] # Number.PIPE
    BY <1>1, <1>2, <1>3, <2>1, Family
  <2>. QED
    BY <2>2, <2>3
<1>4. ASSUME UNCHANGED <<pending, timer, status, killed>>
      PROVE  Deaf' /\ (Parent \in killed' => status'[Parent] # Number.PIPE)
  BY <1>4 DEF Deaf
<1>5. CASE EndBySignal(p, "KILL")
  BY <1>2, <1>3, <1>5 DEF EndBySignal
<1>6. CASE CallFails(p)
  BY <1>4, <1>6 DEF CallFails, life, sigs
<1>7. ~ShortWrite(p)
  BY DEF ShortWrite, Calls
<1>8. CASE Step(p)
  <2>1. CASE DoExit(p)
    BY <1>3, <2>1 DEF DoExit
  <2>2. CASE DoIgnore(p) \/ DoPipe(p) \/ DoClose(p) \/ DoRead(p)
    BY <1>4, <2>2 DEF DoIgnore, DoPipe, DoClose, DoRead, life, sigs
  <2>3. CASE DoFork(p)
    BY <1>4, <2>3 DEF DoFork
  <2>4. CASE DoWait(p)
    BY <1>4, <2>4 DEF DoWait, Reap, life, sigs
  <2>5. CASE DoWrite(p)
    BY <1>4, <2>5 DEF DoWrite, life, sigs
  <2>6. CASE Now(p).op = "write" /\ BrokenPipe(p)
    BY <1>4, <2>6 DEF BrokenPipe, life, sigs
  <2>. QED
    BY <1>8, <2>1, <2>2, <2>3, <2>4, <2>5, <2>6, StepOfCall
<1>. QED
  BY <1>5, <1>6, <1>7, <1>8 DEF Moves

LEMMA SendsStep ==
    ASSUME Base, [Next]_vars, program = "11_3", Sends
    PROVE  Sends'
<1>1. /\ run[C2] = "none" /\ Sent /\ ParentSends /\ ChildTakes /\ Deaf
      /\ Parent \in killed => status[Parent] # Number.PIPE
  BY DEF Sends
<1>2. /\ UNCHANGED <<program, original>>
      /\ \/ UNCHANGED vars
         \/ \E p \in Procs : Moves(p) \/ (Running(p) /\ EndBySignal(p, "KILL"))
  BY <1>1, SendsSteps
<1>3. CASE UNCHANGED vars
  <2>1. /\ UNCHANGED <<program, run, status, killed, code, pending, timer, ignored, ends, written, got>>
    BY <1>3 DEF vars, kernel, life, sigs, dispositions, io
  <2>2. /\ code'[Parent] = code[Parent] /\ code'[C1] = code[C1]
        /\ (Running(Parent)' <=> Running(Parent)) /\ (Running(C1)' <=> Running(C1))
        /\ (Succeeded(C1)' <=> Succeeded(C1))
    BY <2>1 DEF Running, Succeeded
  <2>3. ChildTakes'
    <3>1. Taken => Taken'
      BY <2>1 DEF Taken, OpenAt
    <3>. QED
      BY <1>1, <2>1, <2>2, <3>1, ChildTakesStays
  <2>4. ParentSends'
    <3>1. Now(Parent)' = Now(Parent)
      BY <2>2 DEF Now
    <3>2. (Escaping' <=> Escaping) /\ \A k : AtCall(k)' <=> AtCall(k)
      BY <2>1, <2>2, <3>1 DEF Escaping, AtCall, Main
    <3>3. /\ (run[C1] = "none")' <=> run[C1] = "none"
          /\ ("write" \in ends[Parent])' <=> "write" \in ends[Parent]
          /\ ("PIPE" \in ignored[Parent])' <=> "PIPE" \in ignored[Parent]
          /\ (written = 0)' <=> written = 0
          /\ (written \in {0, 4})' <=> written \in {0, 4}
          /\ (got = 0)' <=> got = 0
      BY <2>1
    <3>. QED
      BY <1>1, <2>2, <3>2, <3>3, Zenon DEF ParentSends
  <2>. QED
    BY <1>1, <2>1, <2>3, <2>4 DEF Sends, Sent, Deaf
<1>4. ASSUME NEW p \in Procs, Running(p), Moves(p) \/ EndBySignal(p, "KILL")
      PROVE  Sends'
  <2>1. p # C2
    BY <1>1, <1>4 DEF Running
  <2>2. /\ Now(p).op \in {"ignore", "pipe", "fork", "close", "write", "wait", "read", "exit"}
        /\ p # Parent => Now(p).op # "write"
        /\ (p = Parent /\ Now(p).op = "write") => "PIPE" \in ignored[Parent]
    BY <1>1, <1>2, <1>4, <2>1, SendsAt, Family
  <2>3. Deaf' /\ (Parent \in killed' => status'[Parent] # Number.PIPE)
    BY <1>1, <1>4, <2>2, SendsQuietly
  <2>4. run'[C2] = "none" /\ Sent' /\ ParentSends' /\ ChildTakes'
    <3>1. CASE EndBySignal(p, "KILL")
      <4>1. Dies(p)
        BY <1>4, <3>1, SignalsAre DEF Dies
      <4>. QED
        BY <1>1, <1>2, <4>1, SendsDeath
    <3>2. CASE Moves(p)
      BY <1>1, <1>2, <2>1, <3>2, SendsParent, SendsChild, Family
    <3>. QED
      BY <1>4, <3>1, <3>2
  <2>. QED
    BY <2>3, <2>4 DEF Sends
<1>. QED
  BY <1>2, <1>3, <1>4 DEF Moves

LEMMA InitSends ==
    ASSUME Init, program = "11_3", Base
    PROVE  Sends
<1>1. /\ run[C1] = "none" /\ run[C2] = "none" /\ code[Parent] = Main(program)
      /\ written = 0 /\ got = 0 /\ killed = {}
  BY Family DEF Init, Booted
<1>2. Left(Main(program), 1) = Main(program)
  <2>1. Main(program) = Main_11_3
    BY DEF Main
  <2>. QED
    BY <2>1, Start_11_3, SubSeqFull DEF Left, Starts
<1>3. AtCall(1)
  BY <1>1, <1>2 DEF AtCall
<1>4. Deaf
  BY Family DEF Init, Booted, Deaf
<1>. QED
  BY <1>1, <1>3, <1>4 DEF Sends, Sent, ParentSends, ChildTakes, Succeeded

-----------------------------------------------------------------------------
(* What is written arrives                                                 *)

LEMMA InitData ==
    ASSUME Init, Base
    PROVE  DataInv
BY InitReads, InitAppends, InitSeeking, InitReplaces, InitDuplicates, InitInherits, InitPipes,
   InitDrains, InitSends DEF DataInv

LEMMA DataStep ==
    ASSUME TypeInv, DataInv, [Next]_vars
    PROVE  DataInv'
<1>1. Base /\ original \in Seq(Bytes)
  BY DEF TypeInv
<1>2. UNCHANGED program
  BY DEF Next, vars
<1>3. program = "2_2" => Reads'
  BY <1>1, ReadsStep DEF DataInv
<1>4. program = "2_3" => Appends'
  BY <1>1, AppendsStep DEF DataInv
<1>5. program = "2_4" => Seeking'
  <2>1. CASE faults' = 0
    BY <1>1, <2>1, SeekingStep DEF DataInv
  <2>2. CASE faults' # 0
    BY <2>2 DEF Seeking
  <2>. QED
    BY <2>1, <2>2
<1>6. program = "2_5" => Replaces'
  BY <1>1, ReplacesStep DEF DataInv
<1>7. program = "2_6" => Duplicates'
  BY <1>1, DuplicatesStep DEF DataInv
<1>8. program = "7_9" => Inherits'
  BY <1>1, InheritsStep DEF DataInv
<1>9. program = "11_1" => Pipes'
  BY <1>1, PipesStep DEF DataInv
<1>10. program = "11_2" => Drains'
  BY <1>1, DrainsStep DEF DataInv
<1>11. program = "11_3" => Sends'
  BY <1>1, SendsStep DEF DataInv
<1>. QED
  BY <1>2, <1>3, <1>4, <1>5, <1>6, <1>7, <1>8, <1>9, <1>10, <1>11 DEF DataInv

LEMMA DataInvariance == Spec => [](TypeInv /\ DataInv)
<1>1. Init => TypeInv /\ DataInv
  BY InitBase, InitReplaces, OriginalsTyped, InitData DEF TypeInv, Init
<1>2. TypeInv /\ DataInv /\ [Next]_vars => DataInv'
  BY DataStep
<1>. QED
  BY <1>1, <1>2, TypeInvariance, PTL DEF Spec

LEMMA DataImplies ==
    ASSUME TypeInv, DataInv
    PROVE  DataArrives
<1>1. Base
  BY DEF TypeInv
<1>2. got + pipe = written /\ got \in Nat /\ pipe \in Nat
  BY <1>1 DEF Base, PipeTyped
<1>3. PipeIsEmptied
  <2>1. program = "11_1" => (Succeeded(Parent) => written > 0 /\ got = written)
    BY DEF DataInv, Pipes, Alone
  <2>2. program = "11_2" => (Succeeded(C1) => pipe = 0)
    BY DEF DataInv, Drains, ChildDrains, Drained
  <2>3. program = "11_3" => /\ (Succeeded(C1) /\ written > 0) => got = 4
                            /\ Parent \in killed => status[Parent] # Number.PIPE
    BY DEF DataInv, Sends, ChildTakes, Taken
  <2>. QED
    BY <1>2, <2>1, <2>2, <2>3 DEF PipeIsEmptied
<1>4. (program = "2_2" /\ Succeeded(Parent) /\ Len(original) <= SIZE_BUF_STORAGE) =>
          buffer = original
  BY DEF DataInv, Reads, Alone
<1>5. (program = "2_3" /\ Succeeded(Parent)) => file = original \o Text("Hello", 3)
  BY DEF DataInv, Appends, Alone, Hello
<1>6. (program = "2_4" /\ Succeeded(Parent) /\ faults = 0) =>
          file = Tabbed /\ buffer = SubSeq(Zeroed, 11, 19) \o Zeroed
  BY DEF DataInv, Seeking, Alone
<1>7. (program = "2_5" /\ Succeeded(Parent)) => LetterReplaced
  BY DEF DataInv, Replaces, Alone
<1>8. (program = "2_6" /\ Succeeded(Parent)) =>
          Follows(New, Old) /\ (faults = 0 => Begins(New \o Old))
  BY DEF DataInv, Duplicates, Alone, BothWritten
<1>9. (program = "7_9" /\ Succeeded(C1)) =>
          /\ \E i, j \in 1 .. 2 : file = Text("Parent", i) \o Text("Child", j)
          /\ ~torn => file = Text("Parent", 2) \o Text("Child", 2)
  BY DEF DataInv, Inherits, ChildInherits, BothWrote
<1>10. FileHolds
  BY <1>4, <1>5, <1>6, <1>7, <1>8, <1>9, Zenon DEF FileHolds, Tabbed, Zeroed, Digits, New, Old
<1>. QED
  BY <1>3, <1>10 DEF DataArrives

(* When a program, or the reader of its pipe, has ended well, what was     *)
(* written is there in order, and whole where DataArrives says so: 2_2 for *)
(* a file that fits the 30 bytes of its buffer, 2_5 for a target found     *)
(* within SIZE_BUF_READ letters, 2_4 if no call failed or fell short, 2_6  *)
(* and 7_9 in order always and whole likewise, 11_3 the part that its      *)
(* child reads; for every size and every number of faults otherwise.       *)
THEOREM DataArrive == Spec => []DataArrives
<1>1. TypeInv /\ DataInv => DataArrives
  BY DataImplies
<1>. QED
  BY <1>1, DataInvariance, PTL
=============================================================================
