----------------------------- MODULE FileStore -----------------------------
(***************************************************************************)
(* What the README of Project 5 promises a program that uses the file       *)
(* system: files are byte strings with names, descriptors are independent   *)
(* positions in them, and all of it but the descriptors outlives unmounting.*)
(* There are no blocks, no table and no disk.                               *)
(***************************************************************************)
EXTENDS Integers, Sequences, FiniteSets

CONSTANTS
  Name, Fd, MaxFiles, MaxSize,
  Buffers, Counts, Lengths        \* the arguments a program passes

VARIABLES
  state,     \* "none" (no disk), "made" or "mounted"
  files,     \* the contents of each file there is, by name
  opened,    \* [name, offset] of each descriptor there is
  result     \* the last call and what it returned: [call, val, data]

storeVars == <<state, files, opened, result>>

Nothing == [x \in {} |-> x]
Least(a, b) == IF a < b THEN a ELSE b

(* A call returns v; it is refused with -1 and changes nothing.             *)
Gives(call, v) == result' = [call |-> call, val |-> v, data |-> <<>>]
Refuse(call) == Gives(call, -1) /\ UNCHANGED <<state, opened, files>>

StoreInit ==
  /\ state = "none" /\ files = Nothing /\ opened = Nothing
  /\ result = [call |-> <<"init">>, val |-> 0, data |-> <<>>]

Format ==
  /\ state # "mounted"
  /\ Gives(<<"make_fs">>, 0)
  /\ state' = "made" /\ files' = Nothing
  /\ UNCHANGED opened

Attach ==
  \/ state = "made" /\ Gives(<<"mount_fs">>, 0) /\ state' = "mounted" /\ UNCHANGED <<opened, files>>
  \/ state # "made" /\ Refuse(<<"mount_fs">>)

Detach ==
  \/ /\ state = "mounted" /\ opened = Nothing
     /\ Gives(<<"umount_fs">>, 0)
     /\ state' = "made"
     /\ UNCHANGED <<opened, files>>
  \/ state # "mounted" /\ Refuse(<<"umount_fs">>)

NewProgram == state # "mounted" /\ Gives(<<"init">>, 0) /\ UNCHANGED <<state, opened, files>>

Existing == DOMAIN files
IsOpen(n) == \E d \in DOMAIN opened : opened[d].name = n

MakeFile(n) ==
  \/ (n \in Existing \/ Cardinality(Existing) = MaxFiles) /\ Refuse(<<"create", n>>)
  \/ /\ n \notin Existing /\ Cardinality(Existing) < MaxFiles
     /\ Gives(<<"create", n>>, 0)
     /\ files' = [m \in Existing \cup {n} |-> IF m = n THEN <<>> ELSE files[m]]
     /\ UNCHANGED <<state, opened>>

RemoveFile(n) ==
  \/ (n \notin Existing \/ IsOpen(n)) /\ Refuse(<<"delete", n>>)
  \/ /\ n \in Existing /\ ~IsOpen(n)
     /\ Gives(<<"delete", n>>, 0)
     /\ files' = [m \in Existing \ {n} |-> files[m]]
     /\ UNCHANGED <<state, opened>>

OpenFile(n) ==
  \/ (n \notin Existing \/ DOMAIN opened = Fd) /\ Refuse(<<"open", n>>)
  \/ /\ n \in Existing
     /\ \E d \in Fd \ DOMAIN opened :
          /\ Gives(<<"open", n>>, d)
          /\ opened' = [e \in DOMAIN opened \cup {d} |->
                         IF e = d THEN [name |-> n, offset |-> 0] ELSE opened[e]]
     /\ UNCHANGED <<state, files>>

List == Gives(<<"listfiles">>, 0) /\ UNCHANGED <<state, opened, files>>

-----------------------------------------------------------------------------
(* Calls on an open descriptor *)

Text(d) == files[opened[d].name]
MovedTo(d, o) == opened' = [opened EXCEPT ![d].offset = o]

CloseFd(d) ==
  /\ Gives(<<"close", d>>, 0)
  /\ opened' = [e \in DOMAIN opened \ {d} |-> opened[e]]
  /\ UNCHANGED <<state, files>>

SizeOf(d) ==
  result'.call = <<"get_filesize", d>> /\ Gives(<<"get_filesize", d>>, Len(Text(d)))
  /\ UNCHANGED <<state, opened, files>>

Seek(d, o) ==
  \/ Gives(<<"lseek", d, o>>, 0) /\ o <= Len(Text(d)) /\ MovedTo(d, o) /\ UNCHANGED <<state, files>>
  \/ Refuse(<<"lseek", d, o>>) /\ o > Len(Text(d))

ReadFd(d, n) ==
  /\ result'.call = <<"read", d, n>>
  /\ LET from == opened[d].offset
         to == Least(from + n, Len(Text(d)))
     IN  /\ result' = [call |-> <<"read", d, n>>, val |-> to - from,
                       data |-> SubSeq(Text(d), from + 1, to)]
         /\ MovedTo(d, to)
  /\ UNCHANGED <<state, files>>

WriteFd(d, buf) ==
  LET old == Text(d)
      from == opened[d].offset
      to == Least(from + Len(buf), MaxSize)
  IN  /\ Gives(<<"write", d, buf>>, to - from)
      /\ MovedTo(d, to)
      /\ files' = [files EXCEPT ![opened[d].name] =
           SubSeq(old, 1, from) \o SubSeq(buf, 1, to - from) \o SubSeq(old, to + 1, Len(old))]
      /\ UNCHANGED state

Cut(d, len) ==
  \/ Refuse(<<"truncate", d, len>>) /\ len > Len(Text(d))
  \/ /\ Gives(<<"truncate", d, len>>, 0) /\ len <= Len(Text(d))
     /\ MovedTo(d, Least(opened[d].offset, len))
     /\ files' = [files EXCEPT ![opened[d].name] = SubSeq(@, 1, len)]
     /\ UNCHANGED state

OnFd(d) ==
  \/ CloseFd(d) \/ SizeOf(d)
  \/ \E o \in 0 .. MaxSize : Seek(d, o)
  \/ \E n \in Counts : ReadFd(d, n)
  \/ \E buf \in Buffers : WriteFd(d, buf)
  \/ \E len \in Lengths : Cut(d, len)

OnNoFd(d) ==
  \/ Refuse(<<"close", d>>) \/ Refuse(<<"get_filesize", d>>)
  \/ \E o \in 0 .. MaxSize : Refuse(<<"lseek", d, o>>)
  \/ \E n \in Counts : Refuse(<<"read", d, n>>)
  \/ \E buf \in Buffers : Refuse(<<"write", d, buf>>)
  \/ \E len \in Lengths : Refuse(<<"truncate", d, len>>)

InStore ==
  \/ \E n \in Name : MakeFile(n) \/ RemoveFile(n) \/ OpenFile(n)
  \/ List
  \/ \E d \in Fd : IF d \in DOMAIN opened THEN OnFd(d) ELSE OnNoFd(d)

StoreNext == Format \/ Attach \/ Detach \/ NewProgram \/ (state = "mounted" /\ InStore)

StoreSpec == StoreInit /\ [][StoreNext]_storeVars
=============================================================================
