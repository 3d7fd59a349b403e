----------------------------- MODULE InputFiles -----------------------------
(***************************************************************************)
(* How the inputs of `tree -f' are read: file_t and the buffer mem_t of    *)
(* include/sys.hpp and src/sys.cpp, as the constructor of BaseParser uses  *)
(* them for one input after the other (src/grammar/parser-base.cpp).       *)
(*                                                                         *)
(* The bytes of a file or a stream are known by their places, 1 for the    *)
(* first.  The system calls are external: open gives the lowest free       *)
(* descriptor, read may give less than it was asked for, and other         *)
(* processes may change a file between two calls.                          *)
(*                                                                         *)
(* (A _slip definition is the next one with a mistake: see PoolAllocator.) *)
(***************************************************************************)
EXTENDS Integers, SequencesExt

CONSTANTS
  Regulars,     (* names of regular files                                  *)
  Devices,      (* names of endless devices, as /dev/zero                  *)
  Missing,      (* names that no file has                                  *)
  MaxSize,      (* file_t::max_size                                        *)
  Inc, Chunk,   (* inc, and the size of chunk, of read_stdin               *)
  Longest,      (* the longest stream and the longest file                 *)
  MaxInputs     (* the most inputs on a command line                       *)

Dash    == "-"
Names   == Regulars \cup Devices \cup Missing
Streams == Regulars \cup {Dash}

ASSUME SizeAssumption ==
  /\ Inc \in Nat \ {0} /\ Chunk \in 1 .. Inc
  /\ MaxSize \in Nat \ {0} /\ \E k \in 1 .. MaxSize : MaxSize = k * Inc
  /\ Longest \in Nat /\ MaxInputs \in Nat
  /\ Dash \notin Names /\ "nothing" \notin Names
  /\ Regulars \cap Devices = {} /\ (Regulars \cup Devices) \cap Missing = {}

VARIABLES
  args,     (* the inputs, in order                                        *)
  at,       (* the input that is read                                      *)
  shut,     (* whether the program was started without a standard input    *)
  open,     (* the descriptors: what each refers to, and its place there   *)
  length,   (* of the regular files and of the standard input              *)
  desc,     (* file_t::desc; -1 before the file is open                    *)
  asked,    (* the size that fstat gave                                    *)
  chunk,    (* what the last read gave                                     *)
  mem,      (* the bytes of the buffer, all of its capacity                *)
  d,        (* how many of them hold input                                 *)
  error,    (* the Error that is thrown, or "none"                         *)
  pc        (* what comes next, or how the program ended: "exit0",         *)
            (* "exit1", "exit127" or "abort"                               *)

buffer == <<asked, chunk, mem, d>>
vars == <<args, at, shut, open, length, desc, buffer, error, pc>>

Name == args[at]

-----------------------------------------------------------------------------
(* Descriptors: 1 and 2 are the output's and are never closed.             *)
Descs   == {0, 3}
Free    == [to |-> "nothing", place |-> 0]
Opened(name) == [to |-> name, place |-> 0]
Lowest  == CHOOSE f \in Descs : open[f] = Free /\ \A g \in Descs : open[g] = Free => f <= g

(* The next n bytes of a stream.                                           *)
Bytes(place, n) == [i \in 1 .. n |-> place + i]
Junk(n) == [i \in 1 .. n |-> 0]

(* memcpy of the bytes to the place k of the memory m.                     *)
Copied(m, k, bytes) ==
  [i \in DOMAIN m |-> IF i \in k + 1 .. k + Len(bytes) THEN bytes[i - k] ELSE m[i]]

(* file_t::error: the destructor of the file comes next.                   *)
Throw(why) == error' = why /\ pc' = "close"

Init ==
  /\ args \in UNION {[1 .. n -> Names \cup {Dash}] : n \in 1 .. MaxInputs}
  /\ at = 1
  /\ shut \in BOOLEAN
  /\ open = [f \in Descs |-> IF f = 0 /\ ~shut THEN Opened(Dash) ELSE Free]
  /\ length \in [Streams -> 0 .. Longest]
  /\ desc = -1 /\ asked = 0 /\ chunk = <<>> /\ mem = <<>> /\ d = 0
  /\ error = "none" /\ pc = "open"

-----------------------------------------------------------------------------
(* file_t::file_t.  A constructor that throws is not destroyed.            *)
Open ==
  /\ pc = "open"
  /\ \/ /\ Name = Dash
        /\ desc' = 0 /\ pc' = "read"
        /\ UNCHANGED <<open, error>>
     \/ /\ Name \in Missing
        /\ error' = "cannot open" /\ pc' = "exit1"
        /\ UNCHANGED <<open, desc>>
     \/ /\ Name \in Regulars \cup Devices
        /\ open' = [open EXCEPT ![Lowest] = Opened(Name)]
        /\ desc' = Lowest /\ pc' = "read"
        /\ UNCHANGED error
  /\ UNCHANGED <<args, at, shut, length, buffer>>

(* file_t::read: by the number of the descriptor.                          *)
Read ==
  /\ pc = "read"
  /\ pc' = IF desc = 0 THEN "stdin" ELSE "stat"
  /\ UNCHANGED <<args, at, shut, open, length, desc, buffer, error>>

-----------------------------------------------------------------------------
\* slip: the largest size is refused
Stat_least_slip ==
  /\ pc = "stat"
  /\ \/ /\ Name \notin Regulars
        /\ Throw("not regular")
        /\ UNCHANGED <<asked, mem>>
     \/ /\ Name \in Regulars /\ length[Name] >= MaxSize
        /\ Throw("too large")
        /\ UNCHANGED <<asked, mem>>
     \/ /\ Name \in Regulars /\ length[Name] < MaxSize
        /\ asked' = length[Name]
        /\ mem' = Junk(asked') /\ pc' = "regular"
        /\ UNCHANGED error
  /\ UNCHANGED <<args, at, shut, open, length, desc, chunk, d>>

(* read_regular, up to its buffer.                                         *)
Stat ==
  /\ pc = "stat"
  /\ \/ /\ Name \notin Regulars
        /\ Throw("not regular")
        /\ UNCHANGED <<asked, mem>>
     \/ /\ Name \in Regulars /\ length[Name] > MaxSize
        /\ Throw("too large")
        /\ UNCHANGED <<asked, mem>>
     \/ /\ Name \in Regulars /\ length[Name] <= MaxSize
        /\ asked' = length[Name]
        /\ \/ mem' = Junk(asked') /\ pc' = "regular"
           \/ asked' > 0 /\ pc' = "exit127" /\ UNCHANGED mem
        /\ UNCHANGED error
  /\ UNCHANGED <<args, at, shut, open, length, desc, chunk, d>>

\* slip: whatever was read will do
ReadRegular_slip ==
  /\ pc = "regular"
  /\ \E n \in 0 .. asked :
       /\ n <= length[Name]
       /\ mem' = Copied(mem, 0, Bytes(0, n))
       /\ d' = asked /\ pc' = "close" /\ UNCHANGED error
  /\ UNCHANGED <<args, at, shut, open, length, desc, asked, chunk>>

(* The rest of read_regular: one read, which must give all that was asked. *)
ReadRegular ==
  /\ pc = "regular"
  /\ \E n \in 0 .. asked :
       /\ n <= length[Name]
       /\ mem' = Copied(mem, 0, Bytes(0, n))
       /\ IF n = asked THEN d' = n /\ pc' = "close" /\ UNCHANGED error
                       ELSE Throw("failed reading") /\ UNCHANGED d
  /\ UNCHANGED <<args, at, shut, open, length, desc, asked, chunk>>

(* Another process cuts or extends the file between fstat and read.        *)
ChangeFile ==
  /\ pc = "regular"
  /\ \E n \in 0 .. Longest : length' = [length EXCEPT ![Name] = n]
  /\ UNCHANGED <<args, at, shut, open, desc, buffer, error, pc>>

-----------------------------------------------------------------------------
(* What a read of descriptor 0 can give before it waits or ends.           *)
Left ==
  LET stream == open[0].to
  IN  IF stream \in Devices THEN Chunk ELSE length[stream] - open[0].place

\* slip: no test for the end of the stream
ReadChunk_slip ==
  /\ pc = "stdin"
  /\ \/ /\ Throw("failed reading")
        /\ UNCHANGED <<open, chunk>>
     \/ /\ open[0] # Free
        /\ \E n \in 0 .. Chunk :
             /\ n <= Left /\ (n = 0 => Left = 0)
             /\ chunk' = Bytes(open[0].place, n)
             /\ open' = [open EXCEPT ![0].place = @ + n]
        /\ pc' = "keep"
        /\ UNCHANGED error
  /\ UNCHANGED <<args, at, shut, length, desc, asked, mem, d>>

(* read_stdin: the call of read, which gives nothing at the end only.  It  *)
(* fails when 0 is not open, and it may fail when it is.                   *)
ReadChunk ==
  /\ pc = "stdin"
  /\ \/ /\ Throw("failed reading")
        /\ UNCHANGED <<open, chunk>>
     \/ /\ open[0] # Free /\ Left = 0
        /\ pc' = "close"
        /\ UNCHANGED <<open, chunk, error>>
     \/ /\ open[0] # Free
        /\ \E n \in 1 .. Chunk :
             /\ n <= Left
             /\ chunk' = Bytes(open[0].place, n)
             /\ open' = [open EXCEPT ![0].place = @ + n]
        /\ pc' = "keep"
        /\ UNCHANGED error
  /\ UNCHANGED <<args, at, shut, length, desc, asked, mem, d>>

\* slip: the buffer grows when it is full, not when the chunk does not fit
KeepChunk_full_slip ==
  /\ pc = "keep"
  /\ LET n == Len(chunk)
         grown == IF d = Len(mem) THEN mem \o Junk(Inc) ELSE mem
     IN  IF Len(mem) + n >= MaxSize
           THEN Throw("too large") /\ UNCHANGED <<mem, d>>
           ELSE /\ mem' = Copied(grown, d, chunk) /\ d' = d + n
                /\ pc' = "stdin" /\ UNCHANGED error
  /\ UNCHANGED <<args, at, shut, open, length, desc, asked, chunk>>

(* The rest of a turn of read_stdin: the limit is on the capacity that the *)
(* buffer has and the bytes that were read together; the buffer grows by   *)
(* inc, which is no less than a chunk.                                     *)
KeepChunk ==
  /\ pc = "keep"
  /\ LET n == Len(chunk)
         grows == d + n > Len(mem)
     IN  \/ /\ Len(mem) + n >= MaxSize
            /\ Throw("too large")
            /\ UNCHANGED <<mem, d>>
         \/ /\ Len(mem) + n < MaxSize
            /\ mem' = Copied(IF grows THEN mem \o Junk(Inc) ELSE mem, d, chunk)
            /\ d' = d + n /\ pc' = "stdin"
            /\ UNCHANGED error
         \/ /\ Len(mem) + n < MaxSize /\ grows
            /\ pc' = "exit127"
            /\ UNCHANGED <<mem, d, error>>
  /\ UNCHANGED <<args, at, shut, open, length, desc, asked, chunk>>

-----------------------------------------------------------------------------
\* slip: an error leaves the descriptor open
Close_error_slip ==
  /\ pc = "close"
  /\ IF open[desc] = Free
       THEN pc' = "abort" /\ UNCHANGED open
       ELSE /\ pc' = IF error = "none" THEN "parse" ELSE "exit1"
            /\ open' = IF error = "none" THEN [open EXCEPT ![desc] = Free] ELSE open
  /\ UNCHANGED <<args, at, shut, length, desc, buffer, error>>

(* file_t::~file_t.  It closes descriptor 0 too, and it may not throw: an  *)
(* error of close ends the program.                                        *)
Close ==
  /\ pc = "close"
  /\ IF open[desc] = Free
       THEN pc' = "abort" /\ UNCHANGED open
       ELSE /\ pc' = IF error = "none" THEN "parse" ELSE "exit1"
            /\ open' = [open EXCEPT ![desc] = Free]
  /\ UNCHANGED <<args, at, shut, length, desc, buffer, error>>

(* The parser has read its input; main goes on to the next input, or an    *)
(* error in this one ends it.                                              *)
NextInput ==
  /\ pc = "parse"
  /\ \/ /\ at < Len(args)
        /\ at' = at + 1
        /\ desc' = -1 /\ asked' = 0 /\ chunk' = <<>> /\ mem' = <<>> /\ d' = 0
        /\ pc' = "open"
     \/ /\ pc' \in IF at = Len(args) THEN {"exit0", "exit1"} ELSE {"exit1"}
        /\ UNCHANGED <<at, desc, buffer>>
  /\ UNCHANGED <<args, shut, open, length, error>>

Step ==
  \/ Open \/ Read \/ Stat \/ ReadRegular \/ ReadChunk \/ KeepChunk
  \/ Close \/ NextInput
Next == Step \/ ChangeFile

(* The program's steps are its own; a read of the standard input returns at*)
(* some time, as whoever writes to it writes or closes it.                 *)
Spec == Init /\ [][Next]_vars /\ WF_vars(Step)

-----------------------------------------------------------------------------
Ends == {"exit0", "exit1", "exit127", "abort"}

(* Type invariant.                                                         *)
TypeOK ==
  /\ at \in DOMAIN args
  /\ \A f \in Descs : /\ open[f].to \in Names \cup {Dash, "nothing"}
                      /\ open[f].place \in Nat
  /\ desc \in Descs \cup {-1}
  /\ asked \in 0 .. MaxSize
  /\ mem \in Seq(Nat) /\ chunk \in Seq(Nat) /\ Len(chunk) <= Chunk
  /\ d \in Nat
  /\ error \in {"none", "cannot open", "not regular", "too large", "failed reading"}
  /\ pc \in {"open", "read", "stat", "regular", "stdin", "keep", "close", "parse"} \cup Ends

(* No byte is written past the buffer, and the buffer never outgrows the   *)
(* limit, however much a stream has to give and in whatever pieces.        *)
StaysInBuffer == d <= Len(mem) /\ Len(mem) <= MaxSize

(* What the parser gets: all bytes of the stream, once and in their order; *)
(* of a regular file as many as it had when its size was asked.            *)
Text == SubSeq(mem, 1, d)
HoldsInput ==
  pc = "parse" =>
    /\ Text = Bytes(0, d)
    /\ d = IF desc = 0 THEN length[Name] ELSE asked

(* The standard input was closed before, by its own file_t or by whoever   *)
(* started the program.                                                    *)
StdinGone == shut \/ \E i \in 1 .. at - 1 : args[i] = Dash

(* As long as the standard input is there, a named file that is no regular *)
(* one is refused as such, and only the size of a regular file decides     *)
(* whether it is too large; descriptor 0 is what `-' names and nothing     *)
(* else.                                                                   *)
NamedAreRegular ==
  ~StdinGone /\ Name # Dash =>
    /\ desc # 0
    /\ error = "too large" => Name \in Regulars
    /\ pc = "parse" => Name \in Regulars

(* An input that the limit refuses is longer than it, but for the last     *)
(* increment when it is read as a stream.                                  *)
RefusedAreLarge ==
  error = "too large" /\ Name \notin Devices =>
    length[Name] > IF desc = 0 THEN MaxSize - Inc ELSE MaxSize

(* The program is only aborted, without a message, when `-' is named and   *)
(* the standard input is gone; and it cannot be read then.                 *)
AbortsWithoutStdin ==
  /\ pc = "abort" => Name = Dash /\ StdinGone
  /\ pc = "parse" => ~(Name = Dash /\ StdinGone)

(* Between inputs, and when an error ends the program, no descriptor is    *)
(* left open but an untouched standard input.                              *)
DescriptorsClosed ==
  pc \in {"parse", "exit0", "exit1"} =>
    \A f \in Descs : open[f] \in {Free, Opened(Dash)}

(* The descriptors, of which 0 is read by rules of its own: as long as the *)
(* standard input is there no other file gets it; when it is gone the      *)
(* program is aborted rather than wrong; and none is ever left open.       *)
DescriptorsRight == NamedAreRegular /\ AbortsWithoutStdin /\ DescriptorsClosed

(* Reading ends, even of an endless device that is taken for the standard  *)
(* input: the limit ends it.                                               *)
Terminates == <>(pc \in Ends)
=============================================================================
