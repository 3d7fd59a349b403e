-------------------------- MODULE InputFilesProofs --------------------------
(***************************************************************************)
(* What holds of InputFiles for every limit, increment, chunk, list of     *)
(* inputs and length of stream that its assumption allows.                 *)
(***************************************************************************)
EXTENDS InputFiles, SequenceTheorems, TLAPS

Entries == [to : Names \cup {Dash, "nothing"}, place : Nat]

(* The type invariant, of all the variables.                               *)
Types ==
  /\ args \in Seq(Names \cup {Dash}) /\ at \in 1 .. Len(args)
  /\ shut \in BOOLEAN
  /\ open \in [Descs -> Entries]
  /\ length \in [Streams -> Nat]
  /\ desc \in Descs \cup {-1}
  /\ asked \in Nat /\ asked <= MaxSize
  /\ mem \in Seq(Nat)
  /\ chunk \in Seq(Nat) /\ Len(chunk) <= Chunk
  /\ d \in Nat
  /\ error \in {"none", "cannot open", "not regular", "too large", "failed reading"}
  /\ pc \in {"open", "read", "stat", "regular", "stdin", "keep", "close", "parse"} \cup Ends

-----------------------------------------------------------------------------
(* Whether descriptor 0 is still the standard input after the first n      *)
(* inputs; between inputs it is then untouched, and nothing else is open.  *)
Gone(n) == shut \/ \E i \in 1 .. n : args[i] = Dash
Between(n) ==
  /\ open[0] = IF Gone(n) THEN Free ELSE Opened(Dash)
  /\ open[3] = Free

(* The three ways to read an input: from the standard input, or where it   *)
(* was; from a file that has got descriptor 0; and from one that has not.  *)
FromStdin ==
  /\ desc = 0 /\ Name = Dash /\ open[3] = Free
  /\ IF Gone(at - 1) THEN open[0] = Free ELSE open[0].to = Dash
FromLow ==
  /\ desc = 0 /\ Name \in Regulars \cup Devices /\ open[3] = Free
  /\ Gone(at - 1) /\ open[0].to = Name
FromFile ==
  /\ desc = 3 /\ Name \in Regulars \cup Devices /\ open[3].to = Name
  /\ ~Gone(at - 1) /\ open[0] = Opened(Dash)

InFile == {"read", "stat", "regular", "stdin", "keep", "close"}

Descriptors ==
  /\ pc = "open" => desc = -1 /\ Between(at - 1)
  /\ pc \in InFile => FromStdin \/ FromLow \/ FromFile
  /\ pc \in {"stat", "regular"} => desc = 3
  /\ pc \in {"stdin", "keep"} => desc = 0
  /\ pc = "parse" => /\ desc \in Descs /\ Between(at)
                     /\ Name = Dash => ~Gone(at - 1)
  /\ pc \in {"exit0", "exit1"} => \A f \in Descs : open[f] \in {Free, Opened(Dash)}
  /\ pc = "abort" => Name = Dash /\ Gone(at - 1)
  /\ desc = 0 => Name = Dash \/ Gone(at - 1)

-----------------------------------------------------------------------------
(* The first n bytes of the buffer are those of the stream.                *)
Filled(n) == n <= Len(mem) /\ \A i \in 1 .. n : mem[i] = i

(* read_stdin between two of its reads: the buffer is a multiple of the    *)
(* increment, and less than one increment of it is free.                   *)
Growing ==
  /\ \E k \in Nat : Len(mem) = k * Inc
  /\ Len(mem) <= MaxSize /\ Filled(d) /\ Len(mem) - d < Inc

Buffer ==
  /\ pc \in {"open", "read", "stat"} => mem = <<>> /\ d = 0
  /\ pc = "regular" => d = 0 /\ Len(mem) = asked /\ Name \in Regulars
  /\ pc \in {"stdin", "keep"} => Growing
  /\ pc = "read" /\ open[desc] # Free => open[desc].place = 0
  /\ pc = "stdin" /\ open[0] # Free => open[0].place = d
  /\ pc = "keep" =>
       /\ open[0] # Free /\ open[0].place = d + Len(chunk)
       /\ chunk = Bytes(d, Len(chunk))
       /\ Name \notin Devices => open[0].place <= length[Name]
  /\ pc \in {"close", "parse"} /\ error = "none" =>
       /\ Filled(d)
       /\ d = IF desc = 0 THEN length[Name] ELSE asked
       /\ desc = 3 => Name \in Regulars
  /\ d <= Len(mem) /\ Len(mem) <= MaxSize

(* An error is one until the program has ended.                            *)
Errors ==
  /\ pc \notin {"close", "exit1", "abort"} => error = "none"
  /\ error = "too large" =>
       IF desc = 0 THEN Name \notin Devices => length[Name] > MaxSize - Inc
                   ELSE Name \in Regulars /\ length[Name] > MaxSize

IInv == Types /\ Descriptors /\ Buffer /\ Errors

-----------------------------------------------------------------------------
(* memcpy keeps the buffer as long as it is, and sets the places from k on.*)
LEMMA CopiedProperties ==
  ASSUME NEW m \in Seq(Nat), NEW k \in Nat, NEW bytes \in Seq(Nat)
  PROVE  /\ Copied(m, k, bytes) \in Seq(Nat)
         /\ Len(Copied(m, k, bytes)) = Len(m)
         /\ \A i \in 1 .. Len(m) :
              Copied(m, k, bytes)[i] =
                IF i \in k + 1 .. k + Len(bytes) THEN bytes[i - k] ELSE m[i]
<1>1. Len(m) \in Nat /\ Len(bytes) \in Nat /\ DOMAIN m = 1 .. Len(m)
  OBVIOUS
<1>2. \A i \in 1 .. Len(m) : m[i] \in Nat
  OBVIOUS
<1>3. \A i \in k + 1 .. k + Len(bytes) : bytes[i - k] \in Nat
  BY <1>1
<1>4. Copied(m, k, bytes) \in [1 .. Len(m) -> Nat]
  BY <1>1, <1>2, <1>3 DEF Copied
<1>5. Copied(m, k, bytes) \in Seq(Nat)
  <2>1. Copied(m, k, bytes) \in UNION {[1 .. n -> Nat] : n \in Nat}
    BY <1>1, <1>4
  <2> QED
    BY <2>1, SeqDef, Zenon
<1>6. DOMAIN Copied(m, k, bytes) = 1 .. Len(m)
  BY <1>4
<1>7. Len(Copied(m, k, bytes)) = Len(m)
  BY <1>1, <1>5, <1>6
<1> QED
  BY <1>1, <1>5, <1>7 DEF Copied

LEMMA BytesProperties ==
  ASSUME NEW p \in Nat, NEW n \in Nat
  PROVE  /\ Bytes(p, n) \in Seq(Nat) /\ Len(Bytes(p, n)) = n
         /\ \A i \in 1 .. n : Bytes(p, n)[i] = p + i
<1>1. Bytes(p, n) \in [1 .. n -> Nat]
  BY DEF Bytes
<1>2. Bytes(p, n) \in Seq(Nat)
  BY <1>1
<1>3. DOMAIN Bytes(p, n) = 1 .. n
  BY DEF Bytes
<1> QED
  BY <1>2, <1>3 DEF Bytes

LEMMA JunkProperties ==
  ASSUME NEW n \in Nat
  PROVE  Junk(n) \in Seq(Nat) /\ Len(Junk(n)) = n
<1>1. Junk(n) \in [1 .. n -> Nat]
  BY DEF Junk
<1>2. DOMAIN Junk(n) = 1 .. n
  BY DEF Junk
<1> QED
  BY <1>1, <1>2

(* A multiple of the increment below the limit leaves room for another one.*)
LEMMA OneMoreFits ==
  ASSUME NEW k \in Nat, k * Inc < MaxSize
  PROVE  (k + 1) * Inc <= MaxSize
<1>1. PICK m \in Nat : MaxSize = m * Inc
  BY SizeAssumption
<1>2. k < m
  <2> SUFFICES ASSUME m <= k  PROVE FALSE
    BY <1>1
  <2>1. (k - m) * Inc >= 0
    BY SizeAssumption
  <2> QED
    BY <2>1, <1>1, SizeAssumption
<1>3. (m - (k + 1)) * Inc >= 0
  BY <1>1, <1>2, SizeAssumption
<1> QED
  BY <1>1, <1>3, SizeAssumption

-----------------------------------------------------------------------------
(* Nothing of a file or of the errors is known before the first input.     *)
LEMMA InitEstablishes ==
  ASSUME Init  PROVE IInv
<1>1. PICK n \in 1 .. MaxInputs : args \in [1 .. n -> Names \cup {Dash}]
  BY DEF Init
<1>2. /\ args \in Seq(Names \cup {Dash}) /\ Len(args) = n
      /\ MaxSize \in Nat /\ Inc \in Nat \ {0} /\ Chunk \in Nat
  BY <1>1, SeqDef, SizeAssumption
<1>3. /\ mem = <<>> /\ chunk = <<>> /\ Len(mem) = 0 /\ Len(chunk) = 0
      /\ mem \in Seq(Nat) /\ chunk \in Seq(Nat)
  BY DEF Init
<1>4. /\ at = 1 /\ shut \in BOOLEAN /\ desc = -1 /\ asked = 0 /\ d = 0
      /\ error = "none" /\ pc = "open"
      /\ open = [f \in Descs |-> IF f = 0 /\ ~shut THEN Opened(Dash) ELSE Free]
      /\ length \in [Streams -> 0 .. Longest]
  BY DEF Init
<1>5. Types
  <2>1. open \in [Descs -> Entries]
    BY <1>4 DEF Entries, Opened, Free, Descs
  <2>2. length \in [Streams -> Nat]
    BY <1>4, SizeAssumption
  <2> QED
    BY <1>1, <1>2, <1>3, <1>4, <2>1, <2>2 DEF Types
<1>6. Descriptors
  BY <1>4 DEF Descriptors, Between, Gone, Descs, InFile
<1>7. Buffer
  BY <1>2, <1>3, <1>4 DEF Buffer
<1>8. Errors
  BY <1>4 DEF Errors
<1> QED
  BY <1>5, <1>6, <1>7, <1>8 DEF IInv

(* Open: the place in a file that has just been opened is its beginning.   *)
LEMMA OpenPreserves ==
  ASSUME IInv, Open  PROVE IInv'
<1> USE DEF buffer
<1>1. /\ Types /\ pc = "open" /\ desc = -1 /\ Between(at - 1)
      /\ mem = <<>> /\ d = 0 /\ error = "none"
  BY DEF IInv, Descriptors, Buffer, Errors, Open
<1>2. Name \in Names \cup {Dash}
  BY <1>1 DEF Types, Name
<1>3. /\ UNCHANGED <<args, at, shut, length, asked, chunk, mem, d>>
      /\ Name' = Name /\ Gone(at - 1)' = Gone(at - 1)
  BY DEF Open, Name, Gone
<1>4. CASE Name = Dash
  <2>1. desc' = 0 /\ pc' = "read" /\ UNCHANGED <<open, error>>
    BY <1>2, <1>4, SizeAssumption DEF Open, Names
  <2> QED
    BY <1>1, <1>2, <1>3, <1>4, <2>1, SizeAssumption
    DEF IInv, Types, Descriptors, Buffer, Errors, Between, FromStdin, InFile,
        Free, Opened, Descs, Entries
<1>5. CASE Name # Dash /\ pc' = "exit1"
  BY <1>1, <1>2, <1>3, <1>5
  DEF IInv, Types, Descriptors, Buffer, Errors, Between, InFile, Open, Ends, Free, Opened, Descs
<1>6. CASE Name # Dash /\ pc' # "exit1"
  <2>1. /\ Name \in Regulars \cup Devices /\ pc' = "read" /\ error' = error
        /\ open' = [open EXCEPT ![Lowest] = Opened(Name)] /\ desc' = Lowest
    BY <1>6 DEF Open
  <2>2. /\ Lowest = IF Gone(at - 1) THEN 0 ELSE 3
        /\ Gone(at - 1) \/ open[0] = Opened(Dash)
        /\ open[3] = Free
    <3>1. /\ open[3] = Free
          /\ Gone(at - 1) => open[0] = Free
          /\ ~Gone(at - 1) => open[0] = Opened(Dash) /\ open[0] # Free
      BY <1>1 DEF Between, Free, Opened, Dash
    <3>2. CASE Gone(at - 1)
      <4>1. \A f \in Descs :
              (open[f] = Free /\ \A g \in Descs : open[g] = Free => f <= g) <=> f = 0
        BY <3>1, <3>2 DEF Descs
      <4>2. Lowest = CHOOSE f \in Descs : f = 0
        BY <4>1, Zenon DEF Lowest
      <4> QED
        BY <3>1, <3>2, <4>2 DEF Descs
    <3>3. CASE ~Gone(at - 1)
      <4>1. \A f \in Descs :
              (open[f] = Free /\ \A g \in Descs : open[g] = Free => f <= g) <=> f = 3
        BY <3>1, <3>3 DEF Descs
      <4>2. Lowest = CHOOSE f \in Descs : f = 3
        BY <4>1, Zenon DEF Lowest
      <4> QED
        BY <3>1, <3>3, <4>2 DEF Descs
    <3> QED
      BY <3>2, <3>3
  <2>3. open' \in [Descs -> Entries]
    BY <1>1, <1>2, <2>1, <2>2 DEF Types, Entries, Opened, Descs
  <2>4. Name # "nothing"
    BY <1>2, <1>6, SizeAssumption
  <2>5. Types'
    BY <1>1, <1>3, <2>1, <2>2, <2>3 DEF Types, Descs
  <2>6. Descriptors'
    BY <1>1, <1>2, <1>3, <1>6, <2>1, <2>2, <2>4
    DEF Types, Descriptors, FromLow, FromFile, InFile, Opened, Descs
  <2>7. Buffer' /\ Errors'
    BY <1>1, <1>3, <2>1, <2>2 DEF IInv, Types, Buffer, Errors, Opened, Descs
  <2> QED
    BY <2>5, <2>6, <2>7 DEF IInv
<1> QED
  BY <1>4, <1>5, <1>6

LEMMA ReadPreserves ==
  ASSUME IInv, Read  PROVE IInv'
<1>1. /\ UNCHANGED <<args, at, shut, open, length, desc, asked, chunk, mem, d, error>>
      /\ pc = "read" /\ pc' = IF desc = 0 THEN "stdin" ELSE "stat"
      /\ Name' = Name /\ Gone(at - 1)' = Gone(at - 1)
  BY DEF Read, buffer, Name, Gone
<1>2. Types'
  BY <1>1 DEF IInv, Types
<1>3. Descriptors'
  BY <1>1 DEF IInv, Descriptors, FromStdin, FromLow, FromFile, InFile
<1>4. Growing'
  <2>1. Len(mem) = 0 * Inc
    BY <1>1, SizeAssumption DEF IInv, Buffer
  <2> QED
    BY <1>1, <2>1, SizeAssumption DEF IInv, Buffer, Growing, Filled
<1>5. Buffer' /\ Errors'
  BY <1>1, <1>4 DEF IInv, Buffer, Errors
<1> QED
  BY <1>2, <1>3, <1>5 DEF IInv

(* read_regular has a descriptor that is not 0, so its input is a file.    *)
LEMMA StatPreserves ==
  ASSUME IInv, Stat  PROVE IInv'
<1>1. /\ UNCHANGED <<args, at, shut, open, length, desc, chunk, d>>
      /\ pc = "stat"
      /\ Name' = Name /\ Gone(at - 1)' = Gone(at - 1)
  BY DEF Stat, Name, Gone
<1>2. desc = 3 /\ mem = <<>> /\ d = 0 /\ error = "none" /\ Types
  BY <1>1 DEF IInv, Descriptors, Buffer, Errors
<1>3. FromFile
  BY <1>1, <1>2 DEF IInv, Descriptors, FromStdin, FromLow, InFile
<1>4. /\ UNCHANGED <<args, at, shut, open, length, desc, chunk, d>>
      /\ pc = "stat" /\ desc = 3 /\ mem = <<>> /\ d = 0 /\ error = "none"
      /\ Name' = Name /\ Gone(at - 1)' = Gone(at - 1)
      /\ FromFile /\ Types
  BY <1>1, <1>2, <1>3
<1>5. FromFile'
  BY <1>4 DEF FromFile
<1>6. CASE pc' = "close"
  <2>1. /\ UNCHANGED <<asked, mem>>
        /\ \/ error' = "not regular"
           \/ error' = "too large" /\ Name \in Regulars /\ length[Name] > MaxSize
    BY <1>6 DEF Stat, Throw
  <2>2. Types'
    BY <1>4, <1>6, <2>1 DEF Types
  <2>3. Descriptors'
    BY <1>4, <1>5, <1>6 DEF IInv, Descriptors, InFile
  <2>4. Buffer'
    BY <1>4, <1>6, <2>1 DEF IInv, Buffer
  <2>5. Errors'
    <3>1. desc' # 0 /\ length'[Name'] = length[Name] /\ Name' = Name
      BY <1>4
    <3>2. error' = "too large" => Name' \in Regulars /\ length'[Name'] > MaxSize
      BY <2>1, <3>1
    <3> QED
      BY <1>6, <3>1, <3>2 DEF Errors
  <2> QED
    BY <2>2, <2>3, <2>4, <2>5 DEF IInv
<1>7. CASE pc' = "regular" \/ pc' = "exit127"
  <2>1. /\ Name \in Regulars /\ length[Name] <= MaxSize /\ error' = "none"
        /\ asked' = length[Name]
        /\ IF pc' = "regular" THEN mem' = Junk(asked') ELSE mem' = mem
    BY <1>4, <1>7 DEF Stat, Throw
  <2>2. asked' \in Nat
    BY <1>4, <2>1 DEF Types, Streams
  <2>3. mem' \in Seq(Nat) /\ (pc' = "regular" => Len(mem') = asked')
    BY <1>4, <2>1, <2>2, JunkProperties DEF Types
  <2>4. Types'
    BY <1>4, <1>7, <2>1, <2>2, <2>3 DEF Types, Ends
  <2>5. Descriptors'
    BY <1>4, <1>5, <1>7 DEF Descriptors, InFile, IInv
  <2>6. Buffer' /\ Errors'
    BY <1>4, <1>7, <2>1, <2>2, <2>3, SizeAssumption DEF IInv, Buffer, Errors
  <2> QED
    BY <2>4, <2>5, <2>6 DEF IInv
<1> QED
  BY <1>6, <1>7 DEF Stat, Throw

(* One read of a file: whether all of it comes is what it is asked for.    *)
LEMMA ReadRegularPreserves ==
  ASSUME IInv, ReadRegular  PROVE IInv'
<1>1. /\ UNCHANGED <<args, at, shut, open, length, desc, asked, chunk>>
      /\ pc = "regular"
      /\ Name' = Name /\ Gone(at - 1)' = Gone(at - 1)
  BY DEF ReadRegular, Name, Gone
<1>2. /\ desc = 3 /\ d = 0 /\ error = "none"
      /\ Len(mem) = asked /\ Name \in Regulars
      /\ asked \in Nat /\ asked <= MaxSize /\ MaxSize \in Nat /\ mem \in Seq(Nat)
  BY <1>1, SizeAssumption DEF IInv, Types, Descriptors, Buffer, Errors
<1>3. FromFile'
  <2>1. FromFile
    BY <1>1, <1>2 DEF IInv, Descriptors, FromStdin, FromLow, InFile
  <2> QED
    BY <1>1, <2>1 DEF FromFile
<1>4. PICK n \in 0 .. asked :
        /\ n <= length[Name]
        /\ mem' = Copied(mem, 0, Bytes(0, n))
        /\ IF n = asked THEN d' = n /\ pc' = "close" /\ UNCHANGED error
                        ELSE Throw("failed reading") /\ UNCHANGED d
  BY DEF ReadRegular
<1>5. /\ mem' \in Seq(Nat) /\ Len(mem') = asked
      /\ \A i \in 1 .. n : mem'[i] = i
  <2>1. n \in Nat /\ n <= asked
    BY <1>2
  <2>2. /\ Bytes(0, n) \in Seq(Nat) /\ Len(Bytes(0, n)) = n
        /\ \A i \in 1 .. n : Bytes(0, n)[i] = 0 + i
    BY <2>1, BytesProperties
  <2>3. /\ Copied(mem, 0, Bytes(0, n)) \in Seq(Nat)
        /\ Len(Copied(mem, 0, Bytes(0, n))) = Len(mem)
        /\ \A i \in 1 .. Len(mem) :
             Copied(mem, 0, Bytes(0, n))[i] =
               IF i \in 0 + 1 .. 0 + Len(Bytes(0, n)) THEN Bytes(0, n)[i - 0] ELSE mem[i]
    <3>1. 0 \in Nat
      OBVIOUS
    <3> QED
      BY <1>2, <2>2, <3>1, CopiedProperties, ZenonT(30)
  <2> QED
    <3>1. mem' \in Seq(Nat) /\ Len(mem') = asked
      BY <1>2, <1>4, <2>3
    <3>2. ASSUME NEW i \in 1 .. n  PROVE mem'[i] = i
      <4>1. i \in 1 .. Len(mem) /\ i \in 0 + 1 .. 0 + Len(Bytes(0, n)) /\ i - 0 = i /\ 0 + i = i
        BY <1>2, <2>1, <2>2
      <4>2. Copied(mem, 0, Bytes(0, n))[i] = Bytes(0, n)[i - 0]
        BY <4>1, <2>3, Zenon
      <4>3. Bytes(0, n)[i] = i
        BY <4>1, <2>2
      <4> QED
        BY <1>4, <4>1, <4>2, <4>3, Zenon
    <3> QED
      BY <3>1, <3>2
<1>6. /\ pc' = "close" /\ d' \in Nat /\ d' <= Len(mem')
      /\ \/ error' = "none" /\ d' = n /\ n = asked
         \/ error' = "failed reading"
  <2>1. CASE n = asked
    <3>1. pc' = "close" /\ d' = n /\ error' = error
      BY <1>4, <2>1
    <3> QED
      BY <1>2, <1>5, <2>1, <3>1
  <2>2. CASE n # asked
    <3>1. pc' = "close" /\ d' = d /\ error' = "failed reading"
      BY <1>4, <2>2 DEF Throw
    <3>2. d' = 0
      BY <1>2, <3>1
    <3>3. Len(mem') \in Nat
      BY <1>5
    <3>4. d' \in Nat /\ d' <= Len(mem')
      BY <3>2, <3>3
    <3> QED
      BY <3>1, <3>4, Zenon
  <2> QED
    BY <2>1, <2>2
<1>7. Types'
  BY <1>1, <1>2, <1>5, <1>6 DEF IInv, Types
<1>8. Descriptors'
  BY <1>1, <1>2, <1>3, <1>6 DEF IInv, Descriptors, InFile
<1>9. Buffer'
  <2>1. error' = "none" => Filled(d)' /\ d' = asked'
    BY <1>1, <1>5, <1>6 DEF Filled
  <2>2. pc' = "close" /\ desc' = 3 /\ Name' \in Regulars
    BY <1>1, <1>2, <1>6
  <2>3. d' <= Len(mem') /\ Len(mem') <= MaxSize
    BY <1>2, <1>5, <1>6
  <2> QED
    BY <2>1, <2>2, <2>3 DEF Buffer
<1>10. Errors'
  BY <1>1, <1>6 DEF Errors
<1> QED
  BY <1>7, <1>8, <1>9, <1>10 DEF IInv

(* What another process does to a file between fstat and read.             *)
LEMMA ChangeFilePreserves ==
  ASSUME IInv, ChangeFile  PROVE IInv'
<1>1. /\ UNCHANGED <<args, at, shut, open, desc, asked, chunk, mem, d, error, pc>>
      /\ pc = "regular" /\ error = "none"
      /\ Name' = Name /\ Gone(at - 1)' = Gone(at - 1)
  BY DEF ChangeFile, buffer, Name, Gone, IInv, Errors
<1>2. length' \in [Streams -> Nat]
  <2>1. PICK n \in 0 .. Longest : length' = [length EXCEPT ![Name] = n]
    BY DEF ChangeFile
  <2>2. n \in Nat
    BY SizeAssumption
  <2> QED
    BY <2>1, <2>2 DEF IInv, Types
<1>3. Types'
  BY <1>1, <1>2 DEF IInv, Types
<1>4. Descriptors'
  BY <1>1 DEF IInv, Descriptors, FromStdin, FromLow, FromFile, InFile
<1>5. Buffer' /\ Errors'
  BY <1>1 DEF IInv, Buffer, Errors
<1> QED
  BY <1>3, <1>4, <1>5 DEF IInv

-----------------------------------------------------------------------------
(* What descriptor 0 refers to while the input is read from it.            *)
LEMMA ReadFromName ==
  ASSUME IInv, pc \in {"stdin", "keep", "close"}, open[desc] # Free
  PROVE  open[desc].to = Name /\ (Name = Dash => ~Gone(at - 1))
<1>1. FromStdin \/ FromLow \/ FromFile
  BY DEF IInv, Descriptors, InFile
<1>2. Name \in Regulars \cup Devices => Name # Dash
  BY SizeAssumption DEF Names
<1> QED
  BY <1>1, <1>2 DEF FromStdin, FromLow, FromFile

(* One read of a stream: nothing comes at its end only, and what comes is  *)
(* the next bytes of it.                                                   *)
LEMMA ReadChunkPreserves ==
  ASSUME IInv, ReadChunk  PROVE IInv'
<1>1. /\ UNCHANGED <<args, at, shut, length, desc, asked, mem, d>>
      /\ pc = "stdin"
      /\ Name' = Name /\ Gone(at - 1)' = Gone(at - 1)
  BY DEF ReadChunk, Name, Gone
<1>2. /\ Types /\ desc = 0 /\ error = "none" /\ Growing
      /\ open[0] # Free => open[0].place = d
      /\ Len(mem) <= MaxSize /\ d <= Len(mem)
      /\ Name = Dash \/ Gone(at - 1)
  BY <1>1 DEF IInv, Descriptors, Buffer, Errors
<1>3. FromStdin \/ FromLow
  BY <1>1, <1>2 DEF IInv, Descriptors, FromFile, InFile
<1>4. /\ Chunk \in Nat /\ Chunk > 0
      /\ d \in Nat /\ open \in [Descs -> Entries] /\ length \in [Streams -> Nat]
  BY <1>2, SizeAssumption DEF Types
<1>5. CASE pc' = "close" /\ UNCHANGED <<open, chunk>>
  <2>1. Types'
    <3>1. error' \in {"none", "failed reading"}
      BY <1>1, <1>2 DEF ReadChunk, Throw
    <3> QED
      BY <1>1, <1>2, <1>5, <3>1 DEF Types
  <2>2. Descriptors'
    <3>1. (FromStdin \/ FromLow)'
      BY <1>1, <1>3, <1>5 DEF FromStdin, FromLow
    <3> QED
      BY <1>1, <1>2, <1>5, <3>1 DEF Descriptors, InFile
  <2>3. Errors'
    <3>1. error' # "too large"
      BY <1>1, <1>2 DEF ReadChunk, Throw
    <3> QED
      BY <1>5, <3>1 DEF Errors
  <2>4. ASSUME error' = "none"  PROVE d = length[Name]
    <3>1. open[0] # Free /\ Left = 0
      BY <1>5, <2>4 DEF ReadChunk, Throw
    <3>2. open[0].to = Name /\ open[0].place = d
      BY <3>1, <1>1, <1>2, ReadFromName
    <3>3. Name \notin Devices /\ length[Name] - d = 0
      BY <3>1, <3>2, <1>4 DEF Left
    <3>4. Name \in Streams
      BY <1>3, <3>3 DEF FromStdin, FromLow, Streams
    <3>5. length[Name] \in Nat
      BY <3>4, <1>4
    <3> QED
      BY <3>3, <3>5, <1>4
  <2>5. Buffer'
    <3>1. Filled(d)'
      BY <1>1, <1>2 DEF Growing, Filled
    <3>2. d' = d /\ length'[Name'] = length[Name] /\ desc' = 0 /\ mem' = mem
      BY <1>1, <1>2
    <3>3. error' = "none" => d' = length'[Name']
      BY <2>4, <3>2
    <3> QED
      BY <1>2, <1>5, <3>1, <3>2, <3>3 DEF Buffer
  <2> QED
    BY <2>1, <2>2, <2>3, <2>5 DEF IInv
<1>6. CASE pc' = "keep"
  <2>1. /\ open[0] # Free /\ error' = "none"
        /\ \E n \in 1 .. Chunk :
             /\ n <= Left
             /\ chunk' = Bytes(open[0].place, n)
             /\ open' = [open EXCEPT ![0].place = @ + n]
    BY <1>2, <1>6 DEF ReadChunk, Throw
  <2>2. PICK n \in 1 .. Chunk :
             /\ n <= Left
             /\ chunk' = Bytes(open[0].place, n)
             /\ open' = [open EXCEPT ![0].place = @ + n]
    BY <2>1
  <2>3. n \in Nat /\ n > 0 /\ n <= Chunk
    BY <1>4
  <2>4. /\ open[0].to = Name /\ open[0].place = d
        /\ Name = Dash => ~Gone(at - 1)
    BY <2>1, <1>1, <1>2, ReadFromName
  <2>5. chunk' \in Seq(Nat) /\ Len(chunk') = n /\ chunk' = Bytes(d, n)
    BY <2>2, <2>3, <2>4, <1>4, BytesProperties
  <2>6. /\ open'[0].to = Name /\ open'[0].place = d + n /\ open'[3] = open[3]
        /\ open' \in [Descs -> Entries]
    BY <2>2, <2>3, <2>4, <1>4 DEF Descs, Entries
  <2>7. open'[0] # Free
    BY <2>3, <2>6, <1>4 DEF Free
  <2>8. Name \notin Devices => d + n <= length[Name]
    <3> SUFFICES ASSUME Name \notin Devices  PROVE d + n <= length[Name]
      OBVIOUS
    <3>1. Name \in Streams
      BY <1>3 DEF FromStdin, FromLow, Streams
    <3>2. length[Name] \in Nat
      BY <3>1, <1>4
    <3>3. n <= length[Name] - d
      BY <2>2, <2>4 DEF Left
    <3> QED
      BY <2>3, <3>2, <3>3, <1>4
  <2>9. Types'
    BY <1>1, <1>2, <1>6, <2>1, <2>3, <2>5, <2>6 DEF Types
  <2>10. Descriptors'
    <3>1. (FromStdin \/ FromLow)'
      BY <1>1, <1>3, <2>4, <2>6 DEF FromStdin, FromLow
    <3> QED
      BY <1>1, <1>2, <1>6, <3>1 DEF Descriptors, InFile
  <2>11. Errors'
    BY <2>1 DEF Errors
  <2>12. Buffer'
    <3>1. Growing'
      BY <1>1, <1>2 DEF Growing, Filled
    <3>2. open'[0].place = d' + Len(chunk') /\ chunk' = Bytes(d', Len(chunk'))
      BY <1>1, <2>5, <2>6
    <3>3. Bytes(d, Len(chunk))' = Bytes(d', Len(chunk'))
      BY DEF Bytes
    <3>4. Name' \notin Devices => open'[0].place <= length'[Name']
      BY <1>1, <2>6, <2>8
    <3> QED
      BY <1>1, <1>2, <1>6, <2>7, <3>1, <3>2, <3>3, <3>4 DEF Buffer
  <2> QED
    BY <2>9, <2>10, <2>11, <2>12 DEF IInv
<1> QED
  BY <1>5, <1>6 DEF ReadChunk, Throw

(* The rest of a turn: the buffer has room for the chunk, and the limit    *)
(* can only be met when the stream has more than MaxSize - Inc bytes.      *)
LEMMA KeepChunkPreserves ==
  ASSUME IInv, KeepChunk  PROVE IInv'
<1>1. /\ UNCHANGED <<args, at, shut, open, length, desc, asked, chunk>>
      /\ pc = "keep"
      /\ Name' = Name /\ Gone(at - 1)' = Gone(at - 1)
  BY DEF KeepChunk, Name, Gone
<1>2. /\ Types /\ desc = 0 /\ error = "none" /\ Growing
      /\ open[0] # Free /\ open[0].place = d + Len(chunk)
      /\ chunk = Bytes(d, Len(chunk))
      /\ Name \notin Devices => open[0].place <= length[Name]
      /\ Len(mem) <= MaxSize /\ d <= Len(mem)
      /\ Name = Dash \/ Gone(at - 1)
  BY <1>1 DEF IInv, Descriptors, Buffer, Errors
<1>3. FromStdin \/ FromLow
  BY <1>1, <1>2 DEF IInv, Descriptors, FromFile, InFile
<1>4. (FromStdin \/ FromLow)'
  BY <1>1, <1>3 DEF FromStdin, FromLow
<1>5. /\ Chunk \in Nat /\ Chunk <= Inc /\ Inc \in Nat /\ MaxSize \in Nat
      /\ d \in Nat /\ mem \in Seq(Nat) /\ chunk \in Seq(Nat)
      /\ Len(mem) \in Nat /\ Len(chunk) \in Nat /\ Len(chunk) <= Chunk
  BY <1>2, SizeAssumption DEF Types
<1>6. CASE pc' = "close"
  <2>1. /\ Len(mem) + Len(chunk) >= MaxSize
        /\ error' = "too large" /\ UNCHANGED <<mem, d>>
    BY <1>6 DEF KeepChunk, Throw
  <2>2. Types'
    BY <1>1, <1>2, <1>6, <2>1 DEF Types
  <2>3. Descriptors'
    BY <1>1, <1>2, <1>4, <1>6 DEF Descriptors, InFile
  <2>4. Buffer'
    BY <1>2, <1>6, <2>1 DEF Buffer
  <2>5. Errors'
    <3>1. ASSUME Name \notin Devices  PROVE length[Name] > MaxSize - Inc
      <4>1. Name \in Streams
        BY <1>3, <3>1 DEF FromStdin, FromLow, Streams
      <4>2. length[Name] \in Nat
        BY <1>2, <4>1 DEF Types
      <4>3. Len(mem) - d < Inc
        BY <1>2 DEF Growing
      <4>4. d + Len(chunk) <= length[Name]
        BY <1>2, <3>1
      <4> QED
        <5>1. Len(mem) + Len(chunk) >= MaxSize
          BY <2>1
        <5> QED
          BY <1>5, <4>2, <4>3, <4>4, <5>1
    <3>2. desc' = 0 /\ length'[Name'] = length[Name] /\ Name' = Name
      BY <1>1, <1>2
    <3>3. Name' \notin Devices => length'[Name'] > MaxSize - Inc
      BY <3>1, <3>2
    <3> QED
      BY <1>6, <3>2, <3>3 DEF Errors
  <2> QED
    BY <2>2, <2>3, <2>4, <2>5 DEF IInv
<1>7. CASE pc' = "exit127"
  <2>1. UNCHANGED <<mem, d, error>>
    BY <1>7 DEF KeepChunk, Throw
  <2>2. Types'
    BY <1>1, <1>2, <1>7, <2>1 DEF Types, Ends
  <2>3. Descriptors'
    BY <1>1, <1>2, <1>7 DEF Descriptors, InFile
  <2>4. Buffer' /\ Errors'
    BY <1>2, <1>7, <2>1 DEF Buffer, Errors
  <2> QED
    BY <2>2, <2>3, <2>4 DEF IInv
<1>8. CASE pc' = "stdin"
  <2> DEFINE n == Len(chunk)
             grows == d + n > Len(mem)
             room == IF grows THEN mem \o Junk(Inc) ELSE mem
  <2>1. /\ Len(mem) + n < MaxSize /\ d' = d + n /\ error' = "none"
        /\ mem' = Copied(room, d, chunk)
    BY <1>2, <1>8 DEF KeepChunk, Throw
  <2>2. /\ room \in Seq(Nat)
        /\ Len(room) = IF grows THEN Len(mem) + Inc ELSE Len(mem)
        /\ \A i \in 1 .. Len(mem) : room[i] = mem[i]
    <3>1. CASE grows
      <4>1. Junk(Inc) \in Seq(Nat) /\ Len(Junk(Inc)) = Inc
        BY <1>5, JunkProperties
      <4>2. /\ mem \o Junk(Inc) \in Seq(Nat)
            /\ Len(mem \o Junk(Inc)) = Len(mem) + Inc
            /\ \A i \in 1 .. Len(mem) : (mem \o Junk(Inc))[i] = mem[i]
        <5>1. /\ mem \o Junk(Inc) \in Seq(Nat)
              /\ Len(mem \o Junk(Inc)) = Len(mem) + Len(Junk(Inc))
              /\ \A i \in 1 .. Len(mem) + Len(Junk(Inc)) :
                   (mem \o Junk(Inc))[i] =
                     IF i <= Len(mem) THEN mem[i] ELSE Junk(Inc)[i - Len(mem)]
          BY <1>5, <4>1, ConcatProperties, Zenon
        <5>2. \A i \in 1 .. Len(mem) : i \in 1 .. Len(mem) + Inc /\ i <= Len(mem)
          BY <1>5
        <5> QED
          BY <4>1, <5>1, <5>2, Zenon
      <4> QED
        BY <3>1, <4>2
    <3>2. CASE ~grows
      BY <1>5, <3>2
    <3> QED
      BY <3>1, <3>2
  <2> HIDE DEF room
  <2>3. /\ Len(room) \in Nat /\ d + n <= Len(room)
        /\ Len(room) - (d + n) < Inc /\ Len(mem) <= Len(room)
    <3>1. Len(mem) - d < Inc
      BY <1>2 DEF Growing
    <3> QED
      BY <1>2, <1>5, <2>2, <3>1
  <2>4. /\ Len(room) <= MaxSize
        /\ \E k \in Nat : Len(room) = k * Inc
    <3>1. PICK k \in Nat : Len(mem) = k * Inc
      BY <1>2 DEF Growing
    <3>2. CASE ~grows
      BY <1>2, <2>2, <3>1, <3>2
    <3>3. CASE grows
      <4>1. k * Inc < MaxSize
        BY <1>5, <2>1, <3>1
      <4>2. (k + 1) * Inc <= MaxSize
        BY <4>1, OneMoreFits
      <4>3. Len(room) = (k + 1) * Inc
        BY <1>5, <2>2, <3>1, <3>3
      <4> QED
        BY <4>2, <4>3
    <3> QED
      BY <3>2, <3>3
  <2>5. /\ mem' \in Seq(Nat) /\ Len(mem') = Len(room)
        /\ \A i \in 1 .. Len(room) :
             mem'[i] = IF i \in d + 1 .. d + n THEN chunk[i - d] ELSE room[i]
    <3>1. /\ Copied(room, d, chunk) \in Seq(Nat)
          /\ Len(Copied(room, d, chunk)) = Len(room)
          /\ \A i \in 1 .. Len(room) :
               Copied(room, d, chunk)[i] =
                 IF i \in d + 1 .. d + Len(chunk) THEN chunk[i - d] ELSE room[i]
      BY <1>5, <2>2, CopiedProperties, ZenonT(30)
    <3> QED
      BY <2>1, <3>1, Zenon
  <2>6. \A i \in 1 .. d + n : mem'[i] = i
    <3> SUFFICES ASSUME NEW i \in 1 .. d + n  PROVE mem'[i] = i
      OBVIOUS
    <3>1. i \in 1 .. Len(room)
      BY <1>5, <2>3
    <3>2. CASE i \in 1 .. d
      <4>1. i \notin d + 1 .. d + n /\ i \in 1 .. Len(mem)
        BY <1>2, <1>5, <3>2
      <4>2. mem'[i] = mem[i]
        BY <2>2, <2>5, <3>1, <4>1
      <4>3. mem[i] = i
        BY <1>2, <3>2 DEF Growing, Filled
      <4> QED
        BY <4>2, <4>3
    <3>3. CASE i \in d + 1 .. d + n
      <4>1. i - d \in 1 .. n /\ d + (i - d) = i
        BY <1>5, <3>3
      <4>2. chunk[i - d] = d + (i - d)
        <5>1. \A j \in 1 .. n : Bytes(d, n)[j] = d + j
          BY <1>5, BytesProperties
        <5> QED
          BY <1>2, <4>1, <5>1
      <4>3. mem'[i] = chunk[i - d]
        BY <2>5, <3>1, <3>3
      <4> QED
        BY <4>1, <4>2, <4>3
    <3> QED
      BY <1>5, <3>2, <3>3
  <2>7. d' \in Nat /\ d' <= Len(mem') /\ Len(mem') <= MaxSize
    BY <1>5, <2>1, <2>3, <2>4, <2>5
  <2>8. Types'
    BY <1>1, <1>2, <1>8, <2>1, <2>5, <2>7 DEF Types
  <2>9. Descriptors'
    BY <1>1, <1>2, <1>4, <1>8 DEF Descriptors, InFile
  <2>10. Errors'
    BY <2>1 DEF Errors
  <2>11. Growing'
    <3>1. Filled(d)'
      BY <2>1, <2>6, <2>7 DEF Filled
    <3>2. Len(mem') - d' < Inc /\ \E k \in Nat : Len(mem') = k * Inc
      BY <2>1, <2>3, <2>4, <2>5
    <3> QED
      BY <2>7, <3>1, <3>2 DEF Growing
  <2>12. Buffer'
    <3>1. open'[0].place = d'
      BY <1>1, <1>2, <2>1
    <3> QED
      BY <1>8, <2>7, <2>11, <3>1 DEF Buffer
  <2> QED
    BY <2>8, <2>9, <2>10, <2>12 DEF IInv
<1> QED
  BY <1>6, <1>7, <1>8 DEF KeepChunk, Throw

(* file_t::~file_t: it aborts only when `-' was read without a standard    *)
(* input, as every other input has a descriptor of its own.                *)
LEMMA ClosePreserves ==
  ASSUME IInv, Close  PROVE IInv'
<1>1. /\ UNCHANGED <<args, at, shut, length, desc, asked, chunk, mem, d, error>>
      /\ pc = "close"
      /\ Name' = Name /\ Gone(at - 1)' = Gone(at - 1) /\ Gone(at)' = Gone(at)
  BY DEF Close, buffer, Name, Gone
<1>2. /\ FromStdin \/ FromLow \/ FromFile
      /\ Types /\ open \in [Descs -> Entries]
      /\ desc = 0 => Name = Dash \/ Gone(at - 1)
  BY <1>1 DEF IInv, Types, Descriptors, InFile
<1>3. /\ Name \in Regulars \cup Devices => Name # Dash /\ Name # "nothing"
      /\ Dash # "nothing"
  BY SizeAssumption DEF Names, Dash
<1>4. Gone(at) <=> Gone(at - 1) \/ Name = Dash
  <2>1. at \in Nat /\ at >= 1
    <3>1. args \in Seq(Names \cup {Dash}) /\ at \in 1 .. Len(args)
      BY <1>2 DEF Types
    <3> QED
      BY <3>1
  <2>2. \A i : i \in 1 .. at <=> i \in 1 .. at - 1 \/ i = at
    BY <2>1
  <2> QED
    BY <2>2, Zenon DEF Gone, Name
<1>5. pc' \in {"parse", "exit1", "abort"}
  BY DEF Close
<1>6. open' \in [Descs -> Entries]
  BY <1>1, <1>2 DEF Close, Descs, Entries, Free, FromStdin, FromLow, FromFile
<1>7. Types'
  BY <1>1, <1>2, <1>5, <1>6 DEF Types, Ends
<1>8. Descriptors'
  <2>1. CASE open[desc] = Free
    <3>1. pc' = "abort" /\ open' = open
      BY <2>1 DEF Close
    <3>2. Name = Dash /\ Gone(at - 1)
      BY <1>2, <1>3, <2>1 DEF FromStdin, FromLow, FromFile, Free
    <3> QED
      BY <1>1, <3>1, <3>2 DEF Descriptors, InFile
  <2>2. CASE open[desc] # Free
    <3>1. /\ pc' \in {"parse", "exit1"} /\ desc \in Descs
          /\ open' = [open EXCEPT ![desc] = Free]
      BY <1>2, <2>2 DEF Close, FromStdin, FromLow, FromFile, Descs
    <3>2. Name = Dash => ~Gone(at - 1)
      BY <1>1, <2>2, ReadFromName
    <3>3. /\ open'[0] = IF Gone(at) THEN Free ELSE Opened(Dash)
          /\ open'[3] = Free
      <4>1. CASE desc = 0
        <5>1. Gone(at) /\ open[3] = Free
          BY <1>2, <1>4, <4>1 DEF FromStdin, FromLow, FromFile
        <5> QED
          BY <1>2, <3>1, <4>1, <5>1 DEF Descs
      <4>2. CASE desc = 3
        <5>1. ~Gone(at) /\ open[0] = Opened(Dash)
          BY <1>2, <1>3, <1>4, <4>2 DEF FromStdin, FromLow, FromFile
        <5> QED
          BY <1>2, <3>1, <4>2, <5>1 DEF Descs
      <4> QED
        BY <3>1, <4>1, <4>2 DEF Descs
    <3>4. Between(at)' /\ \A f \in Descs : open'[f] \in {Free, Opened(Dash)}
      BY <1>1, <3>3 DEF Between, Descs, Free, Opened
    <3> QED
      BY <1>1, <1>2, <3>1, <3>2, <3>4 DEF Descriptors, InFile, Free, Opened
  <2> QED
    BY <2>1, <2>2
<1>9. Buffer'
  <2>1. error' = "none" => Filled(d)' /\ d' = IF desc' = 0 THEN length'[Name'] ELSE asked'
    BY <1>1 DEF IInv, Buffer, Filled
  <2>2. (error' = "none" /\ desc' = 3) => Name' \in Regulars
    BY <1>1 DEF IInv, Buffer
  <2>3. d' <= Len(mem') /\ Len(mem') <= MaxSize
    BY <1>1 DEF IInv, Buffer
  <2> QED
    BY <1>5, <2>1, <2>2, <2>3 DEF Buffer
<1>10. Errors'
  <2>1. pc' = "parse" => error' = "none"
    BY <1>1 DEF Close
  <2>2. error' = "too large" =>
          IF desc' = 0 THEN Name' \notin Devices => length'[Name'] > MaxSize - Inc
                       ELSE Name' \in Regulars /\ length'[Name'] > MaxSize
    BY <1>1 DEF IInv, Errors
  <2> QED
    BY <1>5, <2>1, <2>2 DEF Errors
<1> QED
  BY <1>7, <1>8, <1>9, <1>10 DEF IInv

(* The next input finds the descriptors as the first one did.              *)
LEMMA NextInputPreserves ==
  ASSUME IInv, NextInput  PROVE IInv'
<1>1. /\ UNCHANGED <<args, shut, open, length, error>> /\ pc = "parse"
  BY DEF NextInput
<1>2. Types /\ Between(at) /\ error = "none"
  BY <1>1 DEF IInv, Descriptors, Errors
<1>3. CASE pc' = "open"
  <2>1. /\ at < Len(args) /\ at' = at + 1
        /\ desc' = -1 /\ asked' = 0 /\ chunk' = <<>> /\ mem' = <<>> /\ d' = 0
    BY <1>3 DEF NextInput
  <2>2. at \in Nat /\ at' \in 1 .. Len(args) /\ at' - 1 = at
    BY <1>2, <2>1 DEF Types
  <2>3. /\ chunk' \in Seq(Nat) /\ mem' \in Seq(Nat) /\ Len(mem') = 0
        /\ 0 <= MaxSize /\ Len(chunk') <= Chunk
    BY <2>1, SizeAssumption
  <2>4. Types'
    BY <1>1, <1>2, <1>3, <2>1, <2>2, <2>3 DEF Types
  <2>5. Between(at - 1)'
    BY <1>1, <1>2, <2>2 DEF Between, Gone
  <2>6. Descriptors'
    BY <1>3, <2>1, <2>5 DEF Descriptors, InFile
  <2>7. Buffer' /\ Errors'
    BY <1>1, <1>2, <1>3, <2>1, <2>3 DEF Buffer, Errors
  <2> QED
    BY <2>4, <2>6, <2>7 DEF IInv
<1>4. CASE pc' \in {"exit0", "exit1"}
  <2>1. /\ UNCHANGED <<at, desc, asked, chunk, mem, d>>
        /\ Name' = Name /\ Gone(at - 1)' = Gone(at - 1)
    BY <1>1, <1>4 DEF NextInput, buffer, Name, Gone
  <2>2. Types'
    BY <1>1, <1>2, <1>4, <2>1 DEF Types, Ends
  <2>3. \A f \in Descs : open'[f] \in {Free, Opened(Dash)}
    BY <1>1, <1>2 DEF Between, Descs
  <2>4. desc' = 0 => Name' = Dash \/ Gone(at - 1)'
    BY <2>1 DEF IInv, Descriptors
  <2>5. Descriptors'
    BY <1>4, <2>3, <2>4 DEF Descriptors, InFile
  <2>6. d' <= Len(mem') /\ Len(mem') <= MaxSize
    BY <2>1 DEF IInv, Buffer
  <2>7. Buffer' /\ Errors'
    BY <1>1, <1>2, <1>4, <2>6 DEF Buffer, Errors
  <2> QED
    BY <2>2, <2>5, <2>7 DEF IInv
<1> QED
  BY <1>3, <1>4 DEF NextInput

LEMMA StutterPreserves ==
  ASSUME IInv, UNCHANGED vars  PROVE IInv'
<1> USE DEF vars, buffer
<1>1. Types'
  BY DEF IInv, Types
<1>2. Descriptors'
  <2>1. Name' = Name /\ Gone(at - 1)' = Gone(at - 1) /\ Gone(at)' = Gone(at)
    BY DEF Name, Gone
  <2> QED
    BY <2>1 DEF IInv, Descriptors, FromStdin, FromLow, FromFile, Between, InFile
<1>3. Buffer' /\ Errors'
  BY DEF IInv, Buffer, Errors, Growing, Filled, Name, Bytes
<1> QED
  BY <1>1, <1>2, <1>3 DEF IInv

(* The inductive invariant: how the descriptors, the buffer and the errors *)
(* of file_t stand at each of its steps.                                   *)
THEOREM InductiveInvariant == Spec => []IInv
<1>1. ASSUME IInv, [Next]_vars  PROVE IInv'
  <2>1. CASE Open
    BY <1>1, <2>1, OpenPreserves
  <2>2. CASE Read
    BY <1>1, <2>2, ReadPreserves
  <2>3. CASE Stat
    BY <1>1, <2>3, StatPreserves
  <2>4. CASE ReadRegular
    BY <1>1, <2>4, ReadRegularPreserves
  <2>5. CASE ReadChunk
    BY <1>1, <2>5, ReadChunkPreserves
  <2>6. CASE KeepChunk
    BY <1>1, <2>6, KeepChunkPreserves
  <2>7. CASE Close
    BY <1>1, <2>7, ClosePreserves
  <2>8. CASE NextInput
    BY <1>1, <2>8, NextInputPreserves
  <2>9. CASE ChangeFile
    BY <1>1, <2>9, ChangeFilePreserves
  <2>10. CASE UNCHANGED vars
    BY <1>1, <2>10, StutterPreserves
  <2> QED
    BY <1>1, <2>1, <2>2, <2>3, <2>4, <2>5, <2>6, <2>7, <2>8, <2>9, <2>10
    DEF Next, Step
<1> QED
  BY <1>1, InitEstablishes, PTL DEF Spec

-----------------------------------------------------------------------------
(* Every variable keeps to its type, in every run.                         *)
THEOREM TypeCorrect == Spec => []TypeOK
<1>1. ASSUME IInv  PROVE TypeOK
  <2>1. Types /\ MaxSize \in Nat
    BY <1>1, SizeAssumption DEF IInv
  <2>2. at \in DOMAIN args
    <3>1. args \in Seq(Names \cup {Dash}) /\ at \in 1 .. Len(args)
      BY <2>1 DEF Types
    <3> QED
      BY <3>1
  <2>3. \A f \in Descs : open[f].to \in Names \cup {Dash, "nothing"} /\ open[f].place \in Nat
    BY <2>1 DEF Types, Entries
  <2>4. asked \in 0 .. MaxSize
    <3>1. asked \in Nat /\ asked <= MaxSize
      BY <2>1 DEF Types
    <3> QED
      BY <2>1, <3>1
  <2> QED
    BY <2>1, <2>2, <2>3, <2>4 DEF Types, TypeOK
<1> QED
  BY <1>1, InductiveInvariant, PTL

(* read_stdin and read_regular never write past the buffer, and the buffer *)
(* never outgrows the limit, for any limit, increment and chunk.           *)
THEOREM BufferIsSafe == Spec => []StaysInBuffer
<1>1. ASSUME IInv  PROVE StaysInBuffer
  BY <1>1 DEF IInv, Buffer, StaysInBuffer
<1> QED
  BY <1>1, InductiveInvariant, PTL

(* The parser gets every byte of its input once and in order, whatever the *)
(* pieces the reads give and whatever happens to a file meanwhile.         *)
THEOREM InputIsWhole == Spec => []HoldsInput
<1>1. ASSUME IInv, pc = "parse"
      PROVE  Text = Bytes(0, d) /\ d = IF desc = 0 THEN length[Name] ELSE asked
  <2>1. /\ error = "none" /\ Filled(d) /\ mem \in Seq(Nat) /\ d \in Nat
        /\ d = IF desc = 0 THEN length[Name] ELSE asked
    BY <1>1 DEF IInv, Types, Buffer, Errors
  <2>2. d <= Len(mem) /\ \A i \in 1 .. d : mem[i] = i
    BY <2>1 DEF Filled
  <2>3. Text = [i \in 1 .. d |-> mem[i]]
    BY <2>1, <2>2 DEF Text
  <2>4. Bytes(0, d) = [i \in 1 .. d |-> i]
    BY <2>1 DEF Bytes
  <2> QED
    BY <2>1, <2>2, <2>3, <2>4
<1>2. ASSUME IInv  PROVE HoldsInput
  BY <1>1, <1>2 DEF HoldsInput
<1> QED
  BY <1>2, InductiveInvariant, PTL

(* An input that is refused as too large is: but for the last increment,   *)
(* when it is read as a stream.                                            *)
THEOREM RefusalIsRight == Spec => []RefusedAreLarge
<1>1. ASSUME IInv  PROVE RefusedAreLarge
  BY <1>1 DEF IInv, Errors, RefusedAreLarge
<1> QED
  BY <1>1, InductiveInvariant, PTL

(* Nothing but a `-' without a standard input makes the destructor throw.  *)
THEOREM AbortIsMissingStdin == Spec => []AbortsWithoutStdin
<1>1. ASSUME IInv  PROVE AbortsWithoutStdin
  BY <1>1 DEF IInv, Descriptors, AbortsWithoutStdin, StdinGone, Gone
<1> QED
  BY <1>1, InductiveInvariant, PTL

(* No input leaves a descriptor open behind it, and no error does.         *)
THEOREM NothingLeftOpen == Spec => []DescriptorsClosed
<1>1. ASSUME IInv  PROVE DescriptorsClosed
  BY <1>1 DEF IInv, Descriptors, Between, DescriptorsClosed, Descs
<1> QED
  BY <1>1, InductiveInvariant, PTL

(* While the standard input is there, a named input that is not a regular  *)
(* file is never parsed, nor one that is refused for its size.             *)
THEOREM OnlyRegularNamed == Spec => []NamedAreRegular
<1>1. ASSUME IInv  PROVE NamedAreRegular
  <2> SUFFICES ASSUME ~Gone(at - 1), Name # Dash
               PROVE  /\ desc # 0
                      /\ error = "too large" => Name \in Regulars
                      /\ pc = "parse" => Name \in Regulars
    BY DEF NamedAreRegular, StdinGone, Gone
  <2>1. desc # 0
    BY <1>1 DEF IInv, Descriptors
  <2>2. error = "too large" => Name \in Regulars
    BY <1>1, <2>1 DEF IInv, Errors
  <2>3. ASSUME pc = "parse"  PROVE Name \in Regulars
    <3>1. desc = 3 /\ error = "none"
      BY <1>1, <2>1, <2>3 DEF IInv, Descriptors, Descs, Errors
    <3> QED
      BY <1>1, <2>3, <3>1 DEF IInv, Buffer
  <2> QED
    BY <2>1, <2>2, <2>3
<1> QED
  BY <1>1, InductiveInvariant, PTL

(* The three together: descriptor 0 is what `-' names as long as there is  *)
(* one, nothing else aborts the program, and nothing stays open.           *)
THEOREM DescriptorsAreRight == Spec => []DescriptorsRight
<1>1. NamedAreRegular /\ AbortsWithoutStdin /\ DescriptorsClosed => DescriptorsRight
  BY DEF DescriptorsRight
<1> QED
  BY <1>1, OnlyRegularNamed, AbortIsMissingStdin, NothingLeftOpen, PTL
=============================================================================
