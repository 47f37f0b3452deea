----------------------------- MODULE Calculation -----------------------------
(***************************************************************************)
(* One call of the calculator from the keyboard to the printed result:     *)
(* what is typed, how it travels, the arithmetic of DoCal.  The programs:  *)
(*   "fixed"  chapter05/demo-02: the client types into a buffer with a     *)
(*            fixed layout, operator, count, operands, and writes it; the  *)
(*            server reads the count to know what else to read             *)
(*   "pb"     chapter05/demo-03 to chapter12: a protobuf message, which    *)
(*            carries operator and operands whole, behind a header         *)
(*   "udp"    chapter06/demo-02: the same in datagrams                     *)
(* How a message of "pb" or "udp" is cut and framed is left to CalConn and *)
(* Udp.                                                                    *)
(*                                                                         *)
(* An int has WordSz bytes of Base values each, and wraps: the programs    *)
(* are built for machines whose add, sub and imul do, and whose idiv traps *)
(* on a quotient that does not exist.                                      *)
(***************************************************************************)
EXTENDS Integers, Sequences

CONSTANTS
  WordSz,    \* REQ_OPND_NUM_SZ, REQ_OPND_SZ, RES_RESULT_SZ: size of an int
  Base,      \* how many values a byte has
  MaxOpnds,  \* how many operands the buffer of "fixed" has room for
  Programs,  \* which of the programs
  Operators, \* what the user may type as operator; "?" is any other character
  Counts,    \* what the user may type as number of operands
  Operands,  \* what the user may type as operand
  Unwritten, \* a byte of a buffer that nobody has written
  None       \* nothing yet

VARIABLES
  program,
  cpc,      \* where the client is
  optr,     \* the operator typed
  opnds,    \* the operands typed
  count,    \* opnd_cnt of MakeReq
  buf,      \* buf of the "fixed" client
  wire,     \* what has been sent to the server: bytes, or a message
  spc,      \* where the server is
  opnd_num, \* how many operands do_read_buf has yet to read
  req,      \* the operator and the operands the server has
  i,        \* the loop index of DoCal
  res,      \* res in do_cal, ret in DoCal, tmp in MakeRes
  shown     \* what the client printed

typedVars == <<optr, opnds, count, buf>>
serverVars == <<spc, opnd_num, req, i, res>>
vars == <<program, cpc, typedVars, wire, serverVars, shown>>

(* Integers of the machine *)

Power[k \in 0 .. WordSz] == IF k = 0 THEN 1 ELSE Base * Power[k - 1]

Modulus == Power[WordSz]
MaxInt == (Modulus \div 2) - 1
MinInt == - (Modulus \div 2)
Ints == MinInt .. MaxInt
Bytes == 0 .. Base - 1

\* A byte has an even number of values, what is typed are ints, and nobody
\* announces more operands than the buffers have room for.
ASSUME CalculationAssumption ==
  /\ WordSz \in Nat \ {0} /\ Base \in Nat \ {0} /\ Base % 2 = 0
  /\ MaxOpnds \in Nat
  /\ Programs \subseteq {"fixed", "pb", "udp"}
  /\ Operators \subseteq {"+", "-", "*", "/", "?"}
  /\ Counts \subseteq Ints /\ \A n \in Counts : n <= MaxOpnds
  /\ Operands \subseteq Ints
  /\ None \notin Ints

\* The int with the bits of n.
Wrap(n) == ((n - MinInt) % Modulus) + MinInt

Abs(n) == IF n < 0 THEN - n ELSE n

\* C++'s quotient, rounded toward zero.
Quotient(a, b) ==
  IF (a < 0) = (b < 0) THEN Abs(a) \div Abs(b) ELSE - (Abs(a) \div Abs(b))

\* The bytes of an int, least significant first, and the int of WordSz bytes.
BytesOf(n) == [k \in 1 .. WordSz |-> ((n % Modulus) \div Power[k - 1]) % Base]
Values(s) ==
  LET value[k \in 0 .. WordSz] ==
        IF k = 0 THEN 0 ELSE value[k - 1] + s[k] * Power[k - 1]
  IN  value
IntOf(s) == Wrap(Values(s)[WordSz])

\* The layout of the request of "fixed".
OPTR_SZ == 1
HeadSz == OPTR_SZ + WordSz
OpndAt(k) == HeadSz + (k - 1) * WordSz
\* BUF_SZ, less the bytes at its end that are too few for another operand.
BufSz == OpndAt(MaxOpnds + 1)

\* scanf("%d") to an offset of the buffer.
Stored(b, off, n) ==
  [k \in DOMAIN b |-> IF k \in off + 1 .. off + WordSz THEN BytesOf(n)[k - off] ELSE b[k]]
IntAt(b, off) == IntOf(SubSeq(b, off + 1, off + WordSz))

TypeOK ==
  /\ program \in Programs
  /\ cpc \in {"optr", "count", "opnds", "wait", "done", "gone"}
  /\ optr \in Operators \cup {None}
  /\ opnds \in Seq(Operands)
  /\ count \in Counts \cup {0}
  /\ buf = [k \in 1 .. BufSz |-> buf[k]]
  /\ buf[1] \in Operators \cup {Unwritten}
  /\ \A k \in 2 .. BufSz : buf[k] \in Bytes \cup {Unwritten}
  /\ Len(wire) <= BufSz
  /\ spc \in {"recvHead", "recvBody", "do", "loop", "reply", "closed", "dead"}
  /\ opnd_num \in Ints
  /\ req \in [optr : Operators \cup {None}, opnds : Seq(Ints)]
  /\ i \in Nat
  /\ res \in Ints
  /\ shown \in Ints \cup {None}

Init ==
  /\ program \in Programs
  /\ cpc = "optr"
  /\ optr = None /\ opnds = <<>> /\ count = 0
  /\ buf = [k \in 1 .. BufSz |-> Unwritten]
  /\ wire = <<>>
  /\ spc = "recvHead"
  /\ opnd_num = 0
  /\ req = [optr |-> None, opnds |-> <<>>]
  /\ i = 0
  /\ res = 0
  /\ shown = None

-----------------------------------------------------------------------------
(* The client: do_input, MakeReq *)

TypeOptr ==
  /\ cpc = "optr"
  /\ \E o \in Operators :
       /\ optr' = o
       /\ buf' = IF program = "fixed" THEN [buf EXCEPT ![1] = o] ELSE buf
  /\ cpc' = "count"
  /\ UNCHANGED <<program, opnds, count, wire, serverVars, shown>>

TypeCount ==
  /\ cpc = "count"
  /\ \E n \in Counts :
       /\ count' = n
       /\ buf' = IF program = "fixed" THEN Stored(buf, OPTR_SZ, n) ELSE buf
  /\ cpc' = "opnds"
  /\ UNCHANGED <<program, optr, opnds, wire, serverVars, shown>>

\* The bound of the loop over the operands; "fixed" has it in the buffer that
\* the operands are typed into.
Bound == IF program = "fixed" THEN IntAt(buf, OPTR_SZ) ELSE count

TypeOpnd ==
  /\ cpc = "opnds"
  /\ Len(opnds) < Bound
  /\ \E n \in Operands :
       /\ opnds' = Append(opnds, n)
       /\ buf' = IF program = "fixed" THEN Stored(buf, OpndAt(Len(opnds) + 1), n) ELSE buf
  /\ UNCHANGED <<program, cpc, optr, count, wire, serverVars, shown>>

\* write() of nsend bytes; with a negative nsend it fails, and nothing is
\* written.  A message has the operands that were added.
Send ==
  /\ cpc = "opnds"
  /\ Len(opnds) >= Bound
  /\ wire' = IF program = "fixed"
             THEN SubSeq(buf, 1, OpndAt(Bound + 1))
             ELSE <<optr>> \o opnds
  /\ cpc' = "wait"
  /\ UNCHANGED <<program, typedVars, serverVars, shown>>

\* The user kills the client; what it wrote has been written.
Vanish ==
  /\ program = "fixed"
  /\ cpc \in {"optr", "count", "opnds", "wait"}
  /\ cpc' = "gone"
  /\ UNCHANGED <<program, typedVars, wire, serverVars, shown>>

-----------------------------------------------------------------------------
(* The server: do_read_buf, RecvReq *)

\* The first io_read_n, and opnd_arr.resize().
ReadHead ==
  /\ program = "fixed"
  /\ spc = "recvHead"
  /\ Len(wire) >= HeadSz
  /\ req' = [req EXCEPT !.optr = wire[1]]
  /\ opnd_num' = IntAt(wire, OPTR_SZ)
  /\ spc' = "recvBody"
  /\ UNCHANGED <<program, cpc, typedVars, wire, i, res, shown>>

\* Faulty variant of ReadBody: waits for one operand more than was announced.
ReadBodyOver ==
  /\ spc = "recvBody"
  /\ Len(wire) >= OpndAt(opnd_num + 2)
  /\ req' = [req EXCEPT !.opnds = [k \in 1 .. opnd_num |-> IntAt(wire, OpndAt(k))]]
  /\ spc' = "do"
  /\ UNCHANGED <<program, cpc, typedVars, wire, opnd_num, i, res, shown>>

\* The second io_read_n, and the operands taken from the buffer.
ReadBody ==
  /\ spc = "recvBody"
  /\ Len(wire) >= OpndAt(opnd_num + 1)
  /\ req' = [req EXCEPT !.opnds = [k \in 1 .. opnd_num |-> IntAt(wire, OpndAt(k))]]
  /\ spc' = "do"
  /\ UNCHANGED <<program, cpc, typedVars, wire, opnd_num, i, res, shown>>

\* The client has gone before the head was complete, and do_read_buf goes on
\* with what the stack held: resize() throws, DoCal traps or a result is written
\* to nobody.
ReadGarbage ==
  /\ program = "fixed"
  /\ spc = "recvHead"
  /\ cpc = "gone" /\ Len(wire) < HeadSz
  /\ spc' \in {"dead", "closed"}
  /\ UNCHANGED <<program, cpc, typedVars, wire, opnd_num, req, i, res, shown>>

ReadMessage ==
  /\ program # "fixed"
  /\ spc = "recvHead"
  /\ wire # <<>>
  /\ req' = [optr |-> Head(wire), opnds |-> Tail(wire)]
  /\ spc' = "do"
  /\ UNCHANGED <<program, cpc, typedVars, wire, opnd_num, i, res, shown>>

-----------------------------------------------------------------------------
(* The server: do_cal, DoCal, MakeRes *)

\* Faulty variant of DoCal: the loop begins with the first operand.
DoCalFromFirst ==
  /\ spc = "do"
  /\ LET sz == Len(req.opnds)
         known == req.optr \in {"+", "-", "*", "/"}
     IN /\ res' = IF sz = 0 \/ (sz > 1 /\ ~ known /\ program = "pb")
                  THEN 0
                  ELSE req.opnds[1]
        /\ i' = 0
        /\ spc' = IF sz > 1 /\ known THEN "loop" ELSE "reply"
  /\ UNCHANGED <<program, cpc, typedVars, wire, opnd_num, req, shown>>

\* The result of one operand or none; for more, the loop of the operator.  No
\* case of the switch: "pb" leaves result unset, which is read as zero.
DoCal ==
  /\ spc = "do"
  /\ LET sz == Len(req.opnds)
         known == req.optr \in {"+", "-", "*", "/"}
     IN /\ res' = IF sz = 0 \/ (sz > 1 /\ ~ known /\ program = "pb")
                  THEN 0
                  ELSE req.opnds[1]
        /\ i' = 1
        /\ spc' = IF sz > 1 /\ known THEN "loop" ELSE "reply"
  /\ UNCHANGED <<program, cpc, typedVars, wire, opnd_num, req, shown>>

Operand == req.opnds[i + 1]

\* idiv has no quotient to deliver: SIGFPE.
Traps ==
  /\ req.optr = "/"
  /\ Operand = 0 \/ (res = MinInt /\ Operand = -1)

\* Faulty variant of Step: the result is as wide as it needs to be.
StepWide ==
  /\ spc = "loop"
  /\ i < Len(req.opnds)
  /\ ~ Traps
  /\ res' = CASE req.optr = "+" -> res + Operand
              [] req.optr = "-" -> res - Operand
              [] req.optr = "*" -> res * Operand
              [] req.optr = "/" -> Quotient(res, Operand)
  /\ i' = i + 1
  /\ UNCHANGED <<program, cpc, typedVars, wire, spc, opnd_num, req, shown>>

\* One round of the loop.
Step ==
  /\ spc = "loop"
  /\ i < Len(req.opnds)
  /\ ~ Traps
  /\ res' = Wrap(CASE req.optr = "+" -> res + Operand
                   [] req.optr = "-" -> res - Operand
                   [] req.optr = "*" -> res * Operand
                   [] req.optr = "/" -> Quotient(res, Operand))
  /\ i' = i + 1
  /\ UNCHANGED <<program, cpc, typedVars, wire, spc, opnd_num, req, shown>>

LoopEnds ==
  /\ spc = "loop"
  /\ i >= Len(req.opnds)
  /\ spc' = "reply"
  /\ UNCHANGED <<program, cpc, typedVars, wire, opnd_num, req, i, res, shown>>

Die ==
  /\ spc = "loop"
  /\ i < Len(req.opnds)
  /\ Traps
  /\ spc' = "dead"
  /\ UNCHANGED <<program, cpc, typedVars, wire, opnd_num, req, i, res, shown>>

\* The result is written, read and printed.
Reply ==
  /\ spc = "reply"
  /\ spc' = "closed"
  /\ IF cpc = "wait"
     THEN cpc' = "done" /\ shown' = res
     ELSE UNCHANGED <<cpc, shown>>
  /\ UNCHANGED <<program, typedVars, wire, opnd_num, req, i, res>>

\* The server has died, io_read_n returns at once and res is still zero.
ShowNothing ==
  /\ program = "fixed"
  /\ spc = "dead"
  /\ cpc = "wait"
  /\ cpc' = "done"
  /\ shown' = 0
  /\ UNCHANGED <<program, typedVars, wire, serverVars>>

ServerStep ==
  \/ ReadHead
  \/ ReadBody
  \/ ReadGarbage
  \/ ReadMessage
  \/ DoCal
  \/ Step
  \/ LoopEnds
  \/ Die
  \/ Reply

UserTypes == TypeOptr \/ TypeCount \/ TypeOpnd

Next == UserTypes \/ Send \/ Vanish \/ ServerStep \/ ShowNothing

Spec == Init /\ [][Next]_vars

\* Nothing makes the user type; all else goes on.
FairSpec == Spec /\ WF_vars(Send) /\ WF_vars(ServerStep) /\ WF_vars(ShowNothing)

-----------------------------------------------------------------------------
(* Properties *)

\* The sum and the product of the first k numbers of a sequence, and of all.
Sums(s) ==
  LET sum[k \in 0 .. Len(s)] == IF k = 0 THEN 0 ELSE sum[k - 1] + s[k]
  IN  sum
Products(s) ==
  LET product[k \in 0 .. Len(s)] == IF k = 0 THEN 1 ELSE product[k - 1] * s[k]
  IN  product
Sum(s) == Sums(s)[Len(s)]
Product(s) == Products(s)[Len(s)]

\* The result as one would define it: the exact value of the whole expression,
\* cut to an int once.  An operator no program knows is not defined; the programs
\* do not agree on it.
Expected(o, s) ==
  IF s = <<>> THEN 0
  ELSE IF Len(s) = 1 THEN s[1]
  ELSE CASE o = "+" -> Wrap(s[1] + Sum(Tail(s)))
         [] o = "-" -> Wrap(s[1] - Sum(Tail(s)))
         [] o = "*" -> Wrap(s[1] * Product(Tail(s)))
         [] o = "/" -> Quotient(s[1], Product(Tail(s)))

\* A division has no result: by zero, or of the least int by minus one.
Undefined(o, s) ==
  /\ o = "/" /\ Len(s) > 1
  /\ \/ Product(Tail(s)) = 0
     \/ s[1] = MinInt /\ \E k \in 2 .. Len(s) : s[k] = -1 /\ \A j \in 2 .. k - 1 : s[j] = 1

\* What a client prints is the value of the expression its user typed, for every
\* program and although each operation wraps or rounds by itself; zero when the
\* server has died.
OwnResult ==
  shown # None /\ (optr # "?" \/ Len(opnds) < 2) =>
    shown = IF spc = "dead" THEN 0 ELSE Expected(optr, opnds)

\* The server ends only when the user asked for a division without a result,
\* or was gone before the request was sent.
TrapExplained ==
  spc = "dead" => Undefined(optr, opnds) \/ (cpc = "gone" /\ Len(wire) < HeadSz)

\* A call that was sent comes to an end, except that of a negative count of
\* operands in the fixed layout: then fewer bytes than the head are sent, the
\* server waits for the rest, the client for the result.
CallEnds ==
  cpc = "wait" ~> \/ cpc # "wait"
                  \/ spc = "dead"
                  \/ program = "fixed" /\ count < 0
=============================================================================
