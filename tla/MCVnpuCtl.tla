------------------------------ MODULE MCVnpuCtl ------------------------------
(* Instances of VnpuCtl for TLC. *)
EXTENDS VnpuCtl

CONSTANTS j0, a

List(values) == [numeric |-> TRUE, values |-> values]
NoList == List(<<>>)

Command(command, path, input_a, input_b, timeout, fault) ==
  [command |-> command, path |-> path, input_a |-> input_a, input_b |-> input_b,
   timeout_ms |-> timeout, fault |-> fault]

Node == "/dev/vnpu0"
Plain(command) == Command(command, Node, NoList, NoList, 0, "")
Inject(fault) == Command("inject-fault", Node, NoList, NoList, 0, fault)
Dot(input_a, input_b, timeout) == Command("run-dot", Node, input_a, input_b, timeout, "")

\* The extremes of every product and sum, and a vector that tells the lanes, the
\* order of the words and the signs apart.
Lowest == List(<<-128, -128, -128, -128, -128, -128, -128, -128>>)
Mixed == List(<<-128, 127, -1, 0, 1, 127, -128, 5>>)
Other == List(<<127, 127, -1, 5, -128, -128, -128, -7>>)

\* Out of range, too short, not integers.
Beyond == List(<<0, 0, 0, 128, 0, 0, 0, 0>>)
Short == List(<<1, 2, 3, 4, 5, 6, 7>>)
Words == [numeric |-> FALSE, values |-> <<>>]

MCGood == {Dot(Lowest, Lowest, 255), Dot(Mixed, Other, 1000)}

MCCommands ==
  MCGood
    \cup {Dot(Mixed, Other, timeout) : timeout \in {-1, 0, 1001}}
    \cup {Dot(Beyond, Mixed, 255), Dot(Mixed, Short, 255), Dot(Words, Mixed, 255)}
    \cup {Plain(c) : c \in {"info", "reset", "stats", "clear-faults"}}
    \cup {Inject(fault) : fault \in {"irq-drop", "stuck-busy", "corrupt-result",
                                     "force-error", "none", ""}}
    \cup {Command("reset", "/dev/null", NoList, NoList, 0, "")}

\* What the HAL would send of every run-dot that parses, rejected by it or not.
MCRequests ==
  {BuildRequest(A(c), B(c), c.timeout_ms) :
     c \in {d \in MCCommands : d.command = "run-dot" /\ ParsesRunDot(d)}}
MCZero == [lane \in Lane |-> 0]
MCZeroWord == [a |-> MCZero, b |-> MCZero]
MCWord == {MCZeroWord} \cup {r.input[i] : r \in MCRequests, i \in WordIndex}
MCMasks == {FaultType[type] : type \in DOMAIN FaultType}
MCJobId == {j0}
MCThread == {a}
=============================================================================
