----------------------------- MODULE MCBootstrap -----------------------------
(* Machines around the thresholds of the catalogue. *)
EXTENDS Bootstrap

Gpu(m)  == [kind |-> "DiscreteGpu", memory |-> m]
Uma(m)  == [kind |-> "IntegratedUma", memory |-> m]
Cpu(m)  == [kind |-> "CpuMatrixExtension", memory |-> m]

Machine(planes, total, available) ==
    [planes |-> planes, total |-> total, available |-> available]

(* VRAM whose 85% lie at a threshold of a plan, in tenths of a GiB, and    *)
(* one unit below it                                                       *)
Thresholds == {50, 60, 90, 95, 170, 205}
AtThreshold(t) == (100 * Gib(t) + 84) \div 85

MCAnswer ==
    {Machine(<<Cpu(Gib(640)), Gpu(AtThreshold(t) - less)>>, Gib(640), Gib(40)) :
        t \in Thresholds, less \in {0, 1}}
    \cup {Machine(<<Gpu(Gib(80)), Gpu(Gib(160)), Uma(Gib(80))>>, Gib(320), Gib(50) - 1),
          Machine(<<Uma(Gib(160))>>, Gib(320), Mib(1700)),
          Machine(<<Gpu(Gib(80))>>, 0, 0)}

MCHost == {[total |-> Gib(80), available |-> Mib(1299)], [total |-> Gib(40), available |-> 0],
           [total |-> 0, available |-> 0]}
=============================================================================
