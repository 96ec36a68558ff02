----------------------------- MODULE MCStartup -----------------------------
(* A catalogue in small: an event of any vendor, and an L2 event that has a  *)
(* name for each vendor.  Machines of each vendor, of which one hybrid, and  *)
(* such as lack rich, perf, or a PMU in sysfs.                               *)
EXTENDS Startup

MCCatalog == <<
    [slot |-> "L1D miss", vendor |-> "any",   event |-> "L1-dcache-load-misses"],
    [slot |-> "L2 miss",  vendor |-> "intel", event |-> "l2_rqsts.miss"],
    [slot |-> "L2 miss",  vendor |-> "amd",   event |-> "l2_cache_req_stat.ic_dc_miss_in_l2"] >>

Run(lo, hi) == [lo |-> lo, hi |-> hi]

\* Every set of CPUs, a list with words, one out of order, one running backwards.
MCLists ==
    { <<>>, <<Run(0, 0)>>, <<Run(1, 1)>>, <<Run(2, 2)>>, <<Run(0, 1)>>,
      <<Run(1, 2)>>, <<Run(0, 0), Run(2, 2)>>, <<Run(0, 2)>>,
      <<Word, Word, Run(1, 2)>>, <<Run(2, 2), Run(0, 1)>>, <<Run(2, 1)>> }

Device(name, core, dirs) == [name |-> name, core |-> core, dirs |-> dirs]
Core == Device("cpu_core", TRUE, TRUE)
Atom == Device("cpu_atom", TRUE, TRUE)
Fake == Device("cpu_lowpower", TRUE, FALSE)
Uncore == Device("uncore_imc", FALSE, TRUE)

MCDevices == {Core, Atom, Fake, Uncore}

Machine(cpu, devices, resctrl) ==
    [rich |-> TRUE, perf |-> TRUE, prefixes |-> TRUE,
     cpu |-> cpu, devices |-> devices, resctrl |-> resctrl]

MCMachines ==
    LET hybrid == Machine("GenuineIntel", MCDevices, "none")
        epyc == Machine("AuthenticAMD", {Core, Uncore}, "L3_MON")
        other == Machine("other", {Fake, Uncore}, "mounted")
        bare == Machine("GenuineIntel", {}, "unmounted")
    IN  {hybrid, epyc, other, [bare EXCEPT !.prefixes = FALSE],
         [epyc EXCEPT !.rich = FALSE], [hybrid EXCEPT !.perf = FALSE]}
============================================================================
