----------------------------- MODULE MCOutputs -----------------------------
(***************************************************************************)
(* Configuration files for TLC: the devices are none, a, a and b, or two   *)
(* named a; the outputs are any sequence of up to two; and there are files *)
(* that are rejected before either is looked at.                           *)
(***************************************************************************)
EXTENDS Outputs

CONSTANTS Resolutions

Names == {"a", "b"}

DeviceSections ==
    {[i \in DOMAIN names |-> [name |-> names[i], resolution |-> r]] :
        names \in {<<>>, <<"a">>, <<"a", "b">>, <<"a", "a">>}, r \in Resolutions}

UpToTwo(S) == UNION {[1 .. n -> S] : n \in 0 .. 2}

OutputSections ==
    UpToTwo([source : Names, type : {"file"}, filename : {"x.txt", "y.txt"}]
         \cup [source : Names, type : {"db"}, filename : DbFilenames])

MCFiles ==
    [parses : {TRUE}, plugin_dir : {TRUE},
     devices : DeviceSections, outputs : OutputSections]
    \cup
    [parses : BOOLEAN, plugin_dir : {FALSE}, devices : {<<>>}, outputs : {<<>>}]
    \cup
    [parses : {TRUE}, plugin_dir : {TRUE}, outputs : {<<>>},
     devices : {<<[name |-> Unset, resolution |-> 300]>>}]

\* A run before this one inserted the device b.
MCEarlierRows == {<<"b">>}

Plain(d) == d.output_filename \in {"x.txt", "x.db"}

\* Of a configuration that another was loaded on top of nothing is read later but
\* how many devices it has and whether they are in memory: one of each number is
\* followed, and on top of it configurations with one file name per type and one
\* measurement.  A load that was rejected and freed nothing changed nothing.
Representative ==
    /\ Len(blocks) <= 2
    /\ Len(blocks) = 2 =>
          /\ Len(sent) <= 1
          /\ \A i \in DOMAIN blocks[2].devices : Plain(blocks[2].devices[i])
          /\ \A i \in DOMAIN blocks[1].devices :
                LET d == blocks[1].devices[i] IN
                d.output_filename = "x.txt" /\ d.device_name = <<"a", "b">>[i]
    /\ Len(blocks) < loads =>
          blocks = <<>> \/ \E b \in DOMAIN blocks : ~blocks[b].live

=============================================================================
