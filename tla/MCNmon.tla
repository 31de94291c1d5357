------------------------------- MODULE MCNmon -------------------------------
(* nmon for TLC.                                                            *)
EXTENDS NmonProgram

\* users that toggle related sections, and recordings
Screen(pressed, options) ==
    [mode |-> "screen", keys |-> pressed, options |-> options, missing |-> {}, cpus |-> {2}]
Recording(m, options, missingFiles, counts) ==
    [mode |-> m, keys |-> {}, options |-> options, missing |-> missingFiles, cpus |-> counts]

SomeSessions ==
    {Screen(k, {}) : k \in {{"smp", "longterm"}, {"kernel", "util"}, {"diskmap", "disk"},
                            {"disk", "verbose"}, {"net", "vm"}, {"nfs", "vm"}, {"wide", "top"},
                            {"help", "verbose"}, {"res", "memory"}, {"mhz", "large", "jfs"}}}
      \cup {Screen({"disk", "dgroup"}, {"dgroup"}), Screen({"net"}, {"top", "nfs"}),
            [Screen({"nfs", "vm"}, {}) EXCEPT !.missing = {"vmstat", "nfs"}],
            [Screen({"smp", "util"}, {}) EXCEPT !.cpus = {1, 2}]}
      \cup {Recording("file", {"util"}, {}, {1, 2, 3}),
            Recording("file", {"top", "util", "nfs"}, {}, {2}),
            Recording("file", {"nfs", "mhz", "dgroup"}, {"vmstat", "nfs"}, {1}),
            Recording("rrd", {"top", "util", "nfs"}, {}, {1}),
            Recording("rrd", {"nfs"}, {"nfs", "vmstat"}, {1})}

KeysPressed ==
    {{"0", "l"}, {"+", "-", "q"}, {"j", "other"}, {"d", "D", "6"}, {"N", "M"}, {"1", "t", "u"},
     {"3", "u"}, {"4", "5"}, {"n", "h", "v"}, {".", "G", "0"}}

SomeGroups == {<<"sdb", "sdc">>, <<"sdx", "sdb">>, <<"sdb", "sdx", "sda">>}
SomeLines == <<"sda", "sdb", "sdc", "sdd">>
=============================================================================
