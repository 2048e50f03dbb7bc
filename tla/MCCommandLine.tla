---------------------------- MODULE MCCommandLine ----------------------------
\* The lines, names and buses for the run of CommandLine: every short line over
\* a few characters, and `readmem` with every short number.
EXTENDS CommandLine

MCCommandName == [info |-> <<"i">>, getpid |-> <<"i", "i">>, getring |-> <<"g">>,
                  readmem |-> <<"r">>, echo |-> <<"e">>, lspci |-> <<"l">>,
                  shell |-> <<"s">>, exit |-> <<"x">>]

Over(S, n) == UNION {[1 .. k -> S] : k \in 1 .. n}

MCLine == {<<>>, <<"l">>, <<"x">>}
          \cup Over({"i", "e", " "}, 5)
          \cup {<<"r", " ">> \o a \o <<" ", "8">> : a \in Over({"-", "0", "x", "f"}, 4)}
          \cup {<<"r", " ", "f", " ">> \o n : n \in Over({"-", "1", "2", "8"}, 4)}

\* All but the last pages of a space of 256 bytes.
MCReadable == 0 .. 191

MCGarbage == {<<>>, <<"?", "?">>}

MCKnownVendor == {<<134, 128>>, <<244, 26>>}
Registers(vendor, class) == (0 :> vendor \o <<0, 16>>) @@ (8 :> <<2>> \o class)

MCConfig ==
    LET host == Registers(<<134, 128>>, <<0, 0, 6>>)
        card == Registers(<<244, 26>>, <<0, 0, 2>>)
        disk == Registers(<<134, 128>>, <<128, 1, 1>>)
        display == Registers(<<52, 18>>, <<0, 0, 3>>)
    IN  {<<>>, <<0, 0, 0>> :> host,
         (<<0, 0, 0>> :> host) @@ (<<0, 31, 7>> :> disk) @@ (<<255, 2, 0>> :> card),
         (<<0, 1, 1>> :> disk) @@ (<<0, 2, 0>> :> display) @@ (<<0, 3, 0>> :> card),
         \* One more than devices[] holds.
         [f \in {0} \X {0} \X (0 .. 3) |-> card]}
=============================================================================
