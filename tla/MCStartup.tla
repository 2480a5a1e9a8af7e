------------------------------ MODULE MCStartup ------------------------------
(* Values of the environment at the edges of what is valid, for TLC. *)
EXTENDS Startup

\* The first and the last address of every special-purpose block with a
\* prefix that is no whole number of octets, their neighbours, and some of
\* the other blocks.
MCIPs ==
    {<<100, 63, 255, 255>>, <<100, 64, 0, 0>>, <<100, 127, 255, 255>>,
     <<100, 128, 0, 0>>, <<172, 15, 255, 255>>, <<172, 16, 0, 0>>,
     <<172, 31, 255, 255>>, <<172, 32, 0, 0>>, <<198, 17, 255, 255>>,
     <<198, 18, 0, 0>>, <<198, 19, 255, 255>>, <<198, 20, 0, 0>>,
     <<223, 255, 255, 255>>, <<224, 0, 0, 0>>, <<239, 255, 255, 255>>,
     <<240, 0, 0, 0>>, <<255, 255, 255, 255>>, <<0, 0, 0, 0>>,
     <<0, 255, 255, 255>>, <<10, 1, 2, 3>>, <<127, 0, 0, 1>>,
     <<169, 254, 0, 0>>, <<192, 0, 2, 1>>, <<192, 168, 255, 255>>,
     <<203, 0, 113, 255>>}

MCPorts == {<<>>, <<-1>>, <<0>>, <<40020>>, <<65535>>, <<65536>>}
MCTTLs == {<<>>, <<-1>>, <<0>>, <<1>>}
MCDurations == {<<>>, <<-20>>, <<0>>, <<19>>, <<20>>, <<30>>}
MCModes == {"", "silence", "tone", "noise"}
=============================================================================
