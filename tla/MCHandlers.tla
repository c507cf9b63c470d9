----------------------------- MODULE MCHandlers -----------------------------
(***************************************************************************)
(* Instance of Handlers: each single bit, mixtures and the corners of the  *)
(* widths and signs, and one variant of each other kind.  A float64 has 12 *)
(* bits here, so that integers of 16 bits stand for those of 64: some have *)
(* to be rounded, also halfway between two, and those of 8 bits do not.    *)
(***************************************************************************)
EXTENDS Handlers

MCBits == (0 .. 8) \cup {15, 16, -1}
MCBitSets == {{}, MCBits}
Corners8 == {0} \cup {2 ^ i : i \in 0 .. 7}
Corners == {0, 1, 255, 256, 32767}
RoundedOnes == {4095, 4096, 4097, 4099, 9225, 9227, 32759, 32761}

MCIntegers ==
  {Integer("uint8", n) : n \in Corners8 \cup {85, 170, 255}} \cup
  {Integer("int8", n) : n \in {-128, -127, -86, -1, 5, 127}} \cup
  {Integer("uint16", n) : n \in Corners \cup {32768, 65535} \cup RoundedOnes}
  \cup
  {Integer("int16", n) : n \in Corners \cup {-1, -256, -4097, -4099, -32768}}
MCVariants ==
  MCIntegers \cup {Boolean(0), Boolean(1),
                 Encoded(<<>>), Encoded(<<1, 0, 1>>),
                 Encoded(<<0, 0, 5, 128>>),
                 Float(1, <<0, 0, 128, 63>>), Time(7), Text, Null}
=============================================================================
