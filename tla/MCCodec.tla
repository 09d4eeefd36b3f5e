------------------------------- MODULE MCCodec ------------------------------
(***************************************************************************)
(* Values for checking Codec: the bytes of numbers are those at which a    *)
(* sign, a size or a flag changes; texts are of lengths at which the bytes *)
(* of their size change, and one is longer than MAX_LSTR.                  *)
(***************************************************************************)
EXTENDS Codec

Edges == {0, 127, 128, 255}
Starts == {0, 127, 128, 191, 192, 255}    \* of UVARI

Words(n) == [1 .. n -> Edges]
Nulls == {<<216, 241>>, <<252, 25>>}      \* -9999, -999 as SNORM
SlongNulls == { <<255, 255>> \o n : n \in Nulls }

\* The byte after the value.
Of(repcode, bytes, means) == [repcode |-> repcode, bytes |-> bytes, next |-> <<1>>, means |-> means]
Numbers(repcode, values) == { Of(repcode, b, <<>>) : b \in values }

Uvaris == { <<b>> : b \in Starts \cap 0 .. 127 }
          \cup { <<b, c>> : b \in Starts \cap 128 .. 191, c \in Edges }
          \cup { <<b>> \o w : b \in Starts \cap 192 .. 255, w \in Words(3) }

Text(n) == [i \in 1 .. n |-> 64 + (i % 32)]
Ident(text) == <<Len(text)>> \o text
Idents == {<<>>, <<65>>, <<65, 66, 67>>, <<65, 0, 67>>, Text(127), Text(128)}
\* The size of an ASCII text may take more bytes than it needs.
Asciis == { Of("ASCII", <<0>>, <<<<>>>>) }
          \cup { Of("ASCII", <<128, n>> \o Text(n), <<Text(n)>>) : n \in {1, 127, 128, 131} }
          \cup { Of("ASCII", <<192, 0, 0, n>> \o Text(n), <<Text(n)>>) : n \in {0, 2} }

Origins == { <<<<1>>, <<0, 1>>>>, <<<<129, 0>>, <<0, 256>>>>, <<<<192, 1, 0, 2>>, <<1, 2>>>> }
Names == {<<>>, <<70, 49>>}
Obnames == { [bytes |-> o[1] \o <<copy>> \o Ident(n), means |-> <<o[2], <<0, copy>>, n>>] :
               o \in Origins, copy \in {0, 255}, n \in Names }

Fixed(repcode) == [i \in 1 .. REPCODE_SIZES[repcode] |-> i]

AllSamples ==
  Numbers("SSHORT", Words(1)) \cup Numbers("SNORM", Words(2) \cup Nulls)
  \cup Numbers("SLONG", Words(4) \cup SlongNulls)
  \cup Numbers("USHORT", Words(1)) \cup Numbers("STATUS", Words(1)) \cup Numbers("UNORM", Words(2))
  \cup Numbers("ULONG", Words(4)) \cup Numbers("UVARI", Uvaris)
  \cup Numbers("FSINGL", { b \in Words(4) : ~(b[1] \in {127, 255} /\ b[2] > 127) }
                              \cup { b \in NullFloats : Len(b) = 4 })
  \cup Numbers("FDOUBL", {Fixed("FDOUBL")} \cup { b \in NullFloats : Len(b) = 8 })
  \cup Numbers("DTIME", {Fixed("DTIME")})
  \cup { Of("IDENT", Ident(t), <<t>>) : t \in Idents } \cup { Of("UNITS", Ident(t), <<t>>) : t \in {Text(1)} }
  \cup Asciis
  \cup { Of("OBNAME", o.bytes, o.means) : o \in Obnames }
  \cup { Of("OBJREF", Ident(t) \o o.bytes, <<t>> \o o.means) : t \in Names, o \in Obnames }
  \cup { Of(r, Fixed(r), <<>>) : r \in Unconverted \ {"ORIGIN"} }
  \cup Numbers("ORIGIN", {<<5>>}) \cup Numbers("NONE", {<<5>>}) \cup Numbers("ATTREF", {<<5>>})
  \cup Numbers("REPCODE_MAX", {<<5>>})
=============================================================================
