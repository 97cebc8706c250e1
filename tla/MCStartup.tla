----------------------------- MODULE MCStartup -----------------------------
(***************************************************************************)
(* Small instances of Startup for TLC: every command line of up to three   *)
(* options, with a host that is known and one that is not, and ports of    *)
(* more than 16 bits, with 0 in the low ones, and not numbers at all.      *)
(***************************************************************************)
EXTENDS Startup

MCAddress == "known" :> "address of known"

Plain == {"h", "v", "q", "d", "?", "operand"}

MCOption ==
  [opt : Plain, arg : {NoArgument}]
    \cup [opt : {"p"}, arg : {80, 65536, 65537} \cup {Unparsable}]
    \cup [opt : {"s"}, arg : {"known", "unknown"}]
    \cup [opt : {"x"}, arg : BOOLEAN]

MCCommandLines == BoundedSeq(MCOption, 3)

\* Both of what ChangeLog says can be specified, in either order.
MCSpecified ==
  LET port == [opt |-> "p", arg |-> 65537]
      ip   == [opt |-> "s", arg |-> "known"]
  IN  {<<port, ip>>, <<ip, port>>}
=============================================================================
