----------------------------- MODULE MCProviders -----------------------------
(***************************************************************************)
(* The providers with small limits, and texts that cut blocks of sources   *)
(* and fences in every way.                                                *)
(***************************************************************************)
EXTENDS Providers

MCPieces == {"text", "fence", "lt", "sources", "end"}

\* All texts of three pieces, and blocks with fences, in a row and cut short.
MCTexts ==
  [1 .. 3 -> MCPieces] \cup
  {<<"text", "fence", "lt", "sources", "text", "end", "fence", "text">>,
   <<"fence", "fence", "lt", "sources", "end", "lt", "sources", "end">>,
   <<"text", "lt", "lt", "sources", "end", "sources", "fence">>,
   <<"lt", "sources", "end", "fence", "fence", "text">>}
=============================================================================
