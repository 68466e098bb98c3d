----------------------------- MODULE MCPokemonGame -----------------------------
(* An instance of PokemonGame for TLC: one family that evolves by level and     *)
(* then by item, a species that completes the Pokedex, three levels.            *)
EXTENDS PokemonGame

MCLevelRules == {[from |-> "nidoran", to |-> "nidorina", level |-> 2]}
MCItemRules == {[from |-> "nidorina", to |-> "nidoqueen", item |-> "stone"]}
MCXpRequired == <<0, 1, 3>>

===============================================================================
