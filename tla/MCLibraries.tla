---------------------------- MODULE MCLibraries ----------------------------
(* Instances of the libraries that keep numbers, for TLC.  They share no   *)
(* state but the configuration that main loads for them: a behaviour uses  *)
(* one of them.                                                            *)
EXTENDS RiskEngine, ConfigLoader, FundingEngine, TelemetrySink, SequencesExt

-----------------------------------------------------------------------------
(* Configuration files, in percent where the code has basis points, and    *)
(* with 8 bits where it has 32.                                            *)

Widths == [int32 |-> 8, uint32 |-> 8, size_t |-> 16]

DefaultValues ==
    [endpoint |-> "e", wal_path |-> "w", snapshot_dir |-> "s", arena_bytes |-> 128,
     ingress |-> [new_order_queue_depth |-> 4, cancel_queue_depth |-> 4,
                  replace_queue_depth |-> 4, max_new_orders_per_second |-> 10,
                  max_cancels_per_second |-> 20],
     market |-> [id |-> 1, contract_size |-> 2, initial_margin_bp |-> 50,
                 maintenance_margin_bp |-> 25, initial_mark_price |-> 3,
                 clamp_bp |-> 50, max_rate_bp |-> 20]]

\* Nothing but absent keys, and one market with some.
EmptyTable(keys) == [k \in keys |-> Absent]
Root == [EmptyTable({"endpoint", "wal_path", "snapshot_dir", "arena_bytes"}) EXCEPT !["endpoint"] = "e"]
           @@ [ingress |-> EmptyTable(DOMAIN IngressTypes), markets |-> <<>>]

MarketFile(values) ==
    [Root EXCEPT !.markets = <<values @@ EmptyTable(DOMAIN MarketTypes)>>]

\* The defaults; margins that are swapped, in the file or by the conversion; values that
\* are refused; values that wrap.
Files ==
    {Root,
     MarketFile([initial_margin_bp |-> 25, maintenance_margin_bp |-> 50]),
     MarketFile([contract_size |-> 0]), MarketFile([max_rate_bp |-> 0]),
     MarketFile([initial_margin_bp |-> 306, maintenance_margin_bp |-> 25]),
     MarketFile([initial_margin_bp |-> 306, maintenance_margin_bp |-> 60]),
     MarketFile([id |-> 256]), MarketFile([clamp_bp |-> -20]), MarketFile([clamp_bp |-> 236]),
     [Root EXCEPT !.arena_bytes = 5], [Root EXCEPT !.wal_path = ""],
     [Root EXCEPT !.ingress.max_new_orders_per_second = 256]}

LoadedMarkets == UNION {ToSet(config.markets) : config \in Loaded(Files)}

\* What main makes of them for the risk engine and for the funding engine.
RiskConfigs ==
    [m \in Markets |->
        {[contract_size |-> c.contract_size, initial_bp |-> c.initial_margin_bp,
          maintenance_bp |-> c.maintenance_margin_bp] : c \in LoadedMarkets}]

LoadedFunding ==
    {[clamp_basis_points |-> c.clamp_bp, max_rate_basis_points |-> c.max_rate_bp] :
        c \in LoadedMarkets}

-----------------------------------------------------------------------------

VARIABLE library  \* the library that this behaviour uses

library_vars == <<library, vars, funding_vars, telemetry_vars>>

LibrariesInit ==
    /\ library \in {"risk", "funding", "telemetry"}
    /\ Init /\ FundingInit /\ TelemetryInit

UseRisk == library = "risk" /\ Next /\ UNCHANGED <<library, funding_vars, telemetry_vars>>

UseFunding ==
    library = "funding" /\ FundingNext /\ UNCHANGED <<library, vars, telemetry_vars>>

UseTelemetry ==
    library = "telemetry" /\ TelemetryNext /\ UNCHANGED <<library, vars, funding_vars>>

LibrariesSpec == LibrariesInit /\ [][UseRisk \/ UseFunding \/ UseTelemetry]_library_vars
=============================================================================
