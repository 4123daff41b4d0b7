---------------------------- MODULE ConfigLoader ----------------------------
(***************************************************************************)
(* tradecore::config::ConfigLoader (libs/config/src/config_loader.cpp):    *)
(* from the tables of a file that parsed to the configuration that main    *)
(* gives its libraries.  A missing key has a default; a number is 64 bits  *)
(* wide in the file, may be converted to a narrower type, and is validated *)
(* after that.  Of a string there is whether it is empty.                  *)
(***************************************************************************)
EXTENDS CxxArithmetic, Sequences

CONSTANTS Bits,           \* the width of "int32", "uint32" and "size_t"
          Defaults,       \* EngineConfig as its members are initialized
          MinArenaBytes,  \* 1 << 16
          Absent          \* stands for a key that is not in the file

\* The integers of a table, and the types they are converted to.
IngressTypes ==
    [new_order_queue_depth |-> "size_t", cancel_queue_depth |-> "size_t",
     replace_queue_depth |-> "size_t", max_new_orders_per_second |-> "uint32",
     max_cancels_per_second |-> "uint32"]

MarketTypes ==
    [id |-> "uint32", contract_size |-> "int64", initial_margin_bp |-> "int32",
     maintenance_margin_bp |-> "int32", initial_mark_price |-> "int64",
     clamp_bp |-> "int32", max_rate_bp |-> "int64"]

Converted(x, type) ==
    CASE type = "int64" -> x
      [] type = "int32" -> ToSigned(x, Bits[type])
      [] type \in {"uint32", "size_t"} -> ToUnsigned(x, Bits[type])

\* get_int_or and the conversion, for each key of a table.
Parsed(table, types, defaults) ==
    [k \in DOMAIN types |->
        IF table[k] = Absent THEN defaults[k] ELSE Converted(table[k], types[k])]

\* A file without markets has the default one.
parse_markets(tables) ==
    IF tables = <<>> THEN <<Defaults.market>>
    ELSE [i \in DOMAIN tables |-> Parsed(tables[i], MarketTypes, Defaults.market)]

get_str_or(s, default) == IF s = Absent THEN default ELSE s

parse_config(root) ==
    [endpoint |-> get_str_or(root.endpoint, Defaults.endpoint),
     ingress |-> Parsed(root.ingress, IngressTypes, Defaults.ingress),
     arena_bytes |-> Parsed(root, [arena_bytes |-> "size_t"], Defaults).arena_bytes,
     wal_path |-> get_str_or(root.wal_path, Defaults.wal_path),
     snapshot_dir |-> get_str_or(root.snapshot_dir, Defaults.snapshot_dir),
     markets |-> parse_markets(root.markets)]

\* Mutant: the two margins are not compared.
ValidMarket_unordered(m) ==
    /\ m.id # 0
    /\ m.contract_size > 0
    /\ m.initial_margin_bp > 0 /\ m.maintenance_margin_bp > 0
    /\ m.max_rate_bp > 0

ValidMarket(m) ==
    /\ m.id # 0
    /\ m.contract_size > 0
    /\ m.initial_margin_bp > 0 /\ m.maintenance_margin_bp > 0
    /\ m.maintenance_margin_bp <= m.initial_margin_bp
    /\ m.max_rate_bp > 0

\* validate finds no error.
Valid(config) ==
    /\ config.endpoint # ""
    /\ config.ingress.max_new_orders_per_second # 0
    /\ config.arena_bytes >= MinArenaBytes
    /\ config.wal_path # "" /\ config.snapshot_dir # ""
    /\ \A i \in DOMAIN config.markets : ValidMarket(config.markets[i])

\* Mutant: the numbers are validated as the file has them, before they are converted.
Loaded_unconverted(roots) ==
    {parse_config(r) : r \in {r \in roots :
        \A i \in DOMAIN r.markets : ValidMarket(
            [k \in DOMAIN MarketTypes |-> IF r.markets[i][k] = Absent THEN Defaults.market[k]
                                          ELSE r.markets[i][k]])}}

\* The configurations that load returns for these files, with success.
Loaded(roots) == {config \in {parse_config(r) : r \in roots} : Valid(config)}
=============================================================================
