------------------------------ MODULE Geometry ------------------------------
(* How a table is sized for a number of accounts, what its parts weigh,    *)
(* and the two tools that report it: the sweep over shapes of the table,   *)
(* and the check that fills real tables. What the cuckoo store holds, and  *)
(* how many bits a cell may carry, are tables of its crate.                *)
EXTENDS Integers, Sequences, FiniteSets

CONSTANTS
    MAX_LOAD_FACTOR,    \* [arity -> [bucket size -> hundredths]], as published
    PlaintextBits(_),   \* of a cell, by the rows of a segment
    VALUE_BITS,
    LWE_DIM,
    U32,                \* bound: a number of buckets is below it
    Sweeps,             \* the arguments of a sweep
    FillCandidates      \* the shapes a fill check tries

ASSUME GeometryAssumption ==
    /\ DOMAIN MAX_LOAD_FACTOR = 2..4
    /\ \A arity \in 2..4 : \A b \in DOMAIN MAX_LOAD_FACTOR[arity] :
          MAX_LOAD_FACTOR[arity][b] \in 1..100
    /\ {VALUE_BITS, LWE_DIM, U32} \subseteq Nat
    /\ \A rows \in 1..U32 : PlaintextBits(rows) \in Nat \ {0}

VARIABLE sweep  \* the tool: its arguments, the rows so far, the tables filled

-----------------------------------------------------------------------------
(* The target load, in parts of TARGET_DEN: a flat cap, or less where the  *)
(* table cannot be filled that far. The tables are of shapes nobody built  *)
(* too, whose ceiling is not known.                                        *)

GLOBAL_TARGET_NUM == 9000
TARGET_DEN == 10000
SAFETY_MARGIN_NUM == 95

Lesser2(a, b) == IF a < b THEN a ELSE b
Greater(a, b) == IF a < b THEN b ELSE a
CeilDiv(a, b) == (a + b - 1) \div b
NextPowerOfTwo(n) == CHOOSE p \in {2 ^ i : i \in 0..16} : p >= n /\ p < 2 * Greater(n, 1)

CeilingKnown(arity, bucket_size) ==
    arity \in DOMAIN MAX_LOAD_FACTOR /\ bucket_size \in DOMAIN MAX_LOAD_FACTOR[arity]

(* One flat target for every shape, as it was before ADR-0031.             *)
EffectiveTargetLoadFlat(arity, bucket_size) == GLOBAL_TARGET_NUM

EffectiveTargetLoad(arity, bucket_size) ==
    IF CeilingKnown(arity, bucket_size)
    THEN Lesser2(GLOBAL_TARGET_NUM, SAFETY_MARGIN_NUM * MAX_LOAD_FACTOR[arity][bucket_size])
    ELSE GLOBAL_TARGET_NUM

(* A bucket index is a mask, or a mask within one of three segments.       *)
NumBuckets(accounts, arity, bucket_size) ==
    LET needed == CeilDiv(accounts * TARGET_DEN,
                          bucket_size * EffectiveTargetLoad(arity, bucket_size))
    IN IF arity = 3 THEN 3 * NextPowerOfTwo(Greater(CeilDiv(needed, 3), 1))
       ELSE NextPowerOfTwo(Greater(needed, arity))

(* Why there is no geometry for these arguments, or "none".                *)
Refusal(accounts, arity, bucket_size, fingerprint_bits) ==
    IF bucket_size = 0 THEN "InvalidBucketSize"
    ELSE IF fingerprint_bits = 0 THEN "InvalidFieldWidth"
    ELSE IF arity \notin 2..4 THEN "InvalidArity"
    ELSE IF NumBuckets(accounts, arity, bucket_size) >= U32 THEN "TooManyAccounts"
    ELSE "none"

ForAccounts(accounts, arity, bucket_size, fingerprint_bits) ==
    LET buckets == NumBuckets(accounts, arity, bucket_size)
    IN [arity |-> arity, num_buckets |-> buckets, bucket_size |-> bucket_size,
        slot_bits |-> fingerprint_bits + VALUE_BITS,
        plaintext_bits |-> PlaintextBits(buckets \div arity)]

(* k rows of a segment become one: k is the square root of rows over       *)
(* width, rounded, so that query and response are about as long.           *)
ReshapeDims(rows, width) ==
    LET k == CHOOSE k \in 1..(rows + 1) :
                /\ k = 1 \/ (2 * k - 1) * (2 * k - 1) * width <= 4 * rows
                /\ (2 * k + 1) * (2 * k + 1) * width > 4 * rows
    IN [k |-> k, rows |-> CeilDiv(rows, k), width |-> k * width]

Sizes(g) ==
    LET cells == CeilDiv(g.slot_bits, g.plaintext_bits)
        rows == g.num_buckets \div g.arity
        shape == ReshapeDims(rows, g.bucket_size * cells)
    IN [cells_per_slot |-> cells, segment_rows |-> rows, shape |-> shape,
        slots |-> g.num_buckets * g.bucket_size,
        server_db |-> g.num_buckets * g.bucket_size * cells * 4,
        hint_per_segment |-> LWE_DIM * shape.width * 4,
        query_per_segment |-> shape.rows * 4,
        response_per_segment |-> shape.width * 4,
        a_per_segment |-> shape.rows * LWE_DIM * 4]

-----------------------------------------------------------------------------
(* A row of the sweep: the geometry, the accounts it would still take, and *)
(* the geometry of one more, which need not exist.                         *)

MaxAccountsAtTarget(accounts, arity, bucket_size, fingerprint_bits) ==
    (Sizes(ForAccounts(accounts, arity, bucket_size, fingerprint_bits)).slots
        * EffectiveTargetLoad(arity, bucket_size)) \div TARGET_DEN

Fillable(g, accounts) ==
    CeilingKnown(g.arity, g.bucket_size)
        => accounts * 100 <= Sizes(g).slots * MAX_LOAD_FACTOR[g.arity][g.bucket_size]

RowRefusal(accounts, arity, bucket_size, fingerprint_bits) ==
    LET refused == Refusal(accounts, arity, bucket_size, fingerprint_bits)
    IN IF refused # "none" THEN refused
       ELSE Refusal(MaxAccountsAtTarget(accounts, arity, bucket_size, fingerprint_bits) + 1,
                    arity, bucket_size, fingerprint_bits)

ComputeRow(accounts, arity, bucket_size, fingerprint_bits) ==
    LET g == ForAccounts(accounts, arity, bucket_size, fingerprint_bits)
        most == MaxAccountsAtTarget(accounts, arity, bucket_size, fingerprint_bits)
    IN [geometry |-> g, sizes |-> Sizes(g), max_accounts_at_target |-> most,
        next_db |-> Sizes(ForAccounts(most + 1, arity, bucket_size, fingerprint_bits)).server_db,
        buildable |-> bucket_size \in DOMAIN MAX_LOAD_FACTOR[2],
        fillable |-> Fillable(g, accounts)]

GeometryInit ==
    \E arguments \in Sweeps :
        sweep = [phase |-> "sweep", args |-> arguments, rows |-> <<>>, fills |-> <<>>,
                 error |-> "none"]

(* The shape of the next row: for each arity, for each bucket size.        *)
SweptArity == sweep.args.arities[(Len(sweep.rows) \div Len(sweep.args.bucket_sizes)) + 1]
SweptBucket == sweep.args.bucket_sizes[(Len(sweep.rows) % Len(sweep.args.bucket_sizes)) + 1]
RowsLeft == Len(sweep.rows) < Len(sweep.args.arities) * Len(sweep.args.bucket_sizes)

SweepRow ==
    LET a == sweep.args
    IN /\ sweep.phase = "sweep" /\ RowsLeft
       /\ RowRefusal(a.accounts, SweptArity, SweptBucket, a.fingerprint_bits) = "none"
       /\ sweep' = [sweep EXCEPT !.rows =
                        Append(@, ComputeRow(a.accounts, SweptArity, SweptBucket,
                                             a.fingerprint_bits))]

(* One row that cannot be computed ends the tool, and no row is printed.   *)
SweepFails ==
    LET a == sweep.args
        refused == RowRefusal(a.accounts, SweptArity, SweptBucket, a.fingerprint_bits)
    IN /\ sweep.phase = "sweep" /\ RowsLeft /\ refused # "none"
       /\ sweep' = [sweep EXCEPT !.phase = "failed", !.error = refused, !.rows = <<>>]

SweepPrinted ==
    /\ sweep.phase = "sweep" /\ ~RowsLeft
    /\ sweep' = [sweep EXCEPT !.phase = IF sweep.args.fill THEN "fill" ELSE "done"]

(* The store takes what it can hold, and may refuse any account past that. *)
Inserted(g, accounts) ==
    LET holds == (Sizes(g).slots * MAX_LOAD_FACTOR[g.arity][g.bucket_size]) \div 100
    IN Lesser2(accounts, holds)..accounts

(* A candidate that cannot be built is reported, and the next one tried.   *)
FillCheckOne ==
    LET c == FillCandidates[Len(sweep.fills) + 1]
        refused == Refusal(sweep.args.accounts, c.arity, c.bucket_size,
                           sweep.args.fingerprint_bits)
        g == ForAccounts(sweep.args.accounts, c.arity, c.bucket_size,
                         sweep.args.fingerprint_bits)
    IN /\ sweep.phase = "fill" /\ Len(sweep.fills) < Len(FillCandidates)
       /\ \E inserted \in IF refused = "none" THEN Inserted(g, sweep.args.accounts) ELSE {0} :
             sweep' = [sweep EXCEPT !.fills =
                 Append(@, [built |-> refused = "none", inserted |-> inserted,
                            failed |-> IF refused = "none" THEN sweep.args.accounts - inserted
                                       ELSE 0])]

FillChecked ==
    /\ sweep.phase = "fill" /\ Len(sweep.fills) = Len(FillCandidates)
    /\ sweep' = [sweep EXCEPT !.phase = "done"]

GeometryNext == SweepRow \/ SweepFails \/ SweepPrinted \/ FillCheckOne \/ FillChecked
GeometrySpec == GeometryInit /\ [][GeometryNext]_sweep
-----------------------------------------------------------------------------
(* What a row says is so of the table built from it. It is the smallest    *)
(* one that stays within the target load, and the store can be filled with *)
(* the accounts ("no row here should earn this mark", geometry.rs:468,     *)
(* xtask). As many accounts as the row says fit without another geometry,  *)
(* and one more doubles the table. The reshaped segment holds all rows.    *)
RowIsTrue(row, accounts) ==
    LET g == row.geometry
        target == EffectiveTargetLoad(g.arity, g.bucket_size)
        fits(n, buckets) == n * TARGET_DEN <= buckets * g.bucket_size * target
        least == IF g.arity = 3 THEN 3 ELSE g.arity
        again == ForAccounts(row.max_accounts_at_target, g.arity, g.bucket_size,
                             g.slot_bits - VALUE_BITS)
    IN /\ fits(accounts, g.num_buckets)
       /\ g.num_buckets = least \/ ~fits(accounts, g.num_buckets \div 2)
       /\ g.num_buckets % g.arity = 0
       /\ row.fillable
       /\ accounts <= row.max_accounts_at_target /\ again = g
       /\ row.next_db > row.sizes.server_db
       /\ row.sizes.shape.rows * row.sizes.shape.k >= row.sizes.segment_rows

(* A filled table has counted every account, and has refused none.         *)
RowsFit ==
    /\ \A i \in DOMAIN sweep.rows : RowIsTrue(sweep.rows[i], sweep.args.accounts)
    /\ \A i \in DOMAIN sweep.fills : sweep.fills[i].failed = 0
    /\ sweep.phase = "failed" => sweep.error # "none" /\ sweep.rows = <<>>
=============================================================================
