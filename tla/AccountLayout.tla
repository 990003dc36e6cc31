---------------------------- MODULE AccountLayout ----------------------------
(***************************************************************************)
(* The byte layouts of the allocator's accounts (state.rs) and the         *)
(* instructions that grow version-0 accounts to version 1 (lib.rs).  A     *)
(* layout is a sequence of fields <<name, size>>; an account holds tokens  *)
(* <<name, i>>, byte i of a field, and Blank where nothing was written.    *)
(* Borsh writes a Vec as its length and its elements, so what follows a    *)
(* Vec moves with its length, and the tail of the account stays blank.     *)
(***************************************************************************)
EXTENDS Integers, Sequences, SequencesExt

Blank == <<"blank", 0>>
Blanks(n) == [i \in 1..n |-> Blank]
Vec(name, elements, size) == <<name, 4 + elements * size>>

SizeOf(layout) == FoldLeft(LAMBDA total, f : total + f[2], 0, layout)

(* An account of `space' bytes with its fields written. *)
Written(layout, space) ==
    FlattenSeq([i \in DOMAIN layout |-> [j \in 1..layout[i][2] |-> <<layout[i][1], j>>]])
        \o Blanks(space - SizeOf(layout))

(* What a reader that expects `layout' finds in the field `name'. *)
ReadField(bytes, layout, name) ==
    LET i == CHOOSE k \in DOMAIN layout : layout[k][1] = name
        start == SizeOf(SubSeq(layout, 1, i - 1))
    IN  SubSeq(bytes, start + 1, start + layout[i][2])

-----------------------------------------------------------------------------
AllocatorV1(protocols) ==
    << <<"disc", 8>>, <<"version", 1>>, <<"admin", 32>>, <<"keeper", 32>>, <<"tvl", 8>>,
       <<"halted", 1>>, Vec("whitelist", protocols, 32), <<"bump", 1>> >>

(* head: allocator to last_mgmt_fee_slot; guardrails: the five limits. *)
RiskVaultV0(weights) ==
    << <<"disc", 8>>, <<"head", 157>>, Vec("weights", weights, 2), <<"guardrails", 10>>,
       <<"redemption_period", 8>>, <<"deposit_cap", 8>>, <<"bump", 1>> >>

RiskVaultV1(weights) ==
    << <<"disc", 8>>, <<"version", 1>>, <<"head", 157>>, Vec("weights", weights, 2),
       <<"guardrails", 10>>, <<"redemption_period", 8>>, <<"deposit_cap", 8>>,
       <<"max_single_deposit", 8>>, <<"bump", 1>> >>

MAX_WEIGHTS == 8
MAX_PROTOCOLS == 8

VaultSpaceV0 == SizeOf(RiskVaultV0(MAX_WEIGHTS))
FreshAllocatorSpace == SizeOf(AllocatorV1(MAX_PROTOCOLS))

(* 8 + 1 + 32 + 32 + 8 + 1 + 4 + 1: room for an empty whitelist. *)
MigratedAllocatorSpace == SizeOf(AllocatorV1(0))

(* The fields are copied from fixed offsets, those of a full Vec: the      *)
(* version goes in after the discriminator, eight zeros before the last    *)
(* byte.                                                                   *)
admin_migrate_risk_vault(b) ==
    SubSeq(b, 1, 8) \o << <<"version", 1>> >> \o SubSeq(b, 9, 211) \o Blanks(8)
        \o SubSeq(b, 212, 212)

(* The numbers of weights for which the migrated account reads otherwise   *)
(* than uncapped.                                                          *)
LimitedByMigration ==
    {n \in 0..MAX_WEIGHTS :
        ReadField(admin_migrate_risk_vault(Written(RiskVaultV0(n), VaultSpaceV0)),
                  RiskVaultV1(n), "max_single_deposit") # Blanks(8)}
=============================================================================
