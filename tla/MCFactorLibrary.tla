--------------------------- MODULE MCFactorLibrary ---------------------------
\* Two publishers' files, one with overlapping factors, for an organisation in GB.
EXTENDS FactorLibrary, TLC

Command(publisher, version, region, file, activate, dryRun) ==
    [publisher |-> publisher, version |-> version, region |-> region,
     file |-> file, activate |-> activate, dryRun |-> dryRun]

MCCommands ==
    { Command("DEFRA", 1, "GB", "both", TRUE, FALSE),
      Command("DEFRA", 2, "GB", "late", TRUE, FALSE),
      Command("DEFRA", 2, "GB", "late", TRUE, TRUE),
      Command("DEFRA", 3, "GB", "both", TRUE, FALSE),
      Command("IPCC", 1, None, "world", TRUE, FALSE),
      Command("IPCC", 1, None, "world", FALSE, FALSE) }

Factor(id, region, from, to, unit) ==
    [id |-> id, region |-> region, from |-> from, to |-> to, unit |-> unit]

MCContents ==
    [both  |-> {Factor(1, "GB", 1, 2, "L"), Factor(2, "GB", 2, 2, "therm")},
     late  |-> {Factor(1, "GB", 2, 2, "GAL")},
     world |-> {Factor(1, None, 1, 2, "L"), Factor(2, "EU", 1, 1, "L")}]

MCParent == [GB |-> "EU", EU |-> "GB", US |-> None]

MCConversions == {<<"GAL", "L">>}

Policy(region, publisher, strict) ==
    [region |-> region, publisher |-> publisher, strict |-> strict]

MCPolicies == {Policy("GB", "IPCC", TRUE), Policy(None, None, FALSE)}

Symmetry == Permutations(Importers)
=============================================================================
