--------------------------- MODULE MCLintBaseline ---------------------------
EXTENDS LintBaseline

Finding(library, linter, name) == [library |-> library, linter |-> linter, name |-> name]

\* a finding of each library, and one that the naming policy accepts
MCFindings ==
    {Finding("VCVio", "docBlame", << <<"lower">> >>),
     Finding("Examples", "defsWithUnderscore", << <<"ACRONYM", "lower", "Capital">> >>),
     Finding("VCVio", "defsWithUnderscore", << <<"Capital">>, <<"ACRONYM", "Capital", "lower">> >>)}
=============================================================================
