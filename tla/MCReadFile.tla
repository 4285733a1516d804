----------------------------- MODULE MCReadFile -----------------------------
EXTENDS ReadFile

\* Projections the planner pushes down: the name alone (no file opened),
\* the row id with the name, the content, the metadata columns, and all
\* four columns.
MCProjections ==
  { <<"name">>, <<"rowid", "name">>, <<"content">>,
    <<"size", "last_modified">>, <<"name", "content", "size", "last_modified">> }
=============================================================================
