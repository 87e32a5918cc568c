----------------------------- MODULE LinkerMap ------------------------------
(***************************************************************************)
(* parse_linked_stacks of tools/verify_resources.py: the stacks of the     *)
(* report, read from the lines of the linker map of the linked image.      *)
(***************************************************************************)
EXTENDS BuildPipeline, SequencesExt

CONSTANT Noinit   \* the sections of linker maps, as ld is given them

\* finish_current: a section of the map becomes a row if stacks were named.
finish_current(st) ==
  [st EXCEPT !.current = None,
             !.rows = IF st.current # None /\ st.current.names # {}
                      THEN Append(@, st.current) ELSE @]

\* One line of the map: a .noinit section on one line, the name of one alone
\* on its line, address and size of a section, a symbol *_stack, or another.
StackLine(st, line) ==
  CASE line.kind = "one" \/ (line.kind = "detail" /\ st.pending) ->
         [finish_current(st) EXCEPT
            !.current = [bytes |-> line.bytes, names |-> {}],
            !.pending = FALSE]
    [] line.kind = "name" -> [finish_current(st) EXCEPT !.pending = TRUE]
    [] line.kind = "symbol" /\ st.current # None ->
         [st EXCEPT !.current.names = @ \cup {line.name}]
    [] OTHER -> finish_current(st)

\* Mutant of parse_linked_stacks: the last section is not finished.
parse_linked_stacks_open(lines) ==
  FoldLeft(StackLine, [pending |-> FALSE, current |-> None, rows |-> <<>>],
           lines).rows

parse_linked_stacks(lines) ==
  finish_current(FoldLeft(StackLine,
    [pending |-> FALSE, current |-> None, rows |-> <<>>], lines)).rows

-----------------------------------------------------------------------------
\* The lines that ld writes for sections of memory of the .noinit kind: the
\* address and the size are on a line of their own after a long name.
MapLines(section) ==
  (IF section.long
   THEN <<[kind |-> "name"], [kind |-> "detail", bytes |-> section.bytes]>>
   ELSE <<[kind |-> IF section.noinit THEN "one" ELSE "other",
           bytes |-> section.bytes]>>)
  \o [i \in DOMAIN section.symbols |->
        [kind |-> "symbol", name |-> section.symbols[i]]]

\* parse_linked_stacks finds exactly the .noinit sections with stacks in
\* them, in their order and with their sizes, wherever they are in the map.
StackRowsExact ==
  pc = "link" =>
    \A sections \in Noinit :
      LET stacks == SelectSeq(sections,
                      LAMBDA x : x.noinit /\ x.symbols # <<>>) IN
      parse_linked_stacks(FlattenSeq([i \in DOMAIN sections |->
                                        MapLines(sections[i])]))
        = [i \in DOMAIN stacks |-> [bytes |-> stacks[i].bytes,
                                    names |-> Range(stacks[i].symbols)]]

=============================================================================
