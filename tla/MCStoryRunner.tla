--------------------------- MODULE MCStoryRunner ---------------------------
(* Page sets and options on which StoryRunner is checked. *)
EXTENDS StoryRunner

Page(class, archive) == [class |-> class, archive |-> archive]

\* A local story before one with an archive; two classes of state, whose
\* stories use two archives.
MCPageSets ==
    {<<Page("desktop", NoArchive), Page("desktop", "A")>>,
     <<Page("desktop", "A"), Page("mobile", "A"), Page("mobile", "B")>>}

Plain == [pageset_repeat |-> 1, page_repeat |-> 1, max_failures |-> NoLimit,
          wpr_mode |-> "replay", restart |-> FALSE, stop_after |-> FALSE,
          multi_tab |-> FALSE]
MCOptionSets ==
    {[Plain EXCEPT !.pageset_repeat = 2],
     [Plain EXCEPT !.page_repeat = 2, !.max_failures = 0],
     [Plain EXCEPT !.restart = TRUE],
     [Plain EXCEPT !.stop_after = TRUE, !.wpr_mode = "record"],
     [Plain EXCEPT !.multi_tab = TRUE, !.wpr_mode = "off"]}

\* record_wpr: one run over three stories with the same class of state.
RecordPageSets == {[i \in 1 .. 3 |-> Page("desktop", "A")]}
RecordOptions == {[Plain EXCEPT !.wpr_mode = "record"]}
=============================================================================
