------------------------------- MODULE Tags -------------------------------
(* The two dialogs of the client that ask for a friendship and grant one    *)
(* (AddUserRequestDialog, AuthenticateNewFriendRequestDialog, a copy of     *)
(* it): a user tags the friend, with tags that exist or new ones.  A label  *)
(* is a OnceClickableQLabel, whose state flips at every click.  No text     *)
(* holds the prefix "New Tag: ".                                            *)
EXTENDS SequencesExt

CONSTANTS
  Texts,     \* the texts a user may type
  TestTags   \* the tags of loadtestFunction, one of them twice

ASSUME TagAssumption == TestTags \in Seq(Texts)

VARIABLES
  dialog,       \* which of the two is open, with the user it is about
  tagLists,     \* m_tagLists
  selectedKey,  \* m_selected_key
  existingKey,  \* m_existing_key
  lit,          \* the labels of the existing tags whose state is ENABLED
  barLit,       \* the state of tag_display, the bar below the input
  input         \* the text of tag_input; <<>> when there is none

tagVars == <<dialog, tagLists, selectedKey, existingKey, lit, barLit, input>>

NoDialog == [kind |-> "none"]

-----------------------------------------------------------------------------
AddNewTag2Container(lists, text) ==
  IF Contains(lists, text) THEN lists ELSE Append(lists, text)

\* Variant of the code that the properties below reject: a tag that is
\* selected already is selected again.
AddNewTag2InputTag_Again(text) ==
  /\ input' = <<>>
  /\ selectedKey' = Append(selectedKey, text)

\* The input is cleared even when the tag is selected already.
AddNewTag2InputTag(text) ==
  /\ input' = <<>>
  /\ selectedKey' = IF Contains(selectedKey, text) THEN selectedKey
                                                   ELSE Append(selectedKey, text)

\* createExistingTag, unless the text has a label.
AddNewTag2ExistingTag(keys, text) ==
  IF Contains(keys, text) THEN keys ELSE Append(keys, text)

LoadtestFunction == FoldLeft(AddNewTag2ExistingTag, <<>>, TestTags)

-----------------------------------------------------------------------------
TagInit ==
  /\ dialog = NoDialog
  /\ tagLists = <<>> /\ selectedKey = <<>> /\ existingKey = <<>>
  /\ lit = {} /\ barLit = FALSE /\ input = <<>>

\* The constructors; every label starts ENABLED, the bar does not.
OpenDialog(kind, info) ==
  /\ dialog = NoDialog
  /\ dialog' = [kind |-> kind, info |-> info]
  /\ tagLists' = TestTags
  /\ selectedKey' = <<>>
  /\ existingKey' = LoadtestFunction
  /\ lit' = Range(TestTags)
  /\ barLit' = FALSE /\ input' = <<>>

\* slot_input_tag_textchange: the bar shows the text, or offers a new tag.
TextChange(text) ==
  /\ dialog # NoDialog
  /\ input = <<>>
  /\ input' = <<text>>
  /\ UNCHANGED <<dialog, tagLists, selectedKey, existingKey, lit, barLit>>

\* What a tag goes through once it is chosen; a new one gets a lit label.
AddNewTag(text) ==
  /\ tagLists' = AddNewTag2Container(tagLists, text)
  /\ AddNewTag2InputTag(text)
  /\ existingKey' = AddNewTag2ExistingTag(existingKey, text)
  /\ lit' = IF Contains(existingKey, text) THEN lit ELSE lit \cup {text}
  /\ UNCHANGED <<dialog, barLit>>

PressEnter ==
  /\ dialog # NoDialog
  /\ input # <<>>
  /\ AddNewTag(input[1])

\* slot_choose_tag_by_click on the bar: the click flips its state, and counts
\* only when it is ENABLED then.  A known tag is not given a label.
ClickBar ==
  /\ dialog # NoDialog
  /\ input # <<>>
  /\ barLit' = ~barLit
  /\ IF barLit
     THEN UNCHANGED <<tagLists, selectedKey, existingKey, lit, input>>
     ELSE LET text == input[1] IN
          /\ AddNewTag2InputTag(text)
          /\ tagLists' = AddNewTag2Container(tagLists, text)
          /\ IF Contains(tagLists, text)
             THEN UNCHANGED <<existingKey, lit>>
             ELSE /\ existingKey' = AddNewTag2ExistingTag(existingKey, text)
                  /\ lit' = lit \cup {text}
  /\ UNCHANGED dialog

\* The same on the label of an existing tag; lit at first, it takes two clicks.
ClickExisting(text) ==
  /\ dialog # NoDialog
  /\ Contains(existingKey, text)
  /\ IF text \in lit
     THEN /\ lit' = lit \ {text}
          /\ UNCHANGED <<tagLists, selectedKey, input>>
     ELSE /\ lit' = lit \cup {text}
          /\ tagLists' = AddNewTag2Container(tagLists, text)
          /\ AddNewTag2InputTag(text)
  /\ UNCHANGED <<dialog, existingKey, barLit>>

CloseDialog ==
  /\ dialog # NoDialog
  /\ dialog' = NoDialog
  /\ tagLists' = <<>> /\ selectedKey' = <<>> /\ existingKey' = <<>>
  /\ lit' = {} /\ barLit' = FALSE /\ input' = <<>>

TagEdit ==
  \/ \E t \in Texts : TextChange(t) \/ ClickExisting(t)
  \/ PressEnter \/ ClickBar

-----------------------------------------------------------------------------
TagTypeOK ==
  /\ dialog.kind \in {"none", "request", "authenticate"}
  /\ \A s \in {tagLists, selectedKey, existingKey, input} : s \in Seq(Texts)
  /\ lit \subseteq Texts /\ barLit \in BOOLEAN

\* The lists of the dialog agree: no tag is selected twice or has two labels,
\* every selected tag is known, and a known tag has a label.
TagsAgree ==
  /\ IsInjective(selectedKey) /\ IsInjective(existingKey)
  /\ Range(selectedKey) \subseteq Range(tagLists)
  /\ Range(tagLists) = Range(existingKey)
=============================================================================
