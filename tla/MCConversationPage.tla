------------------------ MODULE MCConversationPage ------------------------
\* ConversationPage with two direct conversations and a group.
EXTENDS ConversationPage, TLC
CONSTANTS ann, ben, team

\* The device's clock is right, ahead of every timestamp there will be, or behind.
Ahead == MaxMessages + MaxTexts
Clocks == {0, Ahead, -Ahead}
Friends == Permutations({ann, ben})
=============================================================================
